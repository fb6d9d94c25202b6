------------------------ MODULE RefundService_proofs ------------------------
(***************************************************************************)
(* RefundService, for every set of keys and workers: types, attempts that  *)
(* are counted, one refund of the gateway per key, the state machine, the  *)
(* refundable bucket, and our records against the gateway's.               *)
(***************************************************************************)
EXTENDS RefundService, Sums

WorkersOK == pc \in [Workers -> Labels] /\ loc \in [Workers -> Locals]

\* A gateway id that anyone holds is a position in the gateway's list for its key.
GatewayIds ==
  channel = "razorpay" =>
    /\ \A k \in Keys : refunds[k].gid <= Len(gw[k])
    /\ \A w \in Workers : loc[w].gid <= Len(gw[loc[w].key])
    /\ \A m \in inbox : m.gid \in 1..Len(gw[m.key])

TypeInv == TypeOK /\ GatewayIds

LEMMA NoLocalsType == /\ NoLocals \in Locals /\ NoLocals.gid = 0
                      /\ NothingShown \in [Keys -> Entry]
<1>1. (CHOOSE k \in Keys : TRUE) \in Keys
  BY KeysAssumption
<1>2. NothingShown \in [Keys -> Entry]
  BY DEF NothingShown, NotShown, Entry
<1> QED
  BY <1>1, <1>2 DEF NoLocals, Locals, Operations

\* Every way a worker moves keeps pc and loc well-typed.
LEMMA WorkerMoves ==
  ASSUME WorkersOK, NEW w \in Workers
  PROVE  /\ \A label \in Labels : GoTo(w, label) => WorkersOK'
         /\ \A label \in Labels, l \in Locals : GoWith(w, label, l) => WorkersOK'
         /\ \A label \in Labels, l \in Locals : Begin(w, label, l) => WorkersOK'
         /\ Finish(w) => WorkersOK'
         /\ Throw(w) => WorkersOK'
<1>1. \A label \in Labels : GoTo(w, label) => WorkersOK'
  BY DEF WorkersOK, GoTo
<1>2. \A label \in Labels, l \in Locals : GoWith(w, label, l) => WorkersOK'
  BY DEF WorkersOK, GoWith
<1>3. \A label \in Labels, l \in Locals : Begin(w, label, l) => WorkersOK'
  BY DEF WorkersOK, Begin
<1>4. "idle" \in Labels /\ "release" \in Labels /\ "retryFail" \in Labels
  BY DEF Labels
<1>5. Finish(w) => WorkersOK'
  BY <1>2, <1>4, NoLocalsType DEF Finish
<1>6. Throw(w) => WorkersOK'
  BY <1>1, <1>4, <1>5 DEF Throw
<1> QED
  BY <1>1, <1>2, <1>3, <1>5, <1>6

\* What GatewayAccept does to the gateway and its messages.
LEMMA GatewayAcceptType ==
  ASSUME TypeOK, NEW k \in Keys, GatewayAccept(k)
  PROVE  /\ gw' \in [Keys -> Seq(GatewayStatuses)]
         /\ inbox' \subseteq [key : Keys, gid : Nat, status : GatewayStatuses]
         /\ Len(gw'[k]) = Len(gw[k]) + 1
         /\ \A j \in Keys : Len(gw'[j]) >= Len(gw[j])
         /\ \A m \in inbox' : m \in inbox \/ (m.key = k /\ m.gid = Len(gw[k]) + 1)
<1>1. gw[k] \in Seq(GatewayStatuses) /\ "created" \in GatewayStatuses
  BY DEF TypeOK, GatewayStatuses
<1>2. Append(gw[k], "created") \in Seq(GatewayStatuses)
  BY <1>1
<1>3. gw' = [gw EXCEPT ![k] = Append(gw[k], "created")]
  BY DEF GatewayAccept
<1>4. gw' \in [Keys -> Seq(GatewayStatuses)] /\ gw'[k] = Append(gw[k], "created")
  BY <1>2, <1>3 DEF TypeOK
<1>5. Len(gw'[k]) = Len(gw[k]) + 1
  BY <1>1, <1>4
<1>6. \A j \in Keys : Len(gw'[j]) >= Len(gw[j])
  <2> TAKE j \in Keys
  <2>1. j # k => gw'[j] = gw[j]
    BY <1>3 DEF TypeOK
  <2>2. Len(gw[j]) \in Nat
    BY DEF TypeOK
  <2> QED
    BY <1>5, <2>1, <2>2
<1>7. \A m \in inbox' : m \in inbox \/ m \in [key : {k}, gid : {Len(gw[k]) + 1}, status : {"created"}]
  BY DEF GatewayAccept
<1>8. Len(gw[k]) + 1 \in Nat
  BY <1>1
<1>9. inbox' \subseteq [key : Keys, gid : Nat, status : GatewayStatuses]
  BY <1>1, <1>7, <1>8 DEF TypeOK
<1> QED
  BY <1>4, <1>5, <1>6, <1>7, <1>9

\* The gateway id a worker holds is dropped or kept.
IdsKept ==
  \A v \in Workers : \/ loc'[v].gid = 0
                     \/ loc'[v].gid = loc[v].gid /\ loc'[v].key = loc[v].key

LEMMA MoveLocals ==
  ASSUME WorkersOK, NEW w \in Workers
  PROVE  /\ \A label : GoTo(w, label) => IdsKept
         /\ \A label : \A l \in Locals :
              /\ GoWith(w, label, l) \/ Begin(w, label, l)
              /\ l.gid = 0 \/ (l.gid = loc[w].gid /\ l.key = loc[w].key)
              => IdsKept
         /\ Finish(w) => IdsKept
         /\ Throw(w) => IdsKept
<1>1. \A label : GoTo(w, label) => IdsKept
  BY DEF GoTo, IdsKept
<1>2. ASSUME NEW label, NEW l \in Locals,
             GoWith(w, label, l) \/ Begin(w, label, l),
             l.gid = 0 \/ (l.gid = loc[w].gid /\ l.key = loc[w].key)
      PROVE  IdsKept
  <2>1. loc' = [loc EXCEPT ![w] = l]
    BY <1>2 DEF GoWith, Begin
  <2>2. \A v \in Workers : loc'[v] = IF v = w THEN l ELSE loc[v]
    BY <2>1 DEF WorkersOK
  <2> QED
    BY <1>2, <2>2 DEF IdsKept
<1>3. Finish(w) => IdsKept
  BY <1>2, NoLocalsType DEF Finish
<1>4. Throw(w) => IdsKept
  BY <1>1, <1>3 DEF Throw
<1> QED
  BY <1>1, <1>2, <1>3, <1>4

\* Gateway ids stay known while the gateway's lists only grow.
LEMMA GatewayIdsKept ==
  ASSUME TypeInv, TypeOK', channel' = channel,
         \A k \in Keys : Len(gw'[k]) >= Len(gw[k]),
         \A k \in Keys : \/ refunds'[k].gid = refunds[k].gid
                         \/ channel = "razorpay" => refunds'[k].gid <= Len(gw'[k]),
         \A v \in Workers : \/ loc'[v].gid = 0
                            \/ loc'[v].gid = loc[v].gid /\ loc'[v].key = loc[v].key
                            \/ channel = "razorpay" => loc'[v].gid <= Len(gw'[loc'[v].key]),
         \A m \in inbox' : m \in inbox \/ m.gid \in 1..Len(gw'[m.key])
  PROVE  GatewayIds'
<1> SUFFICES ASSUME channel = "razorpay"
             PROVE  /\ \A k \in Keys : refunds'[k].gid <= Len(gw'[k])
                    /\ \A v \in Workers : loc'[v].gid <= Len(gw'[loc'[v].key])
                    /\ \A m \in inbox' : m.gid \in 1..Len(gw'[m.key])
  BY DEF GatewayIds
<1>a. \A k \in Keys : Len(gw[k]) \in Nat /\ Len(gw'[k]) \in Nat
  BY DEF TypeInv, TypeOK
<1>b. \A k \in Keys : refunds[k].gid \in Nat /\ refunds'[k].gid \in Nat
  BY DEF TypeInv, TypeOK, RefundDoc
<1>c. \A v \in Workers : /\ loc[v].gid \in Nat /\ loc'[v].gid \in Nat
                         /\ loc[v].key \in Keys /\ loc'[v].key \in Keys
  BY DEF TypeInv, TypeOK, Locals
<1>d. \A m \in inbox : m.key \in Keys /\ m.gid \in Nat
  BY DEF TypeInv, TypeOK
<1>0. /\ \A k \in Keys : Len(gw[k]) \in Nat /\ Len(gw'[k]) \in Nat
      /\ \A k \in Keys : refunds[k].gid \in Nat /\ refunds'[k].gid \in Nat
      /\ \A v \in Workers : /\ loc[v].gid \in Nat /\ loc'[v].gid \in Nat
                            /\ loc[v].key \in Keys /\ loc'[v].key \in Keys
      /\ \A m \in inbox : m.key \in Keys /\ m.gid \in Nat
  BY <1>a, <1>b, <1>c, <1>d
<1>1. \A k \in Keys : refunds[k].gid <= Len(gw[k])
  BY DEF TypeInv, GatewayIds
<1>2. \A v \in Workers : loc[v].gid <= Len(gw[loc[v].key])
  BY DEF TypeInv, GatewayIds
<1>3. \A m \in inbox : m.gid \in 1..Len(gw[m.key])
  BY DEF TypeInv, GatewayIds
<1>4. \A k \in Keys : refunds'[k].gid <= Len(gw'[k])
  BY <1>0, <1>1
<1>5. \A v \in Workers : loc'[v].gid <= Len(gw'[loc'[v].key])
  BY <1>0, <1>2
<1>6. \A m \in inbox' : m.gid \in 1..Len(gw'[m.key])
  BY <1>0, <1>3
<1> QED
  BY <1>4, <1>5, <1>6

LEMMA TypeInit == Init => TypeInv
<1> SUFFICES ASSUME Init PROVE TypeInv
  OBVIOUS
<1>1. NoLocals \in Locals /\ NoLocals.gid = 0 /\ NoLocals.key \in Keys
  BY NoLocalsType DEF Locals
<1>2. Absent \in RefundDoc /\ Absent.gid = 0
  BY DEF Absent, RefundDoc
<1>3. << >> \in Seq(GatewayStatuses) /\ Len(<< >>) = 0
  OBVIOUS
<1>4. TypeOK
  BY <1>1, <1>2, <1>3, NoLocalsType, AmountAssumption, BoundAssumption DEF Init, TypeOK, Labels
<1>5. GatewayIds
  BY <1>1, <1>2, <1>3 DEF Init, GatewayIds
<1> QED
  BY <1>4, <1>5 DEF TypeInv

\* Facts every step below starts from.
LEMMA TypeFacts ==
  ASSUME TypeInv
  PROVE  /\ WorkersOK
         /\ refundable \in Nat
         /\ refunds \in [Keys -> RefundDoc]
         /\ \A w \in Workers : loc[w] \in Locals /\ loc[w].key \in Keys /\ loc[w].gid \in Nat
         /\ \A k \in Keys : AmountOf[k] \in Nat \ {0}
         /\ "absent" \notin RefundStates
  BY AmountAssumption DEF TypeInv, TypeOK, WorkersOK, Locals, RefundStates, INITIATED,
       PENDING, PROCESSED, FAILED, PERMANENTLY_FAILED

\* A step that leaves the gateway alone keeps its part of the type invariant.
LEMMA QuietGateway ==
  ASSUME TypeInv, gatewayVars' = gatewayVars
  PROVE  /\ gw' \in [Keys -> Seq(GatewayStatuses)]
         /\ inbox' \subseteq [key : Keys, gid : Nat, status : GatewayStatuses]
         /\ \A k \in Keys : Len(gw'[k]) >= Len(gw[k])
         /\ \A m \in inbox' : m \in inbox
  BY DEF TypeInv, TypeOK, gatewayVars

\* A refund's gateway id is kept, still empty, or the one a worker on it holds.
GidsKept ==
  \A j \in Keys : \/ refunds'[j].gid = refunds[j].gid
                  \/ refunds'[j].gid = 0
                  \/ \E v \in Workers : loc[v].key = j /\ refunds'[j].gid = loc[v].gid

LEMMA QuietKeepsIds ==
  ASSUME TypeInv, TypeOK', channel' = channel, gatewayVars' = gatewayVars, IdsKept, GidsKept
  PROVE  GatewayIds'
<1>1. \A v \in Workers : \/ loc'[v].gid = 0
                         \/ loc'[v].gid = loc[v].gid /\ loc'[v].key = loc[v].key
                         \/ channel = "razorpay" => loc'[v].gid <= Len(gw'[loc'[v].key])
  BY DEF IdsKept
<1>2. \A j \in Keys : \/ refunds'[j].gid = refunds[j].gid
                      \/ channel = "razorpay" => refunds'[j].gid <= Len(gw'[j])
  <2> SUFFICES ASSUME NEW j \in Keys, refunds'[j].gid # refunds[j].gid, channel = "razorpay"
               PROVE  refunds'[j].gid <= Len(gw'[j])
    OBVIOUS
  <2>1. Len(gw[j]) \in Nat /\ gw' = gw
    BY DEF TypeInv, TypeOK, gatewayVars
  <2>2. CASE refunds'[j].gid = 0
    BY <2>1, <2>2
  <2>3. CASE \E v \in Workers : loc[v].key = j /\ refunds'[j].gid = loc[v].gid
    BY <2>1, <2>3 DEF TypeInv, GatewayIds
  <2> QED
    BY <2>2, <2>3 DEF GidsKept
<1> QED
  BY <1>1, <1>2, GatewayIdsKept, QuietGateway

LEMMA ShownEntriesType ==
  ASSUME TypeInv
  PROVE  ShownEntries \in [Keys -> Entry]
<1>1. ASSUME NEW k \in Keys, Exists(k)
      PROVE  LegacyStatus(refunds[k].state) \in LegacyStatuses
  <2>1. refunds[k].state \in RefundStates
    BY <1>1, TypeFacts DEF Exists, RefundDoc
  <2> QED
    BY <2>1 DEF LegacyStatus, LegacyStatuses, RefundStates, INITIATED, PENDING, PROCESSED,
                FAILED, PERMANENTLY_FAILED
<1>2. NotShown \in Entry
  BY DEF NotShown, Entry
<1>3. ASSUME NEW k \in Keys, Exists(k)
      PROVE  [status |-> LegacyStatus(refunds[k].state), gid |-> refunds[k].gid] \in Entry
  BY <1>1, <1>3, TypeFacts DEF Entry, RefundDoc
<1> QED
  BY <1>2, <1>3 DEF ShownEntries

\* Updating the fields of a worker's locals.
LEMMA LocalsUpdates ==
  ASSUME NEW l \in Locals
  PROVE  /\ LET u == [l EXCEPT !.own = TRUE]
            IN u \in Locals /\ u.gid = l.gid /\ u.key = l.key
         /\ \A g \in Nat : LET u == [l EXCEPT !.gid = g, !.dirty = TRUE]
                           IN u \in Locals /\ u.gid = g /\ u.key = l.key
         /\ LET u == [l EXCEPT !.dirty = FALSE]
            IN u \in Locals /\ u.gid = l.gid /\ u.key = l.key
         /\ \A e \in [Keys -> Entry] :
              LET u == [l EXCEPT !.new = e]
              IN u \in Locals /\ u.gid = l.gid /\ u.key = l.key
         /\ \A s \in RefundStates \cup {"absent"} :
              LET u == [l EXCEPT !.before = s]
              IN u \in Locals /\ u.gid = l.gid /\ u.key = l.key
         /\ \A c \in Nat : LET u == [l EXCEPT !.count = c]
                           IN u \in Locals /\ u.gid = l.gid /\ u.key = l.key
         /\ LET u == [l EXCEPT !.op = "exhaust", !.before = FAILED, !.next = PERMANENTLY_FAILED]
            IN u \in Locals /\ u.gid = l.gid /\ u.key = l.key
  BY DEF Locals, Operations, RefundStates

LEMMA ViewFacts == TypeInv => view \in [Keys -> Entry] /\ current \subseteq Workers
  BY DEF TypeInv, TypeOK

LEMMA TypeQuietInitiate ==
  ASSUME TypeInv, NEW w \in Workers,
         LazySeed(w) \/ Reserve(w) \/ RecordRefund(w) \/ ReleaseAfterFailure(w)
  PROVE  TypeInv'
<1>0. loc[w].key \in Keys
  BY TypeFacts
<1>1. CASE LazySeed(w)
  <2>1. WorkersOK'
    BY <1>0, <1>1, TypeFacts, WorkerMoves DEF Labels, LazySeed
  <2>2. refundable' \in Nat
    BY <1>0, <1>1, TypeFacts, AmountAssumption DEF LazySeed, orderVars
  <2>3. TypeOK'
    BY <1>0, <1>1, <2>1, <2>2
    DEF TypeInv, TypeOK, WorkersOK, LazySeed, orderVars, ledgerVars, gatewayVars
  <2>4. IdsKept
    BY <1>0, <1>1, TypeFacts, MoveLocals DEF LazySeed
  <2>5. GidsKept
    BY <1>0, <1>1, TypeFacts DEF LazySeed, RefundDoc, GidsKept
  <2> QED
    BY <1>1, <2>3, <2>4, <2>5, QuietKeepsIds DEF LazySeed, TypeInv, orderVars, gatewayVars
<1>2. CASE Reserve(w)
  <2>1. WorkersOK'
    BY <1>0, <1>2, TypeFacts, WorkerMoves DEF Labels, Reserve
  <2>2. refundable' \in Nat
    BY <1>0, <1>2, TypeFacts DEF Reserve, orderVars
  <2>3. TypeOK'
    BY <1>0, <1>2, <2>1, <2>2
    DEF TypeInv, TypeOK, WorkersOK, Reserve, orderVars, ledgerVars, gatewayVars
  <2>4. IdsKept
    BY <1>0, <1>2, TypeFacts, MoveLocals DEF Reserve
  <2>5. GidsKept
    BY <1>0, <1>2, TypeFacts DEF Reserve, RefundDoc, GidsKept
  <2> QED
    BY <1>2, <2>3, <2>4, <2>5, QuietKeepsIds DEF Reserve, TypeInv, orderVars, gatewayVars
<1>3. CASE RecordRefund(w)
  <2>1. WorkersOK'
    BY <1>0, <1>3, TypeFacts, WorkerMoves DEF Labels, RecordRefund
  <2>2. debits' \in [Keys -> Nat]
    BY <1>0, <1>3, TypeFacts DEF RecordRefund, orderVars, TypeInv, TypeOK
  <2>3. TypeOK'
    BY <1>0, <1>3, <2>1, <2>2
    DEF TypeInv, TypeOK, WorkersOK, RecordRefund, orderVars, ledgerVars, gatewayVars
  <2>4. IdsKept
    BY <1>0, <1>3, TypeFacts, MoveLocals DEF RecordRefund
  <2>5. GidsKept
    BY <1>0, <1>3, TypeFacts DEF RecordRefund, RefundDoc, GidsKept
  <2> QED
    BY <1>3, <2>3, <2>4, <2>5, QuietKeepsIds DEF RecordRefund, TypeInv, orderVars, gatewayVars
<1>4. CASE ReleaseAfterFailure(w)
  <2>1. WorkersOK'
    BY <1>0, <1>4, TypeFacts, WorkerMoves DEF Labels, ReleaseAfterFailure
  <2>2. refundable' \in Nat
    BY <1>0, <1>4, TypeFacts DEF ReleaseAfterFailure, orderVars
  <2>3. TypeOK'
    BY <1>0, <1>4, <2>1, <2>2
    DEF TypeInv, TypeOK, WorkersOK, ReleaseAfterFailure, orderVars, ledgerVars, gatewayVars
  <2>4. IdsKept
    BY <1>0, <1>4, TypeFacts, MoveLocals DEF ReleaseAfterFailure
  <2>5. GidsKept
    BY <1>0, <1>4, TypeFacts DEF ReleaseAfterFailure, RefundDoc, GidsKept
  <2> QED
    BY <1>4, <2>3, <2>4, <2>5, QuietKeepsIds DEF ReleaseAfterFailure, TypeInv, orderVars, gatewayVars
<1> QED
  BY <1>1, <1>2, <1>3, <1>4

LEMMA TypeSaves ==
  ASSUME TypeInv, NEW w \in Workers,
         CreateRefund(w) \/ SaveAccepted(w) \/ SaveFailed(w)
  PROVE  TypeInv'
<1>0. loc[w].key \in Keys
  BY TypeFacts
<1>1. CASE CreateRefund(w)
  <2>1. WorkersOK'
    BY <1>0, <1>1, TypeFacts, WorkerMoves, LocalsUpdates DEF Labels, CreateRefund
  <2>a. [Absent EXCEPT !.state = INITIATED] \in RefundDoc
    BY DEF Absent, RefundDoc, RefundStates
  <2>2. refunds' \in [Keys -> RefundDoc]
    BY <1>0, <1>1, <2>a, TypeFacts DEF CreateRefund
  <2>3. TypeOK'
    BY <1>0, <1>1, <2>1, <2>2
    DEF TypeInv, TypeOK, WorkersOK, CreateRefund, orderVars, ledgerVars, gatewayVars
  <2>4. IdsKept
    BY <1>0, <1>1, TypeFacts, MoveLocals, LocalsUpdates DEF CreateRefund
  <2>5. GidsKept
    BY <1>0, <1>1, TypeFacts DEF CreateRefund, RefundDoc, GidsKept, Absent
  <2> QED
    BY <1>1, <2>3, <2>4, <2>5, QuietKeepsIds DEF CreateRefund, TypeInv, orderVars, gatewayVars
<1>2. CASE SaveAccepted(w)
  <2>0. \A v \in Workers : loc'[v] = IF v = w THEN [loc[w] EXCEPT !.dirty = FALSE] ELSE loc[v]
    BY <1>2, TypeFacts DEF SaveAccepted, WorkersOK
  <2>a. LET u == [loc[w] EXCEPT !.dirty = FALSE] IN
        u \in Locals /\ u.gid = loc[w].gid /\ u.key = loc[w].key
    BY TypeFacts DEF Locals
  <2>b. loc' \in [Workers -> Locals]
    <3>1. loc' = [v \in Workers |-> loc'[v]]
      BY <1>2, TypeFacts DEF SaveAccepted, WorkersOK
    <3> QED
      BY <3>1, <2>0, <2>a, TypeFacts DEF WorkersOK
  <2>1. WorkersOK'
    BY <1>2, <2>b, TypeFacts DEF SaveAccepted, WorkersOK, Labels
  <2>2. refunds' \in [Keys -> RefundDoc]
    BY <1>0, <1>2, TypeFacts DEF SaveAccepted, orderVars, RefundDoc, RefundStates
  <2>3. TypeOK'
    BY <1>0, <1>2, <2>1, <2>2
    DEF TypeInv, TypeOK, WorkersOK, SaveAccepted, orderVars, ledgerVars, gatewayVars
  <2>4. IdsKept
    BY <2>0, <2>a DEF IdsKept
  <2>5. GidsKept
    BY <1>0, <1>2, TypeFacts DEF SaveAccepted, RefundDoc, GidsKept
  <2> QED
    BY <1>2, <2>3, <2>4, <2>5, QuietKeepsIds DEF SaveAccepted, TypeInv, orderVars, gatewayVars
<1>3. CASE SaveFailed(w)
  <2>1. WorkersOK'
    BY <1>0, <1>3, TypeFacts, WorkerMoves DEF Labels, SaveFailed
  <2>2. refunds' \in [Keys -> RefundDoc]
    BY <1>0, <1>3, TypeFacts DEF SaveFailed, orderVars, RefundDoc, RefundStates
  <2>3. TypeOK'
    BY <1>0, <1>3, <2>1, <2>2
    DEF TypeInv, TypeOK, WorkersOK, SaveFailed, orderVars, ledgerVars, gatewayVars
  <2>4. IdsKept
    BY <1>0, <1>3, TypeFacts, MoveLocals DEF SaveFailed
  <2>5. GidsKept
    BY <1>0, <1>3, TypeFacts DEF SaveFailed, RefundDoc, GidsKept
  <2> QED
    BY <1>3, <2>3, <2>4, <2>5, QuietKeepsIds DEF SaveFailed, TypeInv, orderVars, gatewayVars
<1> QED
  BY <1>1, <1>2, <1>3

LEMMA TypeProject ==
  ASSUME TypeInv, NEW w \in Workers,
         ProjectRead(w) \/ ProjectSave(w)
  PROVE  TypeInv'
<1>0. loc[w].key \in Keys
  BY TypeFacts
<1>1. CASE ProjectRead(w)
  <2>0. LET u == [loc[w] EXCEPT !.new = ShownEntries] IN
          u \in Locals /\ u.gid = loc[w].gid /\ u.key = loc[w].key
    BY LocalsUpdates, ShownEntriesType, TypeFacts
  <2>1. WorkersOK'
    BY <1>0, <1>1, <2>0, TypeFacts, WorkerMoves DEF Labels, ProjectRead
  <2>2. current' \subseteq Workers
    BY <1>0, <1>1, TypeFacts DEF ProjectRead, orderVars, TypeInv, TypeOK
  <2>3. TypeOK'
    BY <1>0, <1>1, <2>1, <2>2
    DEF TypeInv, TypeOK, WorkersOK, ProjectRead, orderVars, ledgerVars, gatewayVars
  <2>4. IdsKept
    BY <1>0, <1>1, <2>0, TypeFacts, MoveLocals DEF ProjectRead
  <2>5. GidsKept
    BY <1>0, <1>1, TypeFacts DEF ProjectRead, RefundDoc, GidsKept
  <2> QED
    BY <1>1, <2>3, <2>4, <2>5, QuietKeepsIds DEF ProjectRead, TypeInv, orderVars, gatewayVars
<1>2. CASE ProjectSave(w)
  <2>1. WorkersOK'
    BY <1>0, <1>2, TypeFacts, WorkerMoves DEF Labels, ProjectSave
  <2>2. view' \in [Keys -> Entry] /\ current' \subseteq Workers
    BY <1>0, <1>2, TypeFacts, ViewFacts DEF ProjectSave, orderVars, Locals
  <2>3. TypeOK'
    BY <1>0, <1>2, <2>1, <2>2
    DEF TypeInv, TypeOK, WorkersOK, ProjectSave, orderVars, ledgerVars, gatewayVars
  <2>4. IdsKept
    BY <1>0, <1>2, TypeFacts, MoveLocals DEF ProjectSave
  <2>5. GidsKept
    BY <1>0, <1>2, TypeFacts DEF ProjectSave, RefundDoc, GidsKept
  <2> QED
    BY <1>2, <2>3, <2>4, <2>5, QuietKeepsIds DEF ProjectSave, TypeInv, orderVars, gatewayVars
<1> QED
  BY <1>1, <1>2

LEMMA TypeWebhook ==
  ASSUME TypeInv, NEW w \in Workers,
         FindRefund(w) \/ ApplyState(w) \/ WebhookRelease(w) \/ RecordAdjustment(w)
  PROVE  TypeInv'
<1>0. loc[w].key \in Keys
  BY TypeFacts
<1>1. CASE FindRefund(w)
  <2>0. LET u == [loc[w] EXCEPT !.before = refunds[loc[w].key].state] IN
          u \in Locals /\ u.gid = loc[w].gid /\ u.key = loc[w].key
    BY <1>0, LocalsUpdates, TypeFacts DEF RefundDoc
  <2>1. WorkersOK'
    BY <1>0, <1>1, <2>0, TypeFacts, WorkerMoves DEF Labels, FindRefund
  <2>2. refunds' = refunds
    BY <1>0, <1>1, TypeFacts DEF FindRefund, orderVars
  <2>3. TypeOK'
    BY <1>0, <1>1, <2>1, <2>2
    DEF TypeInv, TypeOK, WorkersOK, FindRefund, orderVars, ledgerVars, gatewayVars
  <2>4. IdsKept
    BY <1>0, <1>1, <2>0, TypeFacts, MoveLocals DEF FindRefund
  <2>5. GidsKept
    BY <1>0, <1>1, TypeFacts DEF FindRefund, RefundDoc, GidsKept
  <2> QED
    BY <1>1, <2>3, <2>4, <2>5, QuietKeepsIds DEF FindRefund, TypeInv, orderVars, gatewayVars
<1>2. CASE ApplyState(w)
  <2>1. WorkersOK'
    BY <1>0, <1>2, TypeFacts, WorkerMoves DEF Labels, ApplyState
  <2>2. refunds' \in [Keys -> RefundDoc]
    BY <1>0, <1>2, TypeFacts DEF ApplyState, orderVars, RefundDoc, Locals
  <2>3. TypeOK'
    BY <1>0, <1>2, <2>1, <2>2
    DEF TypeInv, TypeOK, WorkersOK, ApplyState, orderVars, ledgerVars, gatewayVars
  <2>4. IdsKept
    BY <1>0, <1>2, TypeFacts, MoveLocals DEF ApplyState
  <2>5. GidsKept
    BY <1>0, <1>2, TypeFacts DEF ApplyState, RefundDoc, GidsKept
  <2> QED
    BY <1>2, <2>3, <2>4, <2>5, QuietKeepsIds DEF ApplyState, TypeInv, orderVars, gatewayVars
<1>3. CASE WebhookRelease(w)
  <2>1. WorkersOK'
    BY <1>0, <1>3, TypeFacts, WorkerMoves DEF Labels, WebhookRelease
  <2>2. refundable' \in Nat
    BY <1>0, <1>3, TypeFacts DEF WebhookRelease, orderVars
  <2>3. TypeOK'
    BY <1>0, <1>3, <2>1, <2>2
    DEF TypeInv, TypeOK, WorkersOK, WebhookRelease, orderVars, ledgerVars, gatewayVars
  <2>4. IdsKept
    BY <1>0, <1>3, TypeFacts, MoveLocals DEF WebhookRelease
  <2>5. GidsKept
    BY <1>0, <1>3, TypeFacts DEF WebhookRelease, RefundDoc, GidsKept
  <2> QED
    BY <1>3, <2>3, <2>4, <2>5, QuietKeepsIds DEF WebhookRelease, TypeInv, orderVars, gatewayVars
<1>4. CASE RecordAdjustment(w)
  <2>1. WorkersOK'
    BY <1>0, <1>4, TypeFacts, WorkerMoves DEF Labels, RecordAdjustment
  <2>a. credits \in [Keys -> Nat]
    BY DEF TypeInv, TypeOK
  <2>b. credits' = [credits EXCEPT ![loc[w].key] = @ + 1]
    BY <1>4 DEF RecordAdjustment
  <2>2. credits' \in [Keys -> Nat]
    <3>1. \A k \in Keys : credits[k] + 1 \in Nat
      BY <2>a
    <3> QED
      BY <2>a, <2>b, <3>1
  <2>3. TypeOK'
    BY <1>0, <1>4, <2>1, <2>2
    DEF TypeInv, TypeOK, WorkersOK, RecordAdjustment, orderVars, ledgerVars, gatewayVars
  <2>4. IdsKept
    BY <1>0, <1>4, TypeFacts, MoveLocals DEF RecordAdjustment
  <2>5. GidsKept
    BY <1>0, <1>4, TypeFacts DEF RecordAdjustment, RefundDoc, GidsKept
  <2> QED
    BY <1>4, <2>3, <2>4, <2>5, QuietKeepsIds DEF RecordAdjustment, TypeInv, orderVars, gatewayVars
<1> QED
  BY <1>1, <1>2, <1>3, <1>4

LEMMA TypeRetry ==
  ASSUME TypeInv, NEW w \in Workers,
         RetryRead(w) \/ RetrySave(w)
  PROVE  TypeInv'
<1>0. loc[w].key \in Keys
  BY TypeFacts
<1>1. CASE RetryRead(w)
  <2>0. refunds[loc[w].key].retryCount + 1 \in Nat
    BY <1>0, TypeFacts DEF RefundDoc
  <2>a. LET u == [loc[w] EXCEPT !.count = refunds[loc[w].key].retryCount + 1] IN
        u \in Locals /\ u.gid = loc[w].gid /\ u.key = loc[w].key
    BY <1>0, <2>0, TypeFacts DEF Locals
  <2>b. LET u == [loc[w] EXCEPT !.op = "exhaust", !.before = FAILED,
                                !.next = PERMANENTLY_FAILED] IN
        u \in Locals /\ u.gid = loc[w].gid /\ u.key = loc[w].key
    BY <1>0, TypeFacts DEF Locals, Operations, RefundStates
  <2>1. WorkersOK'
    BY <1>0, <1>1, <2>a, <2>b, TypeFacts, WorkerMoves DEF Labels, RetryRead
  <2>2. refunds' = refunds
    BY <1>0, <1>1, TypeFacts DEF RetryRead, orderVars
  <2>3. TypeOK'
    BY <1>0, <1>1, <2>1, <2>2
    DEF TypeInv, TypeOK, WorkersOK, RetryRead, orderVars, ledgerVars, gatewayVars
  <2>4. IdsKept
    BY <1>0, <1>1, <2>a, <2>b, TypeFacts, MoveLocals DEF RetryRead
  <2>5. GidsKept
    BY <1>0, <1>1, TypeFacts DEF RetryRead, RefundDoc, GidsKept
  <2> QED
    BY <1>1, <2>3, <2>4, <2>5, QuietKeepsIds DEF RetryRead, TypeInv, orderVars, gatewayVars
<1>2. CASE RetrySave(w)
  <2>1. WorkersOK'
    BY <1>0, <1>2, TypeFacts, WorkerMoves DEF Labels, RetrySave
  <2>2. refunds' \in [Keys -> RefundDoc]
    BY <1>0, <1>2, TypeFacts DEF RetrySave, orderVars, RefundDoc, Locals, RefundStates
  <2>3. TypeOK'
    BY <1>0, <1>2, <2>1, <2>2
    DEF TypeInv, TypeOK, WorkersOK, RetrySave, orderVars, ledgerVars, gatewayVars
  <2>4. IdsKept
    BY <1>0, <1>2, TypeFacts, MoveLocals DEF RetrySave
  <2>5. GidsKept
    BY <1>0, <1>2, TypeFacts DEF RetrySave, RefundDoc, GidsKept
  <2> QED
    BY <1>2, <2>3, <2>4, <2>5, QuietKeepsIds DEF RetrySave, TypeInv, orderVars, gatewayVars
<1> QED
  BY <1>1, <1>2

\* The two steps that call the gateway.
LEMMA TypeGatewayCall ==
  ASSUME TypeInv, NEW w \in Workers, ExecuteStrategy(w) \/ AnswerLost(w)
  PROVE  TypeInv'
<1> DEFINE k == loc[w].key
           u == [loc[w] EXCEPT !.gid = Len(gw[k]) + 1, !.dirty = TRUE]
           b == [loc[w] EXCEPT !.gid = 1, !.dirty = TRUE]
<1>0. k \in Keys /\ Len(gw[k]) + 1 \in Nat
  BY TypeFacts DEF TypeInv, TypeOK
<1>a. u \in Locals /\ u.gid = Len(gw[k]) + 1 /\ u.key = k
  BY <1>0, TypeFacts DEF Locals
<1>b. b \in Locals
  BY TypeFacts DEF Locals
<1>c. faults' \in 0..(MaxFaults + 1)
  BY BoundAssumption DEF ExecuteStrategy, AnswerLost, TypeInv, TypeOK
<1>d. UNCHANGED <<orderVars, refunds, ledgerVars>>
  BY DEF ExecuteStrategy, AnswerLost
<1>1. CASE UNCHANGED gatewayVars /\ Throw(w)
  <2>1. WorkersOK' /\ IdsKept
    BY <1>1, TypeFacts, WorkerMoves, MoveLocals
  <2>2. TypeOK'
    BY <1>1, <1>c, <1>d, <2>1 DEF TypeInv, TypeOK, WorkersOK, orderVars, ledgerVars, gatewayVars
  <2>3. GidsKept
    BY <1>d DEF GidsKept
  <2> QED
    BY <1>1, <1>d, <2>1, <2>2, <2>3, QuietKeepsIds DEF TypeInv, orderVars
<1>2. CASE UNCHANGED gatewayVars /\ channel = "bank_transfer" /\ GoWith(w, "save", b)
  <2>1. WorkersOK'
    BY <1>2, <1>b, TypeFacts, WorkerMoves DEF Labels
  <2>2. TypeOK'
    BY <1>2, <1>c, <1>d, <2>1 DEF TypeInv, TypeOK, WorkersOK, orderVars, ledgerVars, gatewayVars
  <2> QED
    BY <1>2, <1>d, <2>2 DEF TypeInv, GatewayIds, orderVars
<1>3. CASE GatewayAccept(k) /\ (Throw(w) \/ GoWith(w, "save", u))
  <2>1. WorkersOK'
    BY <1>3, <1>a, TypeFacts, WorkerMoves DEF Labels
  <2>2. /\ gw' \in [Keys -> Seq(GatewayStatuses)]
        /\ inbox' \subseteq [key : Keys, gid : Nat, status : GatewayStatuses]
        /\ Len(gw'[k]) = Len(gw[k]) + 1
        /\ \A j \in Keys : Len(gw'[j]) >= Len(gw[j])
        /\ \A m \in inbox' : m \in inbox \/ (m.key = k /\ m.gid = Len(gw[k]) + 1)
    BY <1>0, <1>3, GatewayAcceptType DEF TypeInv
  <2>3. TypeOK'
    BY <1>c, <1>d, <2>1, <2>2 DEF TypeInv, TypeOK, WorkersOK, orderVars, ledgerVars
  <2>4. ASSUME NEW v \in Workers
        PROVE  \/ loc'[v].gid = 0
               \/ loc'[v].gid = loc[v].gid /\ loc'[v].key = loc[v].key
               \/ channel = "razorpay" => loc'[v].gid <= Len(gw'[loc'[v].key])
    <3>1. CASE Throw(w)
      BY <3>1, TypeFacts, MoveLocals DEF IdsKept
    <3>2. CASE GoWith(w, "save", u)
      <4>1. loc'[v] = IF v = w THEN u ELSE loc[v]
        BY <3>2, TypeFacts DEF GoWith, WorkersOK
      <4>2. Len(gw'[k]) = u.gid /\ u.gid \in Nat
        BY <1>0, <1>a, <2>2
      <4> QED
        BY <1>a, <4>1, <4>2
    <3> QED
      BY <1>3, <3>1, <3>2
  <2>5. \A m \in inbox' : m \in inbox \/ m.gid \in 1..Len(gw'[m.key])
    BY <1>0, <2>2
  <2>6. \A j \in Keys : refunds'[j].gid = refunds[j].gid
    BY <1>d
  <2>7. channel' = channel
    BY <1>d DEF orderVars
  <2> HIDE DEF k, u, b
  <2>8. GatewayIds'
    BY <2>2, <2>3, <2>4, <2>5, <2>6, <2>7, GatewayIdsKept
  <2> QED
    BY <2>3, <2>8 DEF TypeInv
<1> QED
  BY <1>1, <1>2, <1>3 DEF ExecuteStrategy, AnswerLost

\* The steps with which a worker begins, for a refund that carries no gateway id along.
LEMMA TypeStart ==
  ASSUME TypeInv, NEW w \in Workers, NEW k \in Keys,
         StartInitiate(w, k) \/ StartRetryJob(w, k) \/ StartRetryAdmin(w, k) \/ StartMark(w, k)
  PROVE  TypeInv'
<1>1. PICK l \in Locals, label \in Labels : Begin(w, label, l) /\ l.gid = 0
  <2>1. refunds[k].state \in RefundStates \cup {"absent"}
    BY TypeFacts DEF RefundDoc
  <2>2. LET l == [NoLocals EXCEPT !.op = "initiate", !.key = k] IN l \in Locals /\ l.gid = 0
    BY NoLocalsType DEF Locals, Operations
  <2>3. LET l == [NoLocals EXCEPT !.op = "retry", !.key = k] IN l \in Locals /\ l.gid = 0
    BY NoLocalsType DEF Locals, Operations
  <2>4. LET l == [NoLocals EXCEPT !.op = "mark", !.key = k, !.before = refunds[k].state,
                                  !.next = PROCESSED] IN l \in Locals /\ l.gid = 0
    BY <2>1, NoLocalsType DEF Locals, Operations, RefundStates
  <2>5. "seed" \in Labels /\ "retryRead" \in Labels /\ "applyState" \in Labels
    BY DEF Labels
  <2> QED
    BY <2>2, <2>3, <2>4, <2>5 DEF StartInitiate, StartRetryJob, StartRetryAdmin, StartMark
<1>2. WorkersOK' /\ IdsKept
  BY <1>1, TypeFacts, WorkerMoves, MoveLocals
<1>3. UNCHANGED <<orderVars, refunds, ledgerVars, gatewayVars, faults>>
  BY DEF StartInitiate, StartRetryJob, StartRetryAdmin, StartMark
<1>4. TypeOK'
  BY <1>2, <1>3 DEF TypeInv, TypeOK, WorkersOK, orderVars, ledgerVars, gatewayVars
<1>5. GidsKept
  BY <1>3 DEF GidsKept
<1> QED
  BY <1>2, <1>3, <1>4, <1>5, QuietKeepsIds DEF TypeInv, orderVars

LEMMA GatewayStatusType ==
  ASSUME NEW s \in GatewayStatuses
  PROVE  StateOfGatewayStatus(s) \in RefundStates
BY DEF StateOfGatewayStatus, GatewayStatuses, RefundStates

LEMMA WebhookLocals ==
  ASSUME NEW k \in Keys, NEW g \in Nat, NEW s \in RefundStates
  PROVE  LET l == [NoLocals EXCEPT !.op = "webhook", !.key = k, !.gid = g, !.next = s]
         IN l \in Locals /\ l.gid = g /\ l.key = k
BY NoLocalsType DEF Locals, Operations

LEMMA TypeStartWebhook ==
  ASSUME TypeInv, NEW w \in Workers, NEW m \in inbox, StartWebhook(w, m)
  PROVE  TypeInv'
<1> DEFINE l == [NoLocals EXCEPT !.op = "webhook", !.key = m.key, !.gid = m.gid,
                                 !.next = StateOfGatewayStatus(m.status)]
<1>1. m.key \in Keys /\ m.gid \in Nat /\ m.status \in GatewayStatuses
  BY DEF TypeInv, TypeOK
<1>2. StateOfGatewayStatus(m.status) \in RefundStates
  BY <1>1, GatewayStatusType
<1>3. l \in Locals /\ l.gid = m.gid /\ l.key = m.key
  BY <1>1, <1>2, WebhookLocals
<1>4. Begin(w, "find", l)
  BY DEF StartWebhook
<1>5. WorkersOK'
  BY <1>3, <1>4, TypeFacts, WorkerMoves DEF Labels
<1>6. UNCHANGED <<orderVars, refunds, ledgerVars, gw, faults>> /\ inbox' \subseteq inbox
  BY DEF StartWebhook
<1>7. TypeOK'
  BY <1>5, <1>6 DEF TypeInv, TypeOK, WorkersOK, orderVars, ledgerVars
<1>8. \A v \in Workers : loc'[v] = IF v = w THEN l ELSE loc[v]
  BY <1>4, TypeFacts DEF Begin, WorkersOK
<1> HIDE DEF l
<1>9. GatewayIds'
  BY <1>3, <1>6, <1>8 DEF TypeInv, GatewayIds, orderVars
<1> QED
  BY <1>7, <1>9 DEF TypeInv

LEMMA TypeStartReconcile ==
  ASSUME TypeInv, NEW w \in Workers, NEW k \in Keys, StartReconcile(w, k)
  PROVE  TypeInv'
<1> DEFINE s == gw[k][refunds[k].gid]
           l == [NoLocals EXCEPT !.op = "webhook", !.key = k, !.gid = refunds[k].gid,
                                 !.next = StateOfGatewayStatus(s)]
<1>1. refunds[k].gid \in 1..Len(gw[k])
  <2>1. refunds[k].gid \in Nat /\ refunds[k].gid # 0 /\ Len(gw[k]) \in Nat
    BY TypeFacts DEF StartReconcile, RefundDoc, TypeInv, TypeOK
  <2>2. refunds[k].gid <= Len(gw[k])
    BY DEF TypeInv, GatewayIds, StartReconcile
  <2> QED
    BY <2>1, <2>2
<1>2. s \in GatewayStatuses
  BY <1>1 DEF TypeInv, TypeOK
<1>3. StateOfGatewayStatus(s) \in RefundStates
  BY <1>2, GatewayStatusType
<1>a. refunds[k].gid \in Nat
  BY <1>1
<1> HIDE DEF s
<1>4. l \in Locals /\ l.gid = refunds[k].gid /\ l.key = k
  BY <1>a, <1>3, WebhookLocals
<1>5. Begin(w, "find", l)
  BY DEF StartReconcile, s
<1>6. WorkersOK'
  BY <1>4, <1>5, TypeFacts, WorkerMoves DEF Labels
<1>7. UNCHANGED <<orderVars, refunds, ledgerVars, gatewayVars, faults>>
  BY DEF StartReconcile
<1>8. TypeOK'
  BY <1>6, <1>7 DEF TypeInv, TypeOK, WorkersOK, orderVars, ledgerVars, gatewayVars
<1>9. \A v \in Workers : loc'[v] = IF v = w THEN l ELSE loc[v]
  BY <1>5, TypeFacts DEF Begin, WorkersOK
<1> HIDE DEF l
<1>10. GatewayIds'
  BY <1>4, <1>7, <1>9 DEF TypeInv, GatewayIds, orderVars, gatewayVars
<1> QED
  BY <1>8, <1>10 DEF TypeInv

LEMMA TypeSettle ==
  ASSUME TypeInv, NEW k \in Keys, NEW n \in 1..Len(gw[k]), GatewaySettle(k, n)
  PROVE  TypeInv'
<1>1. PICK s \in {"processed", "failed"} :
        /\ gw' = [gw EXCEPT ![k][n] = s]
        /\ inbox' = inbox \cup
             {m \in [key : {k}, gid : {n}, status : {s}] : m.status \in EventKinds}
  BY DEF GatewaySettle
<1>2. UNCHANGED <<orderVars, refunds, ledgerVars, workerVars, faults>>
  BY DEF GatewaySettle
<1>3. gw \in [Keys -> Seq(GatewayStatuses)] /\ s \in GatewayStatuses /\ n \in Nat
  BY DEF TypeInv, TypeOK, GatewayStatuses
<1>4. /\ gw'[k] = [gw[k] EXCEPT ![n] = s] /\ gw' \in [Keys -> Seq(GatewayStatuses)]
      /\ \A j \in Keys : Len(gw'[j]) = Len(gw[j])
  <2>1. [gw[k] EXCEPT ![n] = s] \in Seq(GatewayStatuses) /\ Len([gw[k] EXCEPT ![n] = s]) = Len(gw[k])
    BY <1>3
  <2>2. gw' = [gw EXCEPT ![k] = [gw[k] EXCEPT ![n] = s]]
    BY <1>1
  <2> QED
    BY <1>3, <2>1, <2>2
<1>5. \A m \in inbox' : m \in inbox \/ (m.key = k /\ m.gid = n /\ m.status = s)
  BY <1>1
<1>6. inbox' \subseteq [key : Keys, gid : Nat, status : GatewayStatuses]
  BY <1>1, <1>3 DEF TypeInv, TypeOK
<1>7. TypeOK'
  BY <1>2, <1>4, <1>6 DEF TypeInv, TypeOK, orderVars, ledgerVars, workerVars
<1>8. GatewayIds'
  BY <1>2, <1>4, <1>5 DEF TypeInv, GatewayIds, TypeOK, orderVars, workerVars, Locals
<1> QED
  BY <1>7, <1>8 DEF TypeInv

LEMMA TypeFault ==
  ASSUME TypeInv, NEW w \in Workers, DatabaseError(w) \/ Crash(w)
  PROVE  TypeInv'
<1>1. WorkersOK' /\ IdsKept
  BY TypeFacts, WorkerMoves, MoveLocals DEF DatabaseError, Crash, Labels
<1>2. UNCHANGED <<orderVars, refunds, ledgerVars, gatewayVars>>
  BY DEF DatabaseError, Crash
<1>3. faults' \in 0..(MaxFaults + 1)
  BY BoundAssumption DEF DatabaseError, Crash, TypeInv, TypeOK
<1>4. TypeOK'
  BY <1>1, <1>2, <1>3 DEF TypeInv, TypeOK, WorkersOK, orderVars, ledgerVars, gatewayVars
<1>5. GidsKept
  BY <1>2 DEF GidsKept
<1> QED
  BY <1>1, <1>2, <1>4, <1>5, QuietKeepsIds DEF TypeInv, orderVars

LEMMA TypeStutter == TypeInv /\ UNCHANGED vars => TypeInv'
BY DEF TypeInv, TypeOK, GatewayIds, vars

LEMMA TypeNext == TypeInv /\ [Next]_vars => TypeInv'
<1> SUFFICES ASSUME TypeInv, [Next]_vars PROVE TypeInv'
  OBVIOUS
<1>1. ASSUME NEW w \in Workers, Start(w) PROVE TypeInv'
  BY <1>1, TypeStart, TypeStartWebhook, TypeStartReconcile DEF Start
<1>2. ASSUME NEW w \in Workers, Continue(w) PROVE TypeInv'
  BY <1>2, TypeQuietInitiate, TypeSaves, TypeGatewayCall, TypeProject, TypeWebhook, TypeRetry
  DEF Continue, InitiateStep, ProjectStep, WebhookStep, RetryStep
<1>3. ASSUME NEW w \in Workers, Fault(w) PROVE TypeInv'
  BY <1>3, TypeFault, TypeGatewayCall DEF Fault
<1>4. ASSUME NEW k \in Keys, NEW n \in 1..Len(gw[k]), GatewaySettle(k, n) PROVE TypeInv'
  BY <1>4, TypeSettle
<1>5. CASE UNCHANGED vars
  BY <1>5, TypeStutter
<1> QED
  BY <1>1, <1>2, <1>3, <1>4, <1>5 DEF Next

\* The refund service keeps every variable in its type; in particular no path drives the
\* refundable bucket below zero, however initiations, webhooks, jobs and faults interleave.
THEOREM TypeCorrect == Spec => []TypeOK
<1>1. TypeInv => TypeOK
  BY DEF TypeInv
<1> QED
  BY <1>1, TypeInit, TypeNext, PTL DEF Spec

-----------------------------------------------------------------------------
(* Retries and gateway calls.                                              *)

(* The inductive invariant behind AttemptsAreCounted. It holds when at most one     *)
(* worker retries at a time, which the job lock and the admin are trusted with.     *)

Retriers == RetryJobs \cup RetryAdmins
OneRetrier == \A v, w \in Retriers : v = w

\* Worker w has something to do with the document of refund k, which then exists.
Engaged(w, k) ==
  /\ loc[w].key = k
  /\ \/ loc[w].own
     \/ pc[w] \in {"execute", "save", "ledger", "project", "projectSave", "markFailed",
                   "retryFail", "find", "applyState", "webhookRelease", "webhookLedger",
                   "retrySave"}

\* What the labels say of a worker's locals.
LocalsFit(w) ==
  /\ pc[w] \in {"seed", "reserve", "create"} => loc[w].op = "initiate" /\ ~loc[w].own
  /\ pc[w] = "execute" => loc[w].op \in {"initiate", "retry"}
  /\ pc[w] \in {"retryRead", "retrySave"} => loc[w].op = "retry"
  /\ loc[w].op = "retry" => w \in Retriers
  /\ pc[w] \in {"find", "applyState"} => loc[w].next \in RefundStates

\* The count a retry is about to save is one more than the stored one.
CountFresh(w) ==
  pc[w] = "retrySave" => /\ loc[w].count = refunds[loc[w].key].retryCount + 1
                         /\ loc[w].count <= MaxRetries

\* A retry that is about to call the gateway has been counted.
CallCounted(w) ==
  pc[w] = "execute" /\ loc[w].op = "retry"
    => Len(gw[loc[w].key]) <= refunds[loc[w].key].retryCount

\* The first call of a refund finds the gateway empty-handed, and no one else at work.
FirstCall(w) ==
  pc[w] = "execute" /\ loc[w].op = "initiate" /\ channel = "razorpay" =>
    LET k == loc[w].key IN
    /\ gw[k] = << >>
    /\ refunds[k].state = INITIATED
    /\ refunds[k].gid = 0
    /\ \A v \in Workers : v # w => ~Engaged(v, k)

\* Nothing refers to a refund that was never created, and a bank transfer never
\* reaches the gateway.
KnownRefunds ==
  /\ \A w \in Workers, k \in Keys : Engaged(w, k) => Exists(k)
  /\ \A m \in inbox : Exists(m.key)
  /\ \A k \in Keys : ~Exists(k) \/ channel # "razorpay" => gw[k] = << >>

AttemptsInv ==
  /\ \A w \in Workers : LocalsFit(w) /\ CountFresh(w) /\ CallCounted(w) /\ FirstCall(w)
  /\ KnownRefunds
  /\ AttemptsAreCounted

-----------------------------------------------------------------------------
(* Facts about single steps.                                               *)

\* Only worker w moves.
Alone(w) == \A v \in Workers : v # w => pc'[v] = pc[v] /\ loc'[v] = loc[v]

LEMMA MovesAlone ==
  ASSUME WorkersOK, NEW w \in Workers
  PROVE  /\ \A label : GoTo(w, label) => Alone(w) /\ pc'[w] = label /\ loc'[w] = loc[w]
         /\ \A label, l : GoWith(w, label, l) => Alone(w) /\ pc'[w] = label /\ loc'[w] = l
         /\ \A label, l : Begin(w, label, l)
                            => Alone(w) /\ pc[w] = "idle" /\ pc'[w] = label /\ loc'[w] = l
         /\ Finish(w) => Alone(w) /\ pc'[w] = "idle" /\ loc'[w] = NoLocals
         /\ Throw(w) => /\ Alone(w)
                        /\ \/ /\ loc[w].op = "initiate"
                              /\ pc'[w] = "release"
                              /\ loc'[w] = loc[w]
                           \/ /\ loc[w].op = "retry"
                              /\ pc'[w] = "retryFail"
                              /\ loc'[w] = loc[w]
                           \/ pc'[w] = "idle" /\ loc'[w] = NoLocals
<1>1. ASSUME NEW label, GoTo(w, label)
      PROVE  Alone(w) /\ pc'[w] = label /\ loc'[w] = loc[w]
  BY <1>1 DEF GoTo, WorkersOK, Alone
<1>2. ASSUME NEW label, NEW l, GoWith(w, label, l)
      PROVE  Alone(w) /\ pc'[w] = label /\ loc'[w] = l
  BY <1>2 DEF GoWith, WorkersOK, Alone
<1>3. ASSUME NEW label, NEW l, Begin(w, label, l)
      PROVE  Alone(w) /\ pc[w] = "idle" /\ pc'[w] = label /\ loc'[w] = l
  BY <1>3 DEF Begin, WorkersOK, Alone
<1>4. Finish(w) => Alone(w) /\ pc'[w] = "idle" /\ loc'[w] = NoLocals
  BY <1>2 DEF Finish
<1> QED
  BY <1>1, <1>2, <1>3, <1>4 DEF Throw

\* A worker without locals is engaged with nothing and fits every label but a few.
LEMMA NoLocalsFacts == ~NoLocals.own /\ NoLocals.op = "none" /\ NoLocals.next = "absent"
BY DEF NoLocals

\* Nobody is about to make the first gateway call for k.
NotFresh(k) ==
  \/ channel # "razorpay"
  \/ refunds[k].state # INITIATED
  \/ refunds[k].gid # 0
  \/ gw[k] # << >>

\* A step of w that does not touch the gateway, writes only the refund w is engaged with
\* and not its counter, and engages w only with a refund that exists and is not fresh.
Calm(w) ==
  /\ Alone(w)
  /\ channel' = channel
  /\ gw' = gw
  /\ inbox' \subseteq inbox
  /\ \A k \in Keys : \/ refunds'[k] = refunds[k]
                     \/ /\ Engaged(w, k)
                        /\ refunds'[k].state # "absent"
                        /\ refunds'[k].retryCount = refunds[k].retryCount
  /\ \A k \in Keys : Engaged(w, k)' => Engaged(w, k) \/ (Exists(k) /\ NotFresh(k))
  /\ pc'[w] # "execute"
  /\ LocalsFit(w)'
  /\ CountFresh(w)'

LEMMA CalmStep ==
  ASSUME TypeInv, AttemptsInv, NEW w \in Workers, Calm(w)
  PROVE  AttemptsInv'
<1>0. \A v \in Workers : loc[v].key \in Keys
  BY TypeFacts
<1>1. \A k \in Keys : Exists(k) => Exists(k)'
  BY DEF Calm, Exists
<1>2. \A v \in Workers, k \in Keys : v # w => (Engaged(v, k)' <=> Engaged(v, k))
  BY DEF Calm, Alone, Engaged
<1>3. \A k \in Keys : refunds'[k].retryCount = refunds[k].retryCount
  BY DEF Calm
<1>4. ASSUME NEW v \in Workers PROVE LocalsFit(v)'
  BY DEF AttemptsInv, Calm, Alone, LocalsFit
<1>5. ASSUME NEW v \in Workers PROVE CountFresh(v)'
  <2>1. CASE v = w
    BY <2>1 DEF Calm
  <2>2. CASE v # w
    BY <1>0, <1>3, <2>2 DEF AttemptsInv, Calm, Alone, CountFresh
  <2> QED
    BY <2>1, <2>2
<1>6. ASSUME NEW v \in Workers PROVE CallCounted(v)'
  BY <1>0, <1>3 DEF AttemptsInv, Calm, Alone, CallCounted
<1>7. ASSUME NEW v \in Workers PROVE FirstCall(v)'
  <2> SUFFICES ASSUME pc'[v] = "execute", loc'[v].op = "initiate", channel = "razorpay"
               PROVE  /\ gw[loc[v].key] = << >>
                      /\ refunds'[loc[v].key].state = INITIATED
                      /\ refunds'[loc[v].key].gid = 0
                      /\ \A u \in Workers : u # v => ~Engaged(u, loc[v].key)'
                      /\ loc'[v] = loc[v]
    BY DEF FirstCall, Calm
  <2>1. v # w /\ pc[v] = "execute" /\ loc'[v] = loc[v]
    BY DEF Calm, Alone
  <2>2. /\ gw[loc[v].key] = << >>
        /\ refunds[loc[v].key].state = INITIATED
        /\ refunds[loc[v].key].gid = 0
        /\ \A u \in Workers : u # v => ~Engaged(u, loc[v].key)
    BY <2>1 DEF AttemptsInv, FirstCall
  <2>3. refunds'[loc[v].key] = refunds[loc[v].key]
    BY <1>0, <2>1, <2>2 DEF Calm
  <2>4. ~Engaged(w, loc[v].key)'
    BY <1>0, <2>1, <2>2 DEF Calm, NotFresh
  <2> QED
    BY <1>0, <1>2, <2>1, <2>2, <2>3, <2>4
<1>8. KnownRefunds'
  BY <1>1, <1>2 DEF AttemptsInv, KnownRefunds, Calm, Exists, TypeInv, TypeOK
<1>9. AttemptsAreCounted'
  BY <1>3 DEF AttemptsInv, AttemptsAreCounted, Calm
<1> QED
  BY <1>4, <1>5, <1>6, <1>7, <1>8, <1>9 DEF AttemptsInv

\* The steps of a running worker that are calm.
LEMMA CalmSteps ==
  ASSUME TypeInv, AttemptsInv, NEW w \in Workers
  PROVE  /\ LazySeed(w) => Calm(w)
         /\ Reserve(w) => Calm(w)
         /\ SaveAccepted(w) => Calm(w)
         /\ RecordRefund(w) => Calm(w)
         /\ ReleaseAfterFailure(w) => Calm(w)
         /\ SaveFailed(w) => Calm(w)
         /\ ProjectRead(w) => Calm(w)
         /\ ProjectSave(w) => Calm(w)
         /\ FindRefund(w) => Calm(w)
         /\ ApplyState(w) => Calm(w)
         /\ WebhookRelease(w) => Calm(w)
         /\ RecordAdjustment(w) => Calm(w)
         /\ RetryRead(w) => Calm(w)
         /\ DatabaseError(w) => Calm(w)
         /\ Crash(w) => Calm(w)
<1>0. /\ WorkersOK /\ LocalsFit(w) /\ CountFresh(w)
      /\ loc[w] \in Locals /\ loc[w].key \in Keys
      /\ refunds \in [Keys -> RefundDoc]
      /\ "absent" \notin RefundStates /\ MaxRetries \in Nat
  BY TypeFacts, BoundAssumption DEF AttemptsInv
<1>1. ASSUME LazySeed(w) PROVE Calm(w)
  <2>1. Alone(w) /\ LocalsFit(w)' /\ CountFresh(w)' /\ pc'[w] # "execute"
    BY <1>1, <1>0, MovesAlone, NoLocalsFacts DEF LazySeed, LocalsFit, CountFresh
  <2>2. \A k \in Keys : \/ refunds'[k] = refunds[k]
                        \/ /\ Engaged(w, k)
                           /\ refunds'[k].state # "absent"
                           /\ refunds'[k].retryCount = refunds[k].retryCount
    BY <1>1, <1>0 DEF LazySeed, RefundDoc, Engaged
  <2>3. \A k \in Keys : Engaged(w, k)' => Engaged(w, k) \/ (Exists(k) /\ NotFresh(k))
    BY <1>1, <1>0, MovesAlone, NoLocalsFacts DEF LazySeed, Engaged, LocalsFit
  <2> QED
    BY <1>1, <2>1, <2>2, <2>3 DEF Calm, LazySeed, orderVars, gatewayVars
<1>2. ASSUME Reserve(w) PROVE Calm(w)
  <2>1. Alone(w) /\ LocalsFit(w)' /\ CountFresh(w)' /\ pc'[w] # "execute"
    BY <1>2, <1>0, MovesAlone, NoLocalsFacts DEF Reserve, LocalsFit, CountFresh
  <2>2. \A k \in Keys : \/ refunds'[k] = refunds[k]
                        \/ /\ Engaged(w, k)
                           /\ refunds'[k].state # "absent"
                           /\ refunds'[k].retryCount = refunds[k].retryCount
    BY <1>2, <1>0 DEF Reserve, RefundDoc, Engaged
  <2>3. \A k \in Keys : Engaged(w, k)' => Engaged(w, k) \/ (Exists(k) /\ NotFresh(k))
    BY <1>2, <1>0, MovesAlone, NoLocalsFacts DEF Reserve, Engaged, LocalsFit
  <2> QED
    BY <1>2, <2>1, <2>2, <2>3 DEF Calm, Reserve, orderVars, gatewayVars
<1>3. ASSUME SaveAccepted(w) PROVE Calm(w)
  <2> DEFINE l == [loc[w] EXCEPT !.dirty = FALSE]
  <2>0. l.op = loc[w].op /\ l.key = loc[w].key /\ l.own = loc[w].own
    BY <1>0 DEF Locals
  <2>a. Alone(w) /\ pc[w] = "save" /\ pc'[w] \in {"ledger", "project"} /\ loc'[w] = l
    BY <1>3, <1>0 DEF SaveAccepted, WorkersOK, Alone
  <2> HIDE DEF l
  <2>1. Alone(w) /\ LocalsFit(w)' /\ CountFresh(w)' /\ pc'[w] # "execute"
    BY <1>0, <2>0, <2>a DEF LocalsFit, CountFresh
  <2>2. \A k \in Keys : \/ refunds'[k] = refunds[k]
                        \/ /\ Engaged(w, k)
                           /\ refunds'[k].state # "absent"
                           /\ refunds'[k].retryCount = refunds[k].retryCount
    <3>1. Engaged(w, loc[w].key)
      BY <2>a DEF Engaged
    <3>2. \A k \in Keys : k # loc[w].key => refunds'[k] = refunds[k]
      BY <1>3, <1>0 DEF SaveAccepted
    <3>3. refunds[loc[w].key].state # "absent"
      BY <1>0, <3>1 DEF AttemptsInv, KnownRefunds, Exists
    <3>4. /\ refunds'[loc[w].key].state # "absent"
          /\ refunds'[loc[w].key].retryCount = refunds[loc[w].key].retryCount
      BY <1>3, <1>0, <3>3 DEF SaveAccepted, RefundDoc, PENDING
    <3> QED
      BY <3>1, <3>2, <3>4
  <2>3. \A k \in Keys : Engaged(w, k)' => Engaged(w, k) \/ (Exists(k) /\ NotFresh(k))
    BY <2>0, <2>a DEF Engaged
  <2> QED
    BY <1>3, <2>1, <2>2, <2>3 DEF Calm, SaveAccepted, orderVars, gatewayVars
<1>4. ASSUME RecordRefund(w) PROVE Calm(w)
  <2>1. Alone(w) /\ LocalsFit(w)' /\ CountFresh(w)' /\ pc'[w] # "execute"
    BY <1>4, <1>0, MovesAlone, NoLocalsFacts DEF RecordRefund, LocalsFit, CountFresh
  <2>2. \A k \in Keys : \/ refunds'[k] = refunds[k]
                        \/ /\ Engaged(w, k)
                           /\ refunds'[k].state # "absent"
                           /\ refunds'[k].retryCount = refunds[k].retryCount
    BY <1>4, <1>0 DEF RecordRefund, RefundDoc, Engaged
  <2>3. \A k \in Keys : Engaged(w, k)' => Engaged(w, k) \/ (Exists(k) /\ NotFresh(k))
    BY <1>4, <1>0, MovesAlone, NoLocalsFacts DEF RecordRefund, Engaged, LocalsFit
  <2> QED
    BY <1>4, <2>1, <2>2, <2>3 DEF Calm, RecordRefund, orderVars, gatewayVars
<1>5. ASSUME ReleaseAfterFailure(w) PROVE Calm(w)
  <2>1. Alone(w) /\ LocalsFit(w)' /\ CountFresh(w)' /\ pc'[w] # "execute"
    BY <1>5, <1>0, MovesAlone, NoLocalsFacts DEF ReleaseAfterFailure, LocalsFit, CountFresh
  <2>2. \A k \in Keys : \/ refunds'[k] = refunds[k]
                        \/ /\ Engaged(w, k)
                           /\ refunds'[k].state # "absent"
                           /\ refunds'[k].retryCount = refunds[k].retryCount
    BY <1>5, <1>0 DEF ReleaseAfterFailure, RefundDoc, Engaged
  <2>3. \A k \in Keys : Engaged(w, k)' => Engaged(w, k) \/ (Exists(k) /\ NotFresh(k))
    BY <1>5, <1>0, MovesAlone, NoLocalsFacts DEF ReleaseAfterFailure, Engaged, LocalsFit
  <2> QED
    BY <1>5, <2>1, <2>2, <2>3 DEF Calm, ReleaseAfterFailure, orderVars, gatewayVars
<1>6. ASSUME SaveFailed(w) PROVE Calm(w)
  <2>1. Alone(w) /\ LocalsFit(w)' /\ CountFresh(w)' /\ pc'[w] # "execute"
    BY <1>6, <1>0, MovesAlone, NoLocalsFacts DEF SaveFailed, LocalsFit, CountFresh, FAILED
  <2>2. \A k \in Keys : \/ refunds'[k] = refunds[k]
                        \/ /\ Engaged(w, k)
                           /\ refunds'[k].state # "absent"
                           /\ refunds'[k].retryCount = refunds[k].retryCount
    BY <1>6, <1>0 DEF SaveFailed, RefundDoc, Engaged, FAILED
  <2>3. \A k \in Keys : Engaged(w, k)' => Engaged(w, k) \/ (Exists(k) /\ NotFresh(k))
    BY <1>6, <1>0, MovesAlone, NoLocalsFacts DEF SaveFailed, Engaged, LocalsFit, FAILED
  <2> QED
    BY <1>6, <2>1, <2>2, <2>3 DEF Calm, SaveFailed, orderVars, gatewayVars
<1>7. ASSUME ProjectRead(w) PROVE Calm(w)
  <2>1. Alone(w) /\ LocalsFit(w)' /\ CountFresh(w)' /\ pc'[w] # "execute"
    BY <1>7, <1>0, MovesAlone, NoLocalsFacts DEF ProjectRead, LocalsFit, CountFresh, Locals
  <2>2. \A k \in Keys : \/ refunds'[k] = refunds[k]
                        \/ /\ Engaged(w, k)
                           /\ refunds'[k].state # "absent"
                           /\ refunds'[k].retryCount = refunds[k].retryCount
    BY <1>7, <1>0 DEF ProjectRead, RefundDoc, Engaged, Locals
  <2>3. \A k \in Keys : Engaged(w, k)' => Engaged(w, k) \/ (Exists(k) /\ NotFresh(k))
    BY <1>7, <1>0, MovesAlone, NoLocalsFacts DEF ProjectRead, Engaged, LocalsFit, Locals
  <2> QED
    BY <1>7, <2>1, <2>2, <2>3 DEF Calm, ProjectRead, orderVars, gatewayVars
<1>8. ASSUME ProjectSave(w) PROVE Calm(w)
  <2>1. Alone(w) /\ LocalsFit(w)' /\ CountFresh(w)' /\ pc'[w] # "execute"
    BY <1>8, <1>0, MovesAlone, NoLocalsFacts DEF ProjectSave, LocalsFit, CountFresh
  <2>2. \A k \in Keys : \/ refunds'[k] = refunds[k]
                        \/ /\ Engaged(w, k)
                           /\ refunds'[k].state # "absent"
                           /\ refunds'[k].retryCount = refunds[k].retryCount
    BY <1>8, <1>0 DEF ProjectSave, RefundDoc, Engaged
  <2>3. \A k \in Keys : Engaged(w, k)' => Engaged(w, k) \/ (Exists(k) /\ NotFresh(k))
    BY <1>8, <1>0, MovesAlone, NoLocalsFacts DEF ProjectSave, Engaged, LocalsFit
  <2> QED
    BY <1>8, <2>1, <2>2, <2>3 DEF Calm, ProjectSave, orderVars, gatewayVars
<1>9. ASSUME FindRefund(w) PROVE Calm(w)
  <2>1. Alone(w) /\ LocalsFit(w)' /\ CountFresh(w)' /\ pc'[w] # "execute"
    BY <1>9, <1>0, MovesAlone, NoLocalsFacts DEF FindRefund, LocalsFit, CountFresh, Locals
  <2>2. \A k \in Keys : \/ refunds'[k] = refunds[k]
                        \/ /\ Engaged(w, k)
                           /\ refunds'[k].state # "absent"
                           /\ refunds'[k].retryCount = refunds[k].retryCount
    BY <1>9, <1>0 DEF FindRefund, RefundDoc, Engaged, Locals
  <2>3. \A k \in Keys : Engaged(w, k)' => Engaged(w, k) \/ (Exists(k) /\ NotFresh(k))
    BY <1>9, <1>0, MovesAlone, NoLocalsFacts DEF FindRefund, Engaged, LocalsFit, Locals
  <2> QED
    BY <1>9, <2>1, <2>2, <2>3 DEF Calm, FindRefund, orderVars, gatewayVars
<1>10. ASSUME ApplyState(w) PROVE Calm(w)
  <2>1. Alone(w) /\ LocalsFit(w)' /\ CountFresh(w)' /\ pc'[w] # "execute"
    BY <1>10, <1>0, MovesAlone, NoLocalsFacts DEF ApplyState, LocalsFit, CountFresh
  <2>2. \A k \in Keys : \/ refunds'[k] = refunds[k]
                        \/ /\ Engaged(w, k)
                           /\ refunds'[k].state # "absent"
                           /\ refunds'[k].retryCount = refunds[k].retryCount
    BY <1>10, <1>0 DEF ApplyState, RefundDoc, Engaged, LocalsFit
  <2>3. \A k \in Keys : Engaged(w, k)' => Engaged(w, k) \/ (Exists(k) /\ NotFresh(k))
    BY <1>10, <1>0, MovesAlone, NoLocalsFacts DEF ApplyState, Engaged, LocalsFit
  <2> QED
    BY <1>10, <2>1, <2>2, <2>3 DEF Calm, ApplyState, orderVars, gatewayVars
<1>11. ASSUME WebhookRelease(w) PROVE Calm(w)
  <2>1. Alone(w) /\ LocalsFit(w)' /\ CountFresh(w)' /\ pc'[w] # "execute"
    BY <1>11, <1>0, MovesAlone, NoLocalsFacts DEF WebhookRelease, LocalsFit, CountFresh
  <2>2. \A k \in Keys : \/ refunds'[k] = refunds[k]
                        \/ /\ Engaged(w, k)
                           /\ refunds'[k].state # "absent"
                           /\ refunds'[k].retryCount = refunds[k].retryCount
    BY <1>11, <1>0 DEF WebhookRelease, RefundDoc, Engaged
  <2>3. \A k \in Keys : Engaged(w, k)' => Engaged(w, k) \/ (Exists(k) /\ NotFresh(k))
    BY <1>11, <1>0, MovesAlone, NoLocalsFacts DEF WebhookRelease, Engaged, LocalsFit
  <2> QED
    BY <1>11, <2>1, <2>2, <2>3 DEF Calm, WebhookRelease, orderVars, gatewayVars
<1>12. ASSUME RecordAdjustment(w) PROVE Calm(w)
  <2>1. Alone(w) /\ LocalsFit(w)' /\ CountFresh(w)' /\ pc'[w] # "execute"
    BY <1>12, <1>0, MovesAlone, NoLocalsFacts DEF RecordAdjustment, LocalsFit, CountFresh
  <2>2. \A k \in Keys : \/ refunds'[k] = refunds[k]
                        \/ /\ Engaged(w, k)
                           /\ refunds'[k].state # "absent"
                           /\ refunds'[k].retryCount = refunds[k].retryCount
    BY <1>12, <1>0 DEF RecordAdjustment, RefundDoc, Engaged
  <2>3. \A k \in Keys : Engaged(w, k)' => Engaged(w, k) \/ (Exists(k) /\ NotFresh(k))
    BY <1>12, <1>0, MovesAlone, NoLocalsFacts DEF RecordAdjustment, Engaged, LocalsFit
  <2> QED
    BY <1>12, <2>1, <2>2, <2>3 DEF Calm, RecordAdjustment, orderVars, gatewayVars
<1>13. ASSUME RetryRead(w) PROVE Calm(w)
  <2> DEFINE r == refunds[loc[w].key]
             x == [loc[w] EXCEPT !.op = "exhaust", !.before = FAILED, !.next = PERMANENTLY_FAILED]
             c == [loc[w] EXCEPT !.count = r.retryCount + 1]
  <2>0. r.retryCount \in Nat /\ loc[w].op = "retry"
    BY <1>13, <1>0 DEF RefundDoc, RetryRead, LocalsFit
  <2>x. /\ x.op = "exhaust" /\ x.key = loc[w].key /\ x.own = loc[w].own
        /\ x.next \in RefundStates
    BY <1>0 DEF Locals, RefundStates
  <2>c. c.op = "retry" /\ c.key = loc[w].key /\ c.own = loc[w].own /\ c.count = r.retryCount + 1
    BY <1>0, <2>0 DEF Locals
  <2> HIDE DEF x, c
  <2>1. /\ Alone(w) /\ pc[w] = "retryRead" /\ refunds' = refunds
        /\ \/ pc'[w] = "idle" /\ loc'[w] = NoLocals
           \/ r.state = FAILED /\ pc'[w] = "applyState" /\ loc'[w] = x
           \/ r.state = FAILED /\ r.retryCount < MaxRetries /\ pc'[w] = "retrySave" /\ loc'[w] = c
    BY <1>13, <1>0, MovesAlone DEF RetryRead, x, c
  <2>2. LocalsFit(w)'
    BY <1>0, <2>1, <2>x, <2>c, <2>0, NoLocalsFacts DEF LocalsFit
  <2>3. CountFresh(w)'
    BY <1>0, <2>0, <2>1, <2>c DEF CountFresh
  <2>4. \A k \in Keys : Engaged(w, k)' => Engaged(w, k) \/ (Exists(k) /\ NotFresh(k))
    BY <2>1, <2>x, <2>c, NoLocalsFacts
    DEF Engaged, Exists, NotFresh, FAILED, INITIATED
  <2> QED
    BY <1>13, <2>1, <2>2, <2>3, <2>4 DEF Calm, RetryRead, orderVars, gatewayVars
<1>14. ASSUME DatabaseError(w) PROVE Calm(w)
  <2>1. Alone(w) /\ LocalsFit(w)' /\ CountFresh(w)' /\ pc'[w] # "execute"
    BY <1>14, <1>0, MovesAlone, NoLocalsFacts DEF DatabaseError, LocalsFit, CountFresh
  <2>2. \A k \in Keys : \/ refunds'[k] = refunds[k]
                        \/ /\ Engaged(w, k)
                           /\ refunds'[k].state # "absent"
                           /\ refunds'[k].retryCount = refunds[k].retryCount
    BY <1>14, <1>0 DEF DatabaseError, RefundDoc, Engaged
  <2>3. \A k \in Keys : Engaged(w, k)' => Engaged(w, k) \/ (Exists(k) /\ NotFresh(k))
    BY <1>14, <1>0, MovesAlone, NoLocalsFacts DEF DatabaseError, Engaged, LocalsFit
  <2> QED
    BY <1>14, <2>1, <2>2, <2>3 DEF Calm, DatabaseError, orderVars, gatewayVars
<1>15. ASSUME Crash(w) PROVE Calm(w)
  <2>1. Alone(w) /\ LocalsFit(w)' /\ CountFresh(w)' /\ pc'[w] # "execute"
    BY <1>15, <1>0, MovesAlone, NoLocalsFacts DEF Crash, LocalsFit, CountFresh
  <2>2. \A k \in Keys : \/ refunds'[k] = refunds[k]
                        \/ /\ Engaged(w, k)
                           /\ refunds'[k].state # "absent"
                           /\ refunds'[k].retryCount = refunds[k].retryCount
    BY <1>15, <1>0 DEF Crash, RefundDoc, Engaged
  <2>3. \A k \in Keys : Engaged(w, k)' => Engaged(w, k) \/ (Exists(k) /\ NotFresh(k))
    BY <1>15, <1>0, MovesAlone, NoLocalsFacts DEF Crash, Engaged, LocalsFit
  <2> QED
    BY <1>15, <2>1, <2>2, <2>3 DEF Calm, Crash, orderVars, gatewayVars
<1> QED
  BY <1>1, <1>2, <1>3, <1>4, <1>5, <1>6, <1>7, <1>8, <1>9, <1>10, <1>11, <1>12, <1>13, <1>14, <1>15


\* The steps with which a worker begins are calm.
LEMMA CalmStarts ==
  ASSUME TypeInv, AttemptsInv, NEW w \in Workers
  PROVE  /\ \A k \in Keys : StartInitiate(w, k) \/ StartRetryJob(w, k) \/ StartRetryAdmin(w, k)
                              => Calm(w)
         /\ \A k \in Keys : StartMark(w, k) => Calm(w)
         /\ \A m \in inbox : StartWebhook(w, m) => Calm(w)
         /\ \A k \in Keys : StartReconcile(w, k) => Calm(w)
<1>0. /\ WorkersOK
      /\ refunds \in [Keys -> RefundDoc]
      /\ "absent" \notin RefundStates
      /\ \A k \in Keys : Len(gw[k]) \in Nat
      /\ NoLocals \in Locals
  BY TypeFacts, NoLocalsType DEF TypeInv, TypeOK
<1>1. ASSUME NEW k \in Keys, StartInitiate(w, k) \/ StartRetryJob(w, k) \/ StartRetryAdmin(w, k)
      PROVE  Calm(w)
  <2> DEFINE i == [NoLocals EXCEPT !.op = "initiate", !.key = k]
             r == [NoLocals EXCEPT !.op = "retry", !.key = k]
  <2>1. i.op = "initiate" /\ ~i.own /\ r.op = "retry" /\ ~r.own
    BY <1>0, NoLocalsFacts DEF Locals
  <2>2. Begin(w, "seed", i) \/ (w \in Retriers /\ Begin(w, "retryRead", r))
    BY <1>1 DEF StartInitiate, StartRetryJob, StartRetryAdmin, Retriers
  <2> HIDE DEF i, r
  <2>3. /\ Alone(w)
        /\ \/ pc'[w] = "seed" /\ loc'[w] = i
           \/ w \in Retriers /\ pc'[w] = "retryRead" /\ loc'[w] = r
    BY <1>0, <2>2, MovesAlone
  <2>4. LocalsFit(w)' /\ CountFresh(w)' /\ \A j \in Keys : ~Engaged(w, j)'
    BY <2>1, <2>3 DEF LocalsFit, CountFresh, Engaged
  <2>5. UNCHANGED <<channel, gw, inbox, refunds>>
    BY <1>1 DEF StartInitiate, StartRetryJob, StartRetryAdmin, orderVars, gatewayVars
  <2> QED
    BY <2>3, <2>4, <2>5 DEF Calm
<1>2. ASSUME NEW k \in Keys, StartMark(w, k) PROVE Calm(w)
  <2> DEFINE l == [NoLocals EXCEPT !.op = "mark", !.key = k, !.before = refunds[k].state,
                                   !.next = PROCESSED]
  <2>1. l.op = "mark" /\ l.key = k /\ ~l.own /\ l.next \in RefundStates
    BY <1>0, NoLocalsFacts DEF Locals, RefundStates
  <2>2. Begin(w, "applyState", l) /\ Exists(k) /\ channel = "bank_transfer"
    BY <1>2 DEF StartMark
  <2> HIDE DEF l
  <2>3. Alone(w) /\ pc'[w] = "applyState" /\ loc'[w] = l
    BY <1>0, <2>2, MovesAlone
  <2>4. LocalsFit(w)' /\ CountFresh(w)'
    BY <2>1, <2>3 DEF LocalsFit, CountFresh
  <2>5. \A j \in Keys : Engaged(w, j)' => Exists(j) /\ NotFresh(j)
    BY <2>1, <2>2, <2>3 DEF Engaged, NotFresh
  <2>6. UNCHANGED <<channel, gw, inbox, refunds>>
    BY <1>2 DEF StartMark, orderVars, gatewayVars
  <2> QED
    BY <2>3, <2>4, <2>5, <2>6 DEF Calm
<1>3. ASSUME NEW m \in inbox, StartWebhook(w, m) PROVE Calm(w)
  <2> DEFINE l == [NoLocals EXCEPT !.op = "webhook", !.key = m.key, !.gid = m.gid,
                                   !.next = StateOfGatewayStatus(m.status)]
  <2>0. m.key \in Keys /\ m.gid \in Nat /\ m.status \in GatewayStatuses
    BY DEF TypeInv, TypeOK
  <2>a. StateOfGatewayStatus(m.status) \in RefundStates
    BY <2>0, GatewayStatusType
  <2>1. l.op = "webhook" /\ l.key = m.key /\ ~l.own /\ l.next \in RefundStates
    BY <1>0, <2>0, <2>a, NoLocalsFacts DEF Locals
  <2>2. Begin(w, "find", l)
    BY <1>3 DEF StartWebhook
  <2> HIDE DEF l
  <2>3. Alone(w) /\ pc'[w] = "find" /\ loc'[w] = l
    BY <1>0, <2>2, MovesAlone
  <2>4. LocalsFit(w)' /\ CountFresh(w)'
    BY <2>1, <2>3 DEF LocalsFit, CountFresh
  <2>5. Exists(m.key) /\ NotFresh(m.key)
    BY <1>0, <2>0 DEF AttemptsInv, KnownRefunds, TypeInv, GatewayIds, NotFresh
  <2>6. \A j \in Keys : Engaged(w, j)' => Exists(j) /\ NotFresh(j)
    BY <2>1, <2>3, <2>5 DEF Engaged
  <2>7. UNCHANGED <<channel, gw, refunds>> /\ inbox' \subseteq inbox
    BY <1>3 DEF StartWebhook, orderVars
  <2> QED
    BY <2>3, <2>4, <2>6, <2>7 DEF Calm
<1>4. ASSUME NEW k \in Keys, StartReconcile(w, k) PROVE Calm(w)
  <2> DEFINE s == gw[k][refunds[k].gid]
             l == [NoLocals EXCEPT !.op = "webhook", !.key = k, !.gid = refunds[k].gid,
                                   !.next = StateOfGatewayStatus(s)]
  <2>0. refunds[k].gid \in 1..Len(gw[k])
    BY <1>0, <1>4 DEF TypeInv, GatewayIds, StartReconcile, RefundDoc
  <2>a. s \in GatewayStatuses
    BY <2>0 DEF TypeInv, TypeOK
  <2>b. StateOfGatewayStatus(s) \in RefundStates
    BY <2>a, GatewayStatusType
  <2>2. Begin(w, "find", l)
    BY <1>4 DEF StartReconcile
  <2> HIDE DEF s
  <2>1. l.op = "webhook" /\ l.key = k /\ ~l.own /\ l.next \in RefundStates
    BY <1>0, <2>b, NoLocalsFacts DEF Locals
  <2> HIDE DEF l
  <2>3. Alone(w) /\ pc'[w] = "find" /\ loc'[w] = l
    BY <1>0, <2>2, MovesAlone
  <2>4. LocalsFit(w)' /\ CountFresh(w)'
    BY <2>1, <2>3 DEF LocalsFit, CountFresh
  <2>5. Exists(k) /\ NotFresh(k)
    BY <1>0, <1>4, <2>0 DEF StartReconcile, NotFresh, Exists, INITIATED, PENDING
  <2>6. \A j \in Keys : Engaged(w, j)' => Exists(j) /\ NotFresh(j)
    BY <2>1, <2>3, <2>5 DEF Engaged
  <2>7. UNCHANGED <<channel, gw, inbox, refunds>>
    BY <1>4 DEF StartReconcile, orderVars, gatewayVars
  <2> QED
    BY <2>3, <2>4, <2>6, <2>7 DEF Calm
<1> QED
  BY <1>1, <1>2, <1>3, <1>4

-----------------------------------------------------------------------------
(* The steps that are not calm: a refund is created, the gateway is called or       *)
(* settles, a retry is counted.                                                     *)

LEMMA CreateKeepsAttempts ==
  ASSUME TypeInv, AttemptsInv, NEW w \in Workers, CreateRefund(w)
  PROVE  AttemptsInv'
<1> DEFINE k == loc[w].key
           l == [loc[w] EXCEPT !.own = TRUE]
           d == [Absent EXCEPT !.state = INITIATED]
<1>0. /\ WorkersOK /\ LocalsFit(w) /\ CountFresh(w)
      /\ k \in Keys /\ loc[w] \in Locals
      /\ refunds \in [Keys -> RefundDoc]
      /\ \A v \in Workers : loc[v].key \in Keys
  BY TypeFacts DEF AttemptsInv
<1>1. CASE DuplicateKeyError(k) /\ Throw(w) /\ UNCHANGED refunds
  <2>1. loc[w].op = "initiate" /\ ~loc[w].own
    BY <1>0 DEF CreateRefund, LocalsFit
  <2>2. Alone(w) /\ \/ pc'[w] = "release" /\ loc'[w] = loc[w]
                    \/ pc'[w] = "idle" /\ loc'[w] = NoLocals
    BY <1>0, <1>1, <2>1, MovesAlone
  <2>3. LocalsFit(w)' /\ CountFresh(w)' /\ \A j \in Keys : ~Engaged(w, j)'
    BY <1>0, <2>1, <2>2, NoLocalsFacts DEF LocalsFit, CountFresh, Engaged
  <2>4. Calm(w)
    BY <1>1, <2>2, <2>3 DEF Calm, CreateRefund, orderVars, gatewayVars
  <2> QED
    BY <2>4, CalmStep
<1>2. CASE /\ ~DuplicateKeyError(k)
           /\ refunds' = [refunds EXCEPT ![k] = d]
           /\ GoWith(w, "execute", l)
  <2>1. l.op = "initiate" /\ l.key = k
    BY <1>0 DEF Locals, CreateRefund, LocalsFit
  <2>2. /\ d.state = INITIATED /\ d.gid = 0 /\ d.retryCount = 0
        /\ INITIATED # "absent"
    BY DEF Absent, INITIATED
  <2>3. ~Exists(k)
    BY <1>2 DEF DuplicateKeyError
  <2> HIDE DEF k, l, d
  <2>4. Alone(w) /\ pc'[w] = "execute" /\ loc'[w] = l
    BY <1>0, <1>2, MovesAlone
  <2>5. refunds'[k] = d /\ \A j \in Keys : j # k => refunds'[j] = refunds[j]
    BY <1>0, <1>2
  <2>6. channel' = channel /\ gw' = gw /\ inbox' = inbox
    BY DEF CreateRefund, orderVars, gatewayVars
  <2>7. /\ \A v \in Workers : ~Engaged(v, k)
        /\ gw[k] = << >>
    BY <1>0, <2>3 DEF AttemptsInv, KnownRefunds
  <2>8. \A v \in Workers, j \in Keys : v # w => (Engaged(v, j)' <=> Engaged(v, j))
    BY <2>4 DEF Alone, Engaged
  <2>9. \A j \in Keys : Engaged(w, j)' <=> j = k
    BY <2>1, <2>4 DEF Engaged
  <2>10. ASSUME NEW v \in Workers
         PROVE  LocalsFit(v)' /\ CountFresh(v)' /\ CallCounted(v)' /\ FirstCall(v)'
    <3>1. CASE v = w
      <4>1. LocalsFit(v)' /\ CountFresh(v)' /\ CallCounted(v)'
        BY <2>1, <2>4, <3>1 DEF LocalsFit, CountFresh, CallCounted
      <4>2. \A u \in Workers : \A j \in Keys : u # v /\ j = k => ~Engaged(u, j)'
        BY <2>7, <2>8, <3>1
      <4>3. loc'[v].key = k /\ k \in Keys
        BY <1>0, <2>1, <2>4, <3>1
      <4>4. FirstCall(v)'
        BY <2>2, <2>5, <2>6, <2>7, <4>2, <4>3 DEF FirstCall
      <4> QED
        BY <4>1, <4>4
    <3>2. CASE v # w
      <4>1. pc'[v] = pc[v] /\ loc'[v] = loc[v]
        BY <2>4, <3>2 DEF Alone
      <4>2. pc[v] \in {"execute", "retrySave"} => loc[v].key # k
        BY <2>7 DEF Engaged
      <4>3. LocalsFit(v)' /\ CountFresh(v)' /\ CallCounted(v)'
        BY <1>0, <2>5, <2>6, <4>1, <4>2
        DEF AttemptsInv, LocalsFit, CountFresh, CallCounted
      <4>4. FirstCall(v)'
        BY <1>0, <2>5, <2>6, <2>8, <2>9, <4>1, <4>2 DEF AttemptsInv, FirstCall
      <4> QED
        BY <4>3, <4>4
    <3> QED
      BY <3>1, <3>2
  <2>11. KnownRefunds'
    BY <1>0, <2>2, <2>5, <2>6, <2>8, <2>9 DEF AttemptsInv, KnownRefunds, Exists, TypeInv, TypeOK
  <2>12. AttemptsAreCounted'
    BY <1>0, <2>2, <2>5, <2>6, <2>7, BoundAssumption DEF AttemptsInv, AttemptsAreCounted
  <2> QED
    BY <2>10, <2>11, <2>12 DEF AttemptsInv
<1> QED
  BY <1>1, <1>2 DEF CreateRefund

LEMMA CallKeepsAttempts ==
  ASSUME OneRetrier, TypeInv, AttemptsInv, NEW w \in Workers,
         ExecuteStrategy(w) \/ AnswerLost(w)
  PROVE  AttemptsInv'
<1> DEFINE k == loc[w].key
           u == [loc[w] EXCEPT !.gid = Len(gw[k]) + 1, !.dirty = TRUE]
           b == [loc[w] EXCEPT !.gid = 1, !.dirty = TRUE]
<1>0. /\ WorkersOK /\ LocalsFit(w) /\ CountFresh(w) /\ CallCounted(w) /\ FirstCall(w)
      /\ k \in Keys /\ loc[w] \in Locals
      /\ refunds \in [Keys -> RefundDoc]
      /\ \A v \in Workers : loc[v].key \in Keys
      /\ \A j \in Keys : Len(gw[j]) \in Nat /\ refunds[j].retryCount \in Nat
  BY TypeFacts DEF AttemptsInv, TypeInv, TypeOK, RefundDoc
<1>1. /\ u.op = loc[w].op /\ u.key = k /\ u.own = loc[w].own
      /\ b.op = loc[w].op /\ b.key = k /\ b.own = loc[w].own
  BY <1>0 DEF Locals
<1>2. /\ pc[w] = "execute" /\ channel' = channel /\ refunds' = refunds
      /\ loc[w].op \in {"initiate", "retry"}
  BY <1>0 DEF ExecuteStrategy, AnswerLost, orderVars, LocalsFit
<1>3. \/ UNCHANGED gatewayVars /\ (Throw(w) \/ GoWith(w, "save", b))
      \/ channel = "razorpay" /\ GatewayAccept(k) /\ (Throw(w) \/ GoWith(w, "save", u))
  BY DEF ExecuteStrategy, AnswerLost
<1> HIDE DEF u, b
<1>4. /\ Alone(w)
      /\ pc'[w] \in {"save", "release", "retryFail", "idle"}
      /\ \/ loc'[w] = NoLocals
         \/ loc'[w].op = loc[w].op /\ loc'[w].key = k /\ loc'[w].own = loc[w].own
      /\ pc'[w] # "idle" => loc'[w] # NoLocals \/ loc'[w].key = k
      /\ pc'[w] \in {"save", "retryFail"} => loc'[w].key = k
  BY <1>0, <1>1, <1>3, MovesAlone
<1>5. Engaged(w, k) /\ \A j \in Keys : Engaged(w, j) => j = k
  BY <1>2 DEF Engaged
<1>6. \A j \in Keys : Engaged(w, j)' => j = k
  BY <1>4, NoLocalsFacts DEF Engaged
<1>7. LocalsFit(w)' /\ CountFresh(w)' /\ CallCounted(w)' /\ FirstCall(w)'
  BY <1>0, <1>2, <1>4, NoLocalsFacts DEF LocalsFit, CountFresh, CallCounted, FirstCall
<1>8. CASE UNCHANGED gatewayVars
  <2>1. Calm(w)
    BY <1>2, <1>4, <1>5, <1>6, <1>7, <1>8 DEF Calm, gatewayVars
  <2> QED
    BY <2>1, CalmStep
<1>9. CASE channel = "razorpay" /\ GatewayAccept(k)
  <2>1. /\ Len(gw'[k]) = Len(gw[k]) + 1
        /\ \A j \in Keys : j # k => gw'[j] = gw[j]
        /\ \A m \in inbox' : m \in inbox \/ m.key = k
    <3>1. \A j \in Keys : j # k => gw'[j] = gw[j]
      BY <1>9 DEF GatewayAccept, TypeInv, TypeOK
    <3> QED
      BY <1>0, <1>9, <3>1, GatewayAcceptType DEF TypeInv
  <2> HIDE DEF k
  <2>2. \A v \in Workers, j \in Keys : v # w => (Engaged(v, j)' <=> Engaged(v, j))
    BY <1>4 DEF Alone, Engaged
  <2>3. ASSUME NEW v \in Workers, v # w
        PROVE  LocalsFit(v)' /\ CountFresh(v)' /\ CallCounted(v)' /\ FirstCall(v)'
    <3>0. /\ pc'[v] = pc[v] /\ loc'[v] = loc[v]
          /\ LocalsFit(v) /\ CountFresh(v) /\ CallCounted(v) /\ FirstCall(v)
      BY <1>4, <2>3 DEF Alone, AttemptsInv
    <3>1. LocalsFit(v)' /\ CountFresh(v)'
      BY <1>2, <3>0 DEF LocalsFit, CountFresh
    <3>2. pc[v] = "execute" /\ loc[v].op = "retry" => loc[v].key # k
      <4> SUFFICES ASSUME pc[v] = "execute", loc[v].op = "retry", loc[v].key = k PROVE FALSE
        OBVIOUS
      <4>1. Engaged(v, k) /\ v \in Retriers
        BY <3>0 DEF Engaged, LocalsFit
      <4>2. loc[w].op # "retry"
        BY <1>0, <2>3, <4>1 DEF LocalsFit, OneRetrier
      <4> QED
        BY <1>0, <1>2, <1>9, <2>3, <4>1, <4>2 DEF FirstCall, k
    <3>3. pc[v] = "execute" /\ loc[v].op = "initiate" => loc[v].key # k
      BY <1>5, <1>9, <2>3, <3>0 DEF FirstCall
    <3>4. CallCounted(v)'
      BY <1>0, <1>2, <2>1, <3>0, <3>2 DEF CallCounted
    <3>5. FirstCall(v)'
      BY <1>0, <1>2, <1>6, <2>1, <2>2, <3>0, <3>3 DEF FirstCall
    <3> QED
      BY <3>1, <3>4, <3>5
  <2>4. KnownRefunds'
    <3>1. Exists(k)
      BY <1>0, <1>5 DEF AttemptsInv, KnownRefunds
    <3>2. \A m \in inbox : m.key \in Keys
      BY DEF TypeInv, TypeOK
    <3> QED
      BY <1>0, <1>2, <1>6, <1>9, <2>1, <2>2, <3>1, <3>2 DEF AttemptsInv, KnownRefunds, Exists
  <2>5. AttemptsAreCounted'
    <3>1. Len(gw[k]) <= refunds[k].retryCount
      <4>1. CASE loc[w].op = "retry"
        BY <1>0, <1>2, <4>1 DEF CallCounted, k
      <4>2. CASE loc[w].op = "initiate"
        BY <1>0, <1>2, <1>9, <4>2 DEF FirstCall, k
      <4> QED
        BY <1>2, <4>1, <4>2
    <3>2. Len(gw'[k]) <= 1 + refunds[k].retryCount
      BY <1>0, <2>1, <3>1
    <3> QED
      BY <1>2, <2>1, <3>2 DEF AttemptsInv, AttemptsAreCounted
  <2> QED
    BY <1>7, <2>3, <2>4, <2>5 DEF AttemptsInv
<1> QED
  BY <1>3, <1>8, <1>9

LEMMA RetrySaveKeepsAttempts ==
  ASSUME OneRetrier, TypeInv, AttemptsInv, NEW w \in Workers, RetrySave(w)
  PROVE  AttemptsInv'
<1> DEFINE k == loc[w].key
<1>0. /\ WorkersOK /\ LocalsFit(w) /\ CountFresh(w)
      /\ k \in Keys
      /\ refunds \in [Keys -> RefundDoc]
      /\ \A v \in Workers : loc[v].key \in Keys
      /\ \A j \in Keys : Len(gw[j]) \in Nat /\ refunds[j].retryCount \in Nat
  BY TypeFacts DEF AttemptsInv, TypeInv, TypeOK, RefundDoc
<1>1. /\ pc[w] = "retrySave" /\ loc[w].op = "retry" /\ w \in Retriers
      /\ loc[w].count = refunds[k].retryCount + 1 /\ loc[w].count <= MaxRetries
  BY <1>0 DEF RetrySave, LocalsFit, CountFresh
<1>2. Alone(w) /\ pc'[w] = "execute" /\ loc'[w] = loc[w]
  BY <1>0, MovesAlone DEF RetrySave
<1>3. /\ refunds'[k].state = PENDING /\ refunds'[k].retryCount = refunds[k].retryCount + 1
      /\ \A j \in Keys : j # k => refunds'[j] = refunds[j]
  BY <1>0, <1>1 DEF RetrySave, RefundDoc
<1>4. channel' = channel /\ gw' = gw /\ inbox' = inbox
  BY DEF RetrySave, orderVars, gatewayVars
<1>5. \A v \in Workers : loc[v].op = "retry" => v = w
  BY <1>1 DEF AttemptsInv, LocalsFit, OneRetrier
<1>6. \A v \in Workers, j \in Keys : Engaged(v, j)' <=> Engaged(v, j)
  BY <1>1, <1>2 DEF Alone, Engaged
<1>7. Engaged(w, k)
  BY <1>1 DEF Engaged
<1> HIDE DEF k
<1>8. ASSUME NEW v \in Workers
      PROVE  LocalsFit(v)' /\ CountFresh(v)' /\ CallCounted(v)' /\ FirstCall(v)'
  <2>1. CASE v = w
    <3>1. Len(gw[k]) <= refunds'[k].retryCount
      BY <1>0, <1>3 DEF AttemptsInv, AttemptsAreCounted
    <3> QED
      BY <1>1, <1>2, <1>4, <2>1, <3>1
      DEF LocalsFit, CountFresh, CallCounted, FirstCall, k
  <2>2. CASE v # w
    <3>0. /\ pc'[v] = pc[v] /\ loc'[v] = loc[v] /\ loc[v].op # "retry"
          /\ LocalsFit(v) /\ CountFresh(v) /\ CallCounted(v) /\ FirstCall(v)
      BY <1>2, <1>5, <2>2 DEF Alone, AttemptsInv
    <3>1. pc[v] = "execute" /\ loc[v].op = "initiate" /\ channel = "razorpay"
            => loc[v].key # k
      BY <1>7, <2>2, <3>0 DEF FirstCall
    <3>2. LocalsFit(v)' /\ CountFresh(v)' /\ CallCounted(v)'
      BY <3>0 DEF LocalsFit, CountFresh, CallCounted
    <3>3. FirstCall(v)'
      BY <1>0, <1>3, <1>4, <1>6, <3>0, <3>1 DEF FirstCall
    <3> QED
      BY <3>2, <3>3
  <2> QED
    BY <2>1, <2>2
<1>9. KnownRefunds'
  <2>1. \A j \in Keys : Exists(j)' <=> Exists(j)
    BY <1>0, <1>3, <1>7 DEF AttemptsInv, KnownRefunds, Exists, PENDING
  <2>2. \A m \in inbox : m.key \in Keys
    BY DEF TypeInv, TypeOK
  <2> QED
    BY <1>4, <1>6, <2>1, <2>2 DEF AttemptsInv, KnownRefunds
<1>10. AttemptsAreCounted'
  <2>1. /\ Len(gw[k]) <= 1 + refunds'[k].retryCount
        /\ refunds'[k].retryCount <= MaxRetries
    BY <1>0, <1>1, <1>3 DEF AttemptsInv, AttemptsAreCounted
  <2> QED
    BY <1>3, <1>4, <2>1 DEF AttemptsInv, AttemptsAreCounted
<1> QED
  BY <1>8, <1>9, <1>10 DEF AttemptsInv

LEMMA SettleKeepsAttempts ==
  ASSUME TypeInv, AttemptsInv, NEW k \in Keys, NEW n \in 1..Len(gw[k]), GatewaySettle(k, n)
  PROVE  AttemptsInv'
<1>1. UNCHANGED <<channel, refunds, pc, loc>>
  BY DEF GatewaySettle, orderVars, workerVars
<1>2. /\ gw[k] # << >>
      /\ \A j \in Keys : j # k => gw'[j] = gw[j]
      /\ \A j \in Keys : Len(gw'[j]) = Len(gw[j])
      /\ \A m \in inbox' : m \in inbox \/ m.key = k
  <2>1. PICK s \in {"processed", "failed"} :
          /\ gw' = [gw EXCEPT ![k][n] = s]
          /\ inbox' = inbox \cup
               {m \in [key : {k}, gid : {n}, status : {s}] : m.status \in EventKinds}
    BY DEF GatewaySettle
  <2>2. gw \in [Keys -> Seq(GatewayStatuses)]
    BY DEF TypeInv, TypeOK
  <2>3. gw'[k] = [gw[k] EXCEPT ![n] = s] /\ \A j \in Keys : j # k => gw'[j] = gw[j]
    BY <2>1, <2>2
  <2>4. Len(gw'[k]) = Len(gw[k])
    BY <2>2, <2>3
  <2>5. \A m \in inbox' : m \in inbox \/ m.key = k
    BY <2>1
  <2>6. gw[k] # << >>
    BY <2>2
  <2> QED
    BY <2>3, <2>4, <2>5, <2>6
<1>3. \A v \in Workers : loc[v].key \in Keys
  BY TypeFacts
<1>4. Exists(k) /\ channel = "razorpay"
  BY <1>2 DEF AttemptsInv, KnownRefunds
<1>5. \A v \in Workers, j \in Keys : Engaged(v, j)' <=> Engaged(v, j)
  BY <1>1 DEF Engaged
<1>6. ASSUME NEW v \in Workers
      PROVE  LocalsFit(v)' /\ CountFresh(v)' /\ CallCounted(v)' /\ FirstCall(v)'
  <2>1. LocalsFit(v)' /\ CountFresh(v)' /\ CallCounted(v)'
    BY <1>1, <1>2, <1>3 DEF AttemptsInv, LocalsFit, CountFresh, CallCounted
  <2>2. FirstCall(v)'
    BY <1>1, <1>2, <1>3, <1>5 DEF AttemptsInv, FirstCall
  <2> QED
    BY <2>1, <2>2
<1>7. KnownRefunds'
  BY <1>1, <1>2, <1>4, <1>5 DEF AttemptsInv, KnownRefunds, Exists
<1>8. AttemptsAreCounted'
  BY <1>1, <1>2 DEF AttemptsInv, AttemptsAreCounted
<1> QED
  BY <1>6, <1>7, <1>8 DEF AttemptsInv

-----------------------------------------------------------------------------
LEMMA AttemptsInit == Init => AttemptsInv
<1> SUFFICES ASSUME Init PROVE AttemptsInv
  OBVIOUS
<1>1. /\ \A w \in Workers : pc[w] = "idle" /\ loc[w] = NoLocals
      /\ \A k \in Keys : gw[k] = << >> /\ refunds[k].retryCount = 0
      /\ inbox = {}
  BY DEF Init, Absent
<1>2. \A w \in Workers, k \in Keys : ~Engaged(w, k)
  BY <1>1, NoLocalsFacts DEF Engaged
<1>3. \A w \in Workers : LocalsFit(w) /\ CountFresh(w) /\ CallCounted(w) /\ FirstCall(w)
  BY <1>1, NoLocalsFacts DEF LocalsFit, CountFresh, CallCounted, FirstCall
<1>4. AttemptsAreCounted
  BY <1>1, BoundAssumption DEF AttemptsAreCounted
<1> QED
  BY <1>1, <1>2, <1>3, <1>4 DEF AttemptsInv, KnownRefunds

LEMMA AttemptsStutter ==
  ASSUME AttemptsInv, UNCHANGED vars
  PROVE  AttemptsInv'
BY DEF AttemptsInv, LocalsFit, CountFresh, CallCounted, FirstCall, KnownRefunds, Engaged,
       Exists, AttemptsAreCounted, vars

LEMMA AttemptsNext ==
  ASSUME OneRetrier, TypeInv, AttemptsInv, [Next]_vars
  PROVE  AttemptsInv'
<1>1. ASSUME NEW w \in Workers, Start(w) PROVE AttemptsInv'
  BY <1>1, CalmStarts, CalmStep DEF Start
<1>2. ASSUME NEW w \in Workers, Continue(w) PROVE AttemptsInv'
  BY <1>2, CalmSteps, CalmStep, CreateKeepsAttempts, CallKeepsAttempts, RetrySaveKeepsAttempts
  DEF Continue, InitiateStep, ProjectStep, WebhookStep, RetryStep
<1>3. ASSUME NEW w \in Workers, Fault(w) PROVE AttemptsInv'
  BY <1>3, CalmSteps, CalmStep, CallKeepsAttempts DEF Fault
<1>4. ASSUME NEW k \in Keys, NEW n \in 1..Len(gw[k]), GatewaySettle(k, n) PROVE AttemptsInv'
  BY <1>4, SettleKeepsAttempts
<1>5. CASE UNCHANGED vars
  BY <1>5, AttemptsStutter
<1> QED
  BY <1>1, <1>2, <1>3, <1>4, <1>5 DEF Next

\* When at most one worker retries at a time, every gateway call of a refund after its first
\* was counted in retryCount before it was made, and retryCount never passes maxRetries:
\* through crashes, lost answers, concurrent initiations and webhooks in any order.
THEOREM RetriesAreCounted == OneRetrier /\ Spec => []AttemptsAreCounted
<1>1. ASSUME OneRetrier PROVE TypeInv /\ AttemptsInv /\ [Next]_vars => (TypeInv /\ AttemptsInv)'
  BY <1>1, TypeNext, AttemptsNext
<1>2. Init => TypeInv /\ AttemptsInv
  BY TypeInit, AttemptsInit
<1>3. AttemptsInv => AttemptsAreCounted
  BY DEF AttemptsInv
<1>4. ASSUME OneRetrier PROVE Spec => []AttemptsAreCounted
  BY <1>1, <1>2, <1>3, <1>4, PTL DEF Spec
<1> QED
  BY <1>4

\* Without anyone who retries, no refund is ever counted as retried.
NeverRetried == \A k \in Keys : refunds[k].retryCount = 0

LEMMA NeverRetriedNext ==
  ASSUME Retriers = {}, TypeInv, AttemptsInv, NeverRetried, [Next]_vars
  PROVE  NeverRetried'
<1>1. ASSUME NEW w \in Workers, Calm(w) PROVE NeverRetried'
  BY <1>1 DEF Calm, NeverRetried
<1>2. ASSUME NEW w \in Workers, Start(w) PROVE NeverRetried'
  BY <1>1, <1>2, CalmStarts DEF Start
<1>3. ASSUME NEW w \in Workers, CreateRefund(w) PROVE NeverRetried'
  BY <1>3, TypeFacts DEF CreateRefund, NeverRetried, Absent
<1>4. ASSUME NEW w \in Workers, ExecuteStrategy(w) \/ AnswerLost(w) PROVE NeverRetried'
  BY <1>4 DEF ExecuteStrategy, AnswerLost, NeverRetried
<1>5. ASSUME NEW w \in Workers, RetrySave(w) PROVE NeverRetried'
  BY <1>5 DEF RetrySave, AttemptsInv, LocalsFit
<1>6. ASSUME NEW w \in Workers, Continue(w) PROVE NeverRetried'
  BY <1>1, <1>3, <1>4, <1>5, <1>6, CalmSteps
  DEF Continue, InitiateStep, ProjectStep, WebhookStep, RetryStep
<1>7. ASSUME NEW w \in Workers, Fault(w) PROVE NeverRetried'
  BY <1>1, <1>4, <1>7, CalmSteps DEF Fault
<1>8. ASSUME NEW k \in Keys, NEW n \in 1..Len(gw[k]), GatewaySettle(k, n) PROVE NeverRetried'
  BY <1>8 DEF GatewaySettle, NeverRetried
<1>9. CASE UNCHANGED vars
  BY <1>9 DEF vars, NeverRetried
<1> QED
  BY <1>2, <1>6, <1>7, <1>8, <1>9 DEF Next

\* Requests racing on one idempotency key pay once, for any number of keys and requests:
\* while nobody retries, the gateway accepts at most one refund per key.
THEOREM OneRefundPerKey == Retriers = {} /\ Spec => []OneGatewayRefundPerKey
<1> DEFINE Inv == TypeInv /\ AttemptsInv /\ NeverRetried
<1>1. ASSUME Retriers = {} PROVE Inv /\ [Next]_vars => Inv'
  BY <1>1, TypeNext, AttemptsNext, NeverRetriedNext DEF OneRetrier
<1>2. Init => Inv
  BY TypeInit, AttemptsInit DEF Init, NeverRetried, Absent
<1>3. Inv => OneGatewayRefundPerKey
  <2> SUFFICES ASSUME Inv, NEW k \in Keys PROVE Len(gw[k]) <= 1
    BY DEF OneGatewayRefundPerKey
  <2>1. Len(gw[k]) <= 1 + refunds[k].retryCount
    BY DEF AttemptsInv, AttemptsAreCounted
  <2>2. refunds[k].retryCount = 0
    BY DEF NeverRetried
  <2> QED
    BY <2>1, <2>2
<1>4. ASSUME Retriers = {} PROVE Spec => []OneGatewayRefundPerKey
  <2> HIDE DEF Inv
  <2> QED
    BY <1>1, <1>2, <1>3, <1>4, PTL DEF Spec
<1> QED
  BY <1>4

-----------------------------------------------------------------------------
(* The state machine.                                                      *)

WebhookStates == {PENDING, PROCESSED, FAILED}

\* The state s of the refund that a worker with locals l works at, by where the worker is.
Fits(label, l, s) ==
  /\ label \in {"seed", "reserve", "create"} => l.op = "initiate" /\ ~l.own
  /\ label \in {"execute", "save"} => \/ l.op = "initiate" /\ l.own /\ s = INITIATED
                                      \/ l.op = "retry" /\ s = PENDING
  /\ label = "ledger" => \/ l.op = "initiate" /\ l.own /\ s = PENDING
                         \/ l.op = "mark"
  /\ label \in {"project", "projectSave"} =>
       \/ l.op = "initiate" /\ l.own /\ s \in {INITIATED, PENDING}
       \/ l.op = "retry" /\ s = PENDING
       \/ l.op \in {"webhook", "mark", "exhaust"}
  /\ label = "release" => l.op = "initiate" /\ (l.own => s \in {INITIATED, PENDING})
  /\ label = "markFailed" => l.op = "initiate" /\ l.own /\ s \in {INITIATED, PENDING}
  /\ label = "retryFail" => l.op = "retry" /\ s = PENDING
  /\ label = "find" => /\ l.op = "webhook" /\ l.gid # 0 /\ l.next \in WebhookStates
                       /\ "created" \notin EventKinds /\ l.next = PENDING => s # FAILED
  /\ label = "applyState" =>
       /\ l.before = s /\ CanTransition(s, l.next)
       /\ \/ /\ l.op = "webhook" /\ s # INITIATED /\ l.next \in WebhookStates
             /\ "created" \notin EventKinds => l.next # PENDING
          \/ l.op = "mark" /\ l.next = PROCESSED
          \/ l.op = "exhaust" /\ s = FAILED
  /\ label = "webhookRelease" => l.op = "webhook" /\ s = FAILED
  /\ label = "webhookLedger" => l.op = "webhook"
  /\ label = "retryRead" => l.op = "retry"
  /\ label = "retrySave" => l.op = "retry" /\ s = FAILED

At(w) == refunds[loc[w].key].state

\* A refund has one worker that created it.
Owners ==
  \A w \in Workers : loc[w].own =>
    /\ Exists(loc[w].key)
    /\ \A v \in Workers : loc[v].own /\ loc[v].key = loc[w].key => v = w

\* A bank transfer never reaches the gateway, and a refund on its way there has no id yet.
Channelled ==
  /\ \A m \in inbox : m.status \in EventKinds
  /\ channel # "razorpay" => /\ inbox = {}
                             /\ \A k \in Keys : gw[k] = << >>
                             /\ \A w \in Workers : loc[w].op # "webhook"
  /\ channel = "razorpay" => \A k \in Keys : refunds[k].state = INITIATED => refunds[k].gid = 0

MachineInv ==
  /\ \A w \in Workers : Fits(pc[w], loc[w], At(w))
  /\ Owners
  /\ Channelled

\* A worker moves, and writes at most the refund it is on.
Works(w) ==
  /\ Alone(w)
  /\ \A k \in Keys : k # loc[w].key => refunds'[k] = refunds[k]
  /\ \/ refunds' = refunds
     \/ /\ pc[w] # "idle"
        /\ loc[w].op = "initiate" /\ Exists(loc[w].key) => loc[w].own
  /\ Fits(pc'[w], loc'[w], At(w)')
  /\ LegalStep(loc[w].key)
  /\ loc'[w].own => /\ loc'[w].key = loc[w].key
                    /\ loc[w].own \/ (~Exists(loc[w].key) /\ Exists(loc[w].key)')

\* Who shares a refund with a worker has no part in it.
LEMMA SharedFits ==
  ASSUME NEW label, NEW l, l.op = "initiate", ~l.own, NEW s, Fits(label, l, s), NEW t
  PROVE  Fits(label, l, t)
BY DEF Fits

LEMMA ExistsKept ==
  ASSUME NEW k \in Keys, LegalStep(k), Exists(k)
  PROVE  Exists(k)'
BY DEF LegalStep, Exists, CanTransition, ValidTransitions, INITIATED, PENDING, PROCESSED, FAILED,
       PERMANENTLY_FAILED

LEMMA WorksKeeps ==
  ASSUME TypeInv, Apart, MachineInv, NEW w \in Workers, Works(w)
  PROVE  /\ \A v \in Workers : Fits(pc'[v], loc'[v], At(v)')
         /\ Owners'
         /\ \A k \in Keys : LegalStep(k)
<1>0. \A v \in Workers : loc[v].key \in Keys
  BY TypeFacts
<1>1. ASSUME NEW v \in Workers, v # w PROVE Fits(pc'[v], loc'[v], At(v)')
  <2>1. pc'[v] = pc[v] /\ loc'[v] = loc[v] /\ loc[v].key \in Keys /\ Fits(pc[v], loc[v], At(v))
    BY <1>1, TypeFacts DEF Works, Alone, MachineInv
  <2>2. CASE pc[v] = "idle"
    BY <2>1, <2>2 DEF Fits
  <2>3. CASE refunds'[loc[v].key] = refunds[loc[v].key]
    BY <2>1, <2>3 DEF At
  <2>4. CASE pc[v] # "idle" /\ refunds'[loc[v].key] # refunds[loc[v].key]
    <3>1. loc[v].key = loc[w].key /\ pc[w] # "idle" /\ loc[v].op = "initiate" /\ loc[w].op = "initiate"
      BY <1>1, <2>1, <2>4 DEF Works, Apart
    <3>2. ~loc[v].own
      BY <1>1, <2>4, <3>1 DEF Works, MachineInv, Owners
    <3> QED
      BY <2>1, <3>1, <3>2, SharedFits
  <2> QED
    BY <2>2, <2>3, <2>4
<1>2. \A k \in Keys : LegalStep(k)
  BY DEF Works, LegalStep
<1>3. Owners'
  <2>1. ASSUME NEW v \in Workers, loc'[v].own
        PROVE  /\ loc'[v].key = loc[v].key /\ Exists(loc[v].key)'
               /\ loc[v].own \/ (v = w /\ ~Exists(loc[v].key))
    BY <1>0, <1>2, <2>1, ExistsKept DEF Works, Alone, MachineInv, Owners
  <2>2. ASSUME NEW v \in Workers, loc'[v].own, NEW u \in Workers, loc'[u].own, loc'[u].key = loc'[v].key
        PROVE  u = v
    BY <2>1, <2>2 DEF MachineInv, Owners
  <2> QED
    BY <2>1, <2>2 DEF Owners, Exists
<1> QED
  BY <1>1, <1>2, <1>3, TypeFacts DEF Works

LEMMA StatusFacts ==
  ASSUME NEW status \in GatewayStatuses
  PROVE  /\ StateOfGatewayStatus(status) \in WebhookStates
         /\ StateOfGatewayStatus(status) = PENDING => status = "created"
BY DEF GatewayStatuses, StateOfGatewayStatus, WebhookStates, PENDING, PROCESSED, FAILED

LEMMA StartsWork ==
  ASSUME TypeInv, MachineInv, NEW w \in Workers, Start(w)
  PROVE  Works(w)
<1> USE TypeFacts, MovesAlone
<1>1. ASSUME NEW label, NEW l, Begin(w, label, l), refunds' = refunds, ~l.own,
             Fits(label, l, refunds[l.key].state)
      PROVE  Works(w)
  BY <1>1 DEF Works, At, LegalStep
<1>2. NoLocals \in Locals
  BY NoLocalsType
<1>3. ASSUME NEW k \in Keys, StartInitiate(w, k) PROVE Works(w)
  <2>1. PICK l : l = [NoLocals EXCEPT !.op = "initiate", !.key = k]
    OBVIOUS
  <2>2. l.op = "initiate" /\ ~l.own /\ Begin(w, "seed", l) /\ refunds' = refunds
    BY <1>2, <1>3, <2>1, NoLocalsFacts DEF StartInitiate, Locals
  <2>3. Fits("seed", l, refunds[l.key].state)
    BY <2>2 DEF Fits
  <2> QED
    BY <1>1, <2>2, <2>3
<1>4. ASSUME NEW m \in inbox, StartWebhook(w, m) PROVE Works(w)
  <2>1. PICK l : l = [NoLocals EXCEPT !.op = "webhook", !.key = m.key, !.gid = m.gid,
                                      !.next = StateOfGatewayStatus(m.status)]
    OBVIOUS
  <2>2. /\ l.op = "webhook" /\ l.gid = m.gid /\ l.next = StateOfGatewayStatus(m.status) /\ ~l.own
        /\ Begin(w, "find", l) /\ refunds' = refunds
    BY <1>2, <1>4, <2>1, NoLocalsFacts DEF StartWebhook, Locals
  <2>3. m.status \in GatewayStatuses /\ m.status \in EventKinds /\ m.gid # 0
    BY DEF TypeInv, TypeOK, GatewayIds, MachineInv, Channelled
  <2>4. l.next \in WebhookStates /\ (l.next = PENDING => "created" \in EventKinds)
    BY <2>2, <2>3, StatusFacts
  <2>5. Fits("find", l, refunds[l.key].state)
    BY <2>2, <2>3, <2>4 DEF Fits
  <2> QED
    BY <1>1, <2>2, <2>5
<1>5. ASSUME NEW k \in Keys, StartReconcile(w, k) PROVE Works(w)
  <2>1. PICK l : l = [NoLocals EXCEPT !.op = "webhook", !.key = k, !.gid = refunds[k].gid,
                                      !.next = StateOfGatewayStatus(gw[k][refunds[k].gid])]
    OBVIOUS
  <2>2. /\ l.op = "webhook" /\ l.key = k /\ l.gid = refunds[k].gid /\ ~l.own
        /\ l.next = StateOfGatewayStatus(gw[k][refunds[k].gid])
        /\ Begin(w, "find", l) /\ refunds' = refunds
    BY <1>2, <1>5, <2>1, NoLocalsFacts DEF StartReconcile, Locals
  <2>3. refunds[k].gid \in 1..Len(gw[k]) /\ gw[k] \in Seq(GatewayStatuses)
    BY <1>5 DEF StartReconcile, TypeInv, TypeOK, GatewayIds, RefundDoc
  <2>4. gw[k][refunds[k].gid] \in GatewayStatuses
    BY <2>3
  <2>5. l.next \in WebhookStates
    BY <2>2, <2>4, StatusFacts
  <2>6. refunds[l.key].state # FAILED
    BY <1>5, <2>2 DEF StartReconcile, INITIATED, PENDING, FAILED
  <2>7. Fits("find", l, refunds[l.key].state)
    BY <2>2, <2>3, <2>5, <2>6 DEF Fits
  <2> QED
    BY <1>1, <2>2, <2>7
<1>6. ASSUME NEW k \in Keys, StartRetryJob(w, k) \/ StartRetryAdmin(w, k) PROVE Works(w)
  <2>1. PICK l : l = [NoLocals EXCEPT !.op = "retry", !.key = k]
    OBVIOUS
  <2>2. l.op = "retry" /\ ~l.own /\ Begin(w, "retryRead", l) /\ refunds' = refunds
    BY <1>2, <1>6, <2>1, NoLocalsFacts DEF StartRetryJob, StartRetryAdmin, Locals
  <2>3. Fits("retryRead", l, refunds[l.key].state)
    BY <2>2 DEF Fits
  <2> QED
    BY <1>1, <2>2, <2>3
<1>7. ASSUME NEW k \in Keys, StartMark(w, k) PROVE Works(w)
  <2>1. PICK l : l = [NoLocals EXCEPT !.op = "mark", !.key = k,
                                      !.before = refunds[k].state, !.next = PROCESSED]
    OBVIOUS
  <2>2. /\ l.op = "mark" /\ l.key = k /\ l.next = PROCESSED /\ l.before = refunds[k].state /\ ~l.own
        /\ Begin(w, "applyState", l) /\ refunds' = refunds
        /\ CanTransition(refunds[k].state, PROCESSED)
    BY <1>2, <1>7, <2>1, NoLocalsFacts DEF StartMark, Locals
  <2>3. Fits("applyState", l, refunds[l.key].state)
    BY <2>2 DEF Fits
  <2> QED
    BY <1>1, <2>2, <2>3
<1> QED
  BY <1>3, <1>4, <1>5, <1>6, <1>7 DEF Start

\* A worker that stops, and a worker that writes nothing and moves on with the same refund.
LEMMA QuietWorks ==
  ASSUME TypeInv, MachineInv, NEW w \in Workers, refunds' = refunds
  PROVE  /\ Finish(w) => Works(w)
         /\ \A label, l : /\ GoWith(w, label, l)
                          /\ Fits(label, l, At(w))
                          /\ l.key = loc[w].key /\ (l.own => loc[w].own)
                          => Works(w)
         /\ \A label : GoTo(w, label) /\ Fits(label, loc[w], At(w)) => Works(w)
<1> USE TypeFacts, MovesAlone
<1>1. Finish(w) => Works(w)
  BY NoLocalsFacts DEF Works, Fits, LegalStep
<1>2. ASSUME NEW label, NEW l, GoWith(w, label, l), Fits(label, l, At(w)), l.key = loc[w].key,
             l.own => loc[w].own
      PROVE  Works(w)
  BY <1>2 DEF Works, At, LegalStep
<1>3. ASSUME NEW label, GoTo(w, label), Fits(label, loc[w], At(w)) PROVE Works(w)
  BY <1>3 DEF Works, At, LegalStep
<1> QED
  BY <1>1, <1>2, <1>3

\* An error inside a service function is caught where the state is as the catch block expects.
LEMMA ThrowWorks ==
  ASSUME TypeInv, MachineInv, NEW w \in Workers, Throw(w), refunds' = refunds,
         pc[w] \in {"create", "execute", "save", "ledger", "project", "projectSave"}
  PROVE  Works(w)
<1>1. Fits(pc[w], loc[w], At(w)) /\ loc[w].key \in Keys
  BY TypeFacts DEF MachineInv
<1>2. CASE Finish(w)
  BY <1>2, QuietWorks
<1>3. CASE loc[w].op = "initiate" /\ GoTo(w, "release")
  <2>1. loc[w].own => At(w) \in {INITIATED, PENDING}
    BY <1>1, <1>3 DEF Fits
  <2>2. Fits("release", loc[w], At(w))
    BY <1>3, <2>1 DEF Fits
  <2> QED
    BY <1>3, <2>2, QuietWorks
<1>4. CASE loc[w].op = "retry" /\ GoTo(w, "retryFail")
  <2>1. At(w) = PENDING
    BY <1>1, <1>4 DEF Fits
  <2>2. Fits("retryFail", loc[w], At(w))
    BY <1>4, <2>1 DEF Fits
  <2> QED
    BY <1>4, <2>2, QuietWorks
<1> QED
  BY <1>2, <1>3, <1>4 DEF Throw

LEMMA InitiateWorks ==
  ASSUME TypeInv, MachineInv, NEW w \in Workers, InitiateStep(w)
  PROVE  Works(w)
<1>0. Fits(pc[w], loc[w], At(w)) /\ loc[w].key \in Keys /\ loc[w] \in Locals /\ refunds \in [Keys -> RefundDoc]
  BY TypeFacts DEF MachineInv
<1> USE TypeFacts, MovesAlone
<1>1. CASE LazySeed(w) \/ Reserve(w) \/ RecordRefund(w) \/ ReleaseAfterFailure(w)
  <2>1. CASE Finish(w)
    BY <1>1, <2>1, QuietWorks DEF LazySeed, Reserve, RecordRefund, ReleaseAfterFailure
  <2>2. PICK label : label = IF pc[w] = "seed" THEN "reserve" ELSE IF pc[w] = "reserve" THEN "create"
                             ELSE IF pc[w] = "ledger" THEN "project" ELSE "markFailed"
    OBVIOUS
  <2>3. CASE GoTo(w, label)
    <3>1. Fits(label, loc[w], At(w)) /\ refunds' = refunds
      BY <1>0, <1>1, <2>2, <2>3 DEF LazySeed, Reserve, RecordRefund, ReleaseAfterFailure, Fits
    <3> QED
      BY <2>3, <3>1, QuietWorks
  <2> QED
    BY <1>1, <2>1, <2>2, <2>3 DEF LazySeed, Reserve, RecordRefund, ReleaseAfterFailure
<1>2. CASE CreateRefund(w)
  <2>1. CASE DuplicateKeyError(loc[w].key)
    BY <1>2, <2>1, ThrowWorks DEF CreateRefund
  <2>2. CASE ~DuplicateKeyError(loc[w].key)
    <3>1. PICK l : l = [loc[w] EXCEPT !.own = TRUE]
      OBVIOUS
    <3>2. l.key = loc[w].key /\ l.own /\ l.op = loc[w].op /\ loc[w].op = "initiate"
      BY <1>0, <1>2, <3>1 DEF Locals, CreateRefund, Fits
    <3>a. INITIATED # "absent"
      BY DEF INITIATED
    <3>3. /\ refunds' = [refunds EXCEPT ![loc[w].key] = [Absent EXCEPT !.state = INITIATED]]
          /\ GoWith(w, "execute", l) /\ ~Exists(loc[w].key) /\ pc[w] = "create"
      BY <1>2, <2>2, <3>1 DEF CreateRefund, DuplicateKeyError
    <3>4. refunds'[loc[w].key].state = INITIATED
      BY <1>0, <3>3 DEF Absent
    <3>5. Fits("execute", l, refunds'[l.key].state)
      BY <3>2, <3>4 DEF Fits
    <3>6. /\ Alone(w) /\ pc'[w] = "execute" /\ loc'[w] = l
          /\ \A k \in Keys : k # loc[w].key => refunds'[k] = refunds[k]
      BY <1>0, <3>3
    <3>7. LegalStep(loc[w].key) /\ Exists(loc[w].key)'
      BY <3>a, <3>2, <3>3, <3>4, <3>6 DEF LegalStep, Exists
    <3> QED
      BY <1>0, <3>2, <3>3, <3>5, <3>6, <3>7 DEF Works, At
  <2> QED
    BY <2>1, <2>2
<1>3. CASE ExecuteStrategy(w)
  <2>1. CASE Throw(w)
    BY <1>3, <2>1, ThrowWorks DEF ExecuteStrategy
  <2>2. ASSUME NEW l, GoWith(w, "save", l), l.key = loc[w].key, l.op = loc[w].op, l.own = loc[w].own
        PROVE  Works(w)
    <3>1. Fits("save", l, At(w)) /\ refunds' = refunds /\ pc[w] = "execute"
      BY <1>0, <1>3, <2>2 DEF ExecuteStrategy, Fits
    <3> QED
      BY <2>2, <3>1 DEF Works, At, LegalStep
  <2>3. \A i : LET l == [loc[w] EXCEPT !.gid = i, !.dirty = TRUE]
               IN l.key = loc[w].key /\ l.op = loc[w].op /\ l.own = loc[w].own
    BY <1>0 DEF Locals
  <2> QED
    BY <1>3, <2>1, <2>2, <2>3 DEF ExecuteStrategy
<1>4. CASE SaveAccepted(w)
  <2>1. /\ Alone(w) /\ loc'[w].key = loc[w].key /\ loc'[w].op = loc[w].op /\ loc'[w].own = loc[w].own
        /\ pc[w] = "save"
    BY <1>0, <1>4 DEF SaveAccepted, Alone, WorkersOK, Locals
  <2>2. CASE /\ loc[w].op = "initiate" /\ channel = "razorpay"
             /\ refunds' = [refunds EXCEPT ![loc[w].key].gid = loc[w].gid, ![loc[w].key].state = PENDING]
             /\ pc' = [pc EXCEPT ![w] = "ledger"]
    <3>1. refunds'[loc[w].key].state = PENDING /\ pc'[w] = "ledger"
      BY <1>0, <2>2 DEF WorkersOK, RefundDoc
    <3>2. At(w) = INITIATED /\ loc[w].own
      BY <1>0, <2>1, <2>2 DEF Fits
    <3>3. CanTransition(INITIATED, PENDING)
      BY DEF CanTransition, ValidTransitions
    <3> QED
      BY <1>0, <2>1, <2>2, <3>1, <3>2, <3>3 DEF Works, Fits, At, LegalStep
  <2>3. CASE /\ loc[w].op = "retry" \/ channel = "bank_transfer"
             /\ refunds' = [refunds EXCEPT ![loc[w].key].gid = loc[w].gid]
             /\ pc' = [pc EXCEPT ![w] = "project"]
    <3>1. refunds'[loc[w].key].state = At(w) /\ pc'[w] = "project"
      BY <1>0, <2>3 DEF WorkersOK, RefundDoc, At
    <3> QED
      BY <1>0, <2>1, <2>3, <3>1 DEF Works, Fits, At, LegalStep
  <2> QED
    BY <1>4, <2>2, <2>3 DEF SaveAccepted
<1>5. CASE SaveFailed(w)
  <2>1. PICK g : refunds' = [refunds EXCEPT ![loc[w].key].state = FAILED,
                                            ![loc[w].key].nextRetryAt = TRUE, ![loc[w].key].gid = g]
    <3>1. PICK g : g = IF loc[w].dirty THEN loc[w].gid ELSE refunds[loc[w].key].gid
      OBVIOUS
    <3> QED
      BY <1>0, <1>5, <3>1 DEF SaveFailed, RefundDoc
  <2>a. refunds'[loc[w].key].state = FAILED
    BY <1>0, <2>1 DEF RefundDoc
  <2>b. At(w) \in {INITIATED, PENDING}
    BY <1>0, <1>5 DEF SaveFailed, Fits
  <2>2. refunds'[loc[w].key].state = FAILED /\ At(w) \in {INITIATED, PENDING}
    BY <2>a, <2>b
  <2>3. CanTransition(INITIATED, FAILED) /\ CanTransition(PENDING, FAILED)
    BY DEF CanTransition, ValidTransitions
  <2>4. LegalStep(loc[w].key)
    BY <2>2, <2>3 DEF LegalStep, At
  <2>5. Alone(w) /\ pc'[w] = "idle" /\ ~loc'[w].own /\ loc'[w].op = "none" /\ pc[w] # "idle"
    BY <1>5, NoLocalsFacts DEF SaveFailed
  <2>6. loc[w].op = "initiate" => loc[w].own
    BY <1>0, <1>5 DEF SaveFailed, Fits
  <2>7. \A k \in Keys : k # loc[w].key => refunds'[k] = refunds[k]
    BY <1>0, <2>1
  <2> QED
    BY <2>4, <2>5, <2>6, <2>7 DEF Works, Fits
<1> QED
  BY <1>1, <1>2, <1>3, <1>4, <1>5 DEF InitiateStep

LEMMA ProjectWorks ==
  ASSUME TypeInv, MachineInv, NEW w \in Workers, ProjectStep(w)
  PROVE  Works(w)
<1>0. Fits(pc[w], loc[w], At(w)) /\ loc[w].key \in Keys /\ loc[w] \in Locals
  BY TypeFacts DEF MachineInv
<1> USE TypeFacts, MovesAlone
<1>1. CASE Finish(w) /\ refunds' = refunds
  BY <1>1, QuietWorks
<1>2. CASE ProjectRead(w) /\ ShownEntries # view
  <2>1. PICK l : l = [loc[w] EXCEPT !.new = ShownEntries]
    OBVIOUS
  <2>2. l.key = loc[w].key /\ l.op = loc[w].op /\ l.own = loc[w].own /\ GoWith(w, "projectSave", l)
    BY <1>0, <1>2, <2>1 DEF Locals, ProjectRead
  <2>3. Fits("projectSave", l, At(w)) /\ refunds' = refunds /\ pc[w] = "project"
    BY <1>0, <1>2, <2>2 DEF ProjectRead, Fits
  <2> QED
    BY <2>2, <2>3 DEF Works, At, LegalStep
<1>3. CASE ProjectSave(w)
  BY <1>1, <1>3, ThrowWorks DEF ProjectSave
<1> QED
  BY <1>1, <1>2, <1>3 DEF ProjectStep, ProjectRead

LEMMA WebhookWorks ==
  ASSUME TypeInv, MachineInv, NEW w \in Workers, WebhookStep(w)
  PROVE  Works(w)
<1>0. Fits(pc[w], loc[w], At(w)) /\ loc[w].key \in Keys /\ loc[w] \in Locals /\ refunds \in [Keys -> RefundDoc]
  BY TypeFacts DEF MachineInv
<1> USE TypeFacts, MovesAlone
<1>1. CASE Finish(w) /\ refunds' = refunds
  BY <1>1, QuietWorks
<1>2. CASE FindRefund(w)
  <2>1. PICK l : l = [loc[w] EXCEPT !.before = refunds[loc[w].key].state]
    OBVIOUS
  <2>2. /\ l.key = loc[w].key /\ l.op = loc[w].op /\ l.next = loc[w].next /\ l.own = loc[w].own
        /\ l.before = At(w)
    BY <1>0, <2>1 DEF Locals, At
  <2>3. /\ refunds' = refunds /\ pc[w] = "find" /\ loc[w].op = "webhook"
        /\ loc[w].next \in WebhookStates /\ loc[w].gid # 0
        /\ "created" \notin EventKinds /\ loc[w].next = PENDING => At(w) # FAILED
    BY <1>0, <1>2 DEF FindRefund, Fits
  <2>4. CASE /\ GoWith(w, "applyState", l) /\ CanTransition(At(w), loc[w].next)
             /\ refunds[loc[w].key].gid = loc[w].gid
    <3>1. At(w) # INITIATED
      BY <1>0, <2>3, <2>4 DEF MachineInv, Channelled, At
    <3>2. loc[w].next = PENDING => At(w) = FAILED
      BY <2>4, <3>1 DEF CanTransition, ValidTransitions, INITIATED, PENDING, PROCESSED, FAILED,
                        PERMANENTLY_FAILED
    <3>3. Fits("applyState", l, At(w))
      BY <2>2, <2>3, <2>4, <3>1, <3>2 DEF Fits
    <3> QED
      BY <2>2, <2>3, <2>4, <3>3, QuietWorks
  <2> QED
    BY <1>1, <1>2, <2>1, <2>3, <2>4 DEF FindRefund, ShouldUpdateFromWebhook, At
<1>3. CASE ApplyState(w)
  <2>1. /\ refunds' = [refunds EXCEPT ![loc[w].key].state = loc[w].next]
        /\ pc[w] = "applyState"
        /\ \/ GoTo(w, "ledger") /\ loc[w].op = "mark"
           \/ /\ GoTo(w, "webhookRelease") /\ loc[w].op # "mark"
              /\ loc[w].next = FAILED /\ loc[w].before = PENDING
           \/ GoTo(w, "project") /\ loc[w].op # "mark"
    BY <1>3 DEF ApplyState
  <2>2. /\ CanTransition(At(w), loc[w].next) /\ loc[w].op \in {"webhook", "mark", "exhaust"}
        /\ loc[w].before = At(w) /\ (loc[w].op = "exhaust" => At(w) = FAILED)
    BY <1>0, <2>1 DEF Fits
  <2>3. refunds'[loc[w].key].state = loc[w].next
    BY <1>0, <2>1 DEF RefundDoc
  <2>4. LegalStep(loc[w].key)
    BY <2>2, <2>3 DEF LegalStep, At
  <2>5. /\ Alone(w) /\ pc[w] # "idle" /\ loc'[w] = loc[w]
        /\ \A k \in Keys : k # loc[w].key => refunds'[k] = refunds[k]
    BY <1>0, <2>1
  <2>6. pc'[w] = "webhookRelease" => loc[w].op = "webhook" /\ At(w)' = FAILED
    BY <2>1, <2>2, <2>3, <2>5 DEF At, PENDING, FAILED
  <2>7. Fits(pc'[w], loc'[w], At(w)')
    BY <2>1, <2>2, <2>5, <2>6 DEF Fits
  <2> QED
    BY <2>1, <2>2, <2>4, <2>5, <2>7 DEF Works
<1>4. CASE WebhookRelease(w) \/ RecordAdjustment(w)
  <2>1. \E label \in {"webhookLedger", "project"} : GoTo(w, label) /\ Fits(label, loc[w], At(w))
    BY <1>0, <1>4 DEF WebhookRelease, RecordAdjustment, Fits
  <2> QED
    BY <1>4, <2>1, QuietWorks DEF WebhookRelease, RecordAdjustment
<1> QED
  BY <1>2, <1>3, <1>4 DEF WebhookStep

LEMMA RetryWorks ==
  ASSUME TypeInv, MachineInv, NEW w \in Workers, RetryStep(w)
  PROVE  Works(w)
<1>0. Fits(pc[w], loc[w], At(w)) /\ loc[w].key \in Keys /\ loc[w] \in Locals /\ refunds \in [Keys -> RefundDoc]
  BY TypeFacts DEF MachineInv
<1> USE TypeFacts, MovesAlone
<1>1. CASE RetryRead(w)
  <2>1. refunds' = refunds /\ pc[w] = "retryRead" /\ loc[w].op = "retry"
    BY <1>0, <1>1 DEF RetryRead, Fits
  <2>2. CASE Finish(w)
    BY <2>1, <2>2, QuietWorks
  <2>3. PICK l : l = [loc[w] EXCEPT !.op = "exhaust", !.before = FAILED, !.next = PERMANENTLY_FAILED]
    OBVIOUS
  <2>4. CASE At(w) = FAILED /\ GoWith(w, "applyState", l)
    <3>1. /\ l.op = "exhaust" /\ l.key = loc[w].key /\ l.next = PERMANENTLY_FAILED /\ l.before = FAILED
          /\ l.own = loc[w].own
      BY <1>0, <2>3 DEF Locals
    <3>2. CanTransition(FAILED, PERMANENTLY_FAILED)
      BY DEF CanTransition, ValidTransitions
    <3>3. Fits("applyState", l, At(w))
      BY <2>4, <3>1, <3>2 DEF Fits
    <3> QED
      BY <2>1, <2>4, <3>1, <3>3, QuietWorks
  <2>5. PICK m : m = [loc[w] EXCEPT !.count = refunds[loc[w].key].retryCount + 1]
    OBVIOUS
  <2>6. CASE At(w) = FAILED /\ GoWith(w, "retrySave", m)
    <3>1. m.op = "retry" /\ m.key = loc[w].key /\ m.own = loc[w].own
      BY <1>0, <2>1, <2>5 DEF Locals
    <3>2. Fits("retrySave", m, At(w))
      BY <2>6, <3>1 DEF Fits
    <3> QED
      BY <2>1, <2>6, <3>1, <3>2, QuietWorks
  <2> QED
    BY <1>1, <2>2, <2>3, <2>4, <2>5, <2>6 DEF RetryRead, At
<1>2. CASE RetrySave(w)
  <2>1. /\ refunds' = [refunds EXCEPT ![loc[w].key].state = PENDING, ![loc[w].key].retryCount = loc[w].count]
        /\ pc[w] = "retrySave" /\ GoTo(w, "execute")
    BY <1>2 DEF RetrySave
  <2>2. At(w) = FAILED /\ loc[w].op = "retry"
    BY <1>0, <2>1 DEF Fits
  <2>3. refunds'[loc[w].key].state = PENDING
    BY <1>0, <2>1 DEF RefundDoc
  <2>4. CanTransition(FAILED, PENDING)
    BY DEF CanTransition, ValidTransitions
  <2>5. Fits("execute", loc[w], refunds'[loc[w].key].state)
    BY <2>2, <2>3 DEF Fits
  <2> QED
    BY <1>0, <2>1, <2>2, <2>3, <2>4, <2>5 DEF Works, At, LegalStep
<1> QED
  BY <1>1, <1>2 DEF RetryStep

LEMMA FaultWorks ==
  ASSUME TypeInv, MachineInv, NEW w \in Workers, Fault(w)
  PROVE  Works(w)
<1>0. Fits(pc[w], loc[w], At(w)) /\ loc[w].key \in Keys /\ refunds' = refunds
  BY TypeFacts DEF MachineInv, Fault, DatabaseError, AnswerLost, Crash
<1> USE TypeFacts, MovesAlone
<1>1. CASE Finish(w)
  BY <1>0, <1>1, QuietWorks
<1>2. CASE Throw(w) /\ pc[w] \in {"create", "execute", "save", "ledger", "project", "projectSave"}
  BY <1>0, <1>2, ThrowWorks
<1>3. CASE pc[w] = "release" /\ loc[w].own /\ GoTo(w, "markFailed")
  BY <1>0, <1>3 DEF Works, Fits, At, LegalStep
<1> QED
  BY <1>1, <1>2, <1>3 DEF Fault, DatabaseError, AnswerLost, Crash

\* What a step of w does for Channelled.
Ships(w) ==
  /\ channel' = channel
  /\ \A m \in inbox' : m.status \in EventKinds
  /\ channel # "razorpay" => inbox' = inbox /\ gw' = gw
  /\ loc'[w].op = "webhook" => loc[w].op = "webhook" \/ channel = "razorpay"
  /\ Alone(w)
  /\ \A k \in Keys : \/ refunds'[k] = refunds[k]
                     \/ channel = "razorpay" /\ refunds'[k].state = INITIATED => refunds'[k].gid = 0

LEMMA ShipsKeeps ==
  ASSUME TypeInv, MachineInv, NEW w \in Workers, Ships(w)
  PROVE  Channelled'
BY DEF MachineInv, Channelled, Ships, Alone

\* No step of a worker but a gateway call touches the gateway.
LEMMA QuietShips ==
  ASSUME TypeInv, MachineInv, NEW w \in Workers, channel' = channel, inbox' \subseteq inbox, gw' = gw,
         Alone(w), loc'[w].op \in {loc[w].op, "none", "initiate", "retry", "exhaust", "mark"},
         \A k \in Keys : \/ refunds'[k] = refunds[k]
                         \/ channel = "razorpay" /\ refunds'[k].state = INITIATED => refunds'[k].gid = 0
  PROVE  Ships(w)
BY DEF MachineInv, Channelled, Ships

\* What a worker that starts has to do.
LEMMA StartOps ==
  ASSUME TypeInv, MachineInv, NEW w \in Workers, Start(w)
  PROVE  /\ Alone(w) /\ pc[w] = "idle" /\ pc'[w] \in {"seed", "find", "retryRead", "applyState"}
         /\ \/ loc'[w].op \in {"initiate", "mark"}
            \/ loc'[w].op = "webhook" /\ channel = "razorpay"
            \/ loc'[w].op = "retry" /\ w \in Retriers
<1>0. NoLocals \in Locals
  BY NoLocalsType
<1> USE TypeFacts, MovesAlone
<1>1. ASSUME NEW k \in Keys, StartInitiate(w, k)
      PROVE  Alone(w) /\ pc[w] = "idle" /\ pc'[w] = "seed" /\ loc'[w].op = "initiate"
  <2>1. PICK l : l = [NoLocals EXCEPT !.op = "initiate", !.key = k]
    OBVIOUS
  <2>2. l.op = "initiate" /\ Begin(w, "seed", l)
    BY <1>0, <1>1, <2>1 DEF StartInitiate, Locals
  <2> QED
    BY <2>2
<1>2. ASSUME NEW k \in Keys, StartRetryJob(w, k) \/ StartRetryAdmin(w, k)
      PROVE  /\ Alone(w) /\ pc[w] = "idle" /\ pc'[w] = "retryRead" /\ loc'[w].op = "retry"
             /\ w \in Retriers
  <2>1. PICK l : l = [NoLocals EXCEPT !.op = "retry", !.key = k]
    OBVIOUS
  <2>2. l.op = "retry" /\ Begin(w, "retryRead", l) /\ w \in Retriers
    BY <1>0, <1>2, <2>1 DEF StartRetryJob, StartRetryAdmin, Locals, Retriers
  <2> QED
    BY <2>2
<1>3. ASSUME NEW k \in Keys, StartMark(w, k)
      PROVE  Alone(w) /\ pc[w] = "idle" /\ pc'[w] = "applyState" /\ loc'[w].op = "mark"
  <2>1. PICK l : l = [NoLocals EXCEPT !.op = "mark", !.key = k,
                                      !.before = refunds[k].state, !.next = PROCESSED]
    OBVIOUS
  <2>2. l.op = "mark" /\ Begin(w, "applyState", l)
    BY <1>0, <1>3, <2>1 DEF StartMark, Locals
  <2> QED
    BY <2>2
<1>4. ASSUME NEW k \in Keys, StartReconcile(w, k)
      PROVE  Alone(w) /\ pc[w] = "idle" /\ pc'[w] = "find" /\ loc'[w].op = "webhook" /\ channel = "razorpay"
  <2>1. PICK l : l = [NoLocals EXCEPT !.op = "webhook", !.key = k, !.gid = refunds[k].gid,
                                      !.next = StateOfGatewayStatus(gw[k][refunds[k].gid])]
    OBVIOUS
  <2>2. l.op = "webhook" /\ Begin(w, "find", l) /\ channel = "razorpay"
    BY <1>0, <1>4, <2>1 DEF StartReconcile, Locals
  <2> QED
    BY <2>2
<1>5. ASSUME NEW m \in inbox, StartWebhook(w, m)
      PROVE  Alone(w) /\ pc[w] = "idle" /\ pc'[w] = "find" /\ loc'[w].op = "webhook" /\ channel = "razorpay"
  <2>1. PICK l : l = [NoLocals EXCEPT !.op = "webhook", !.key = m.key, !.gid = m.gid,
                                      !.next = StateOfGatewayStatus(m.status)]
    OBVIOUS
  <2>2. l.op = "webhook" /\ Begin(w, "find", l)
    BY <1>0, <1>5, <2>1 DEF StartWebhook, Locals
  <2>3. channel = "razorpay"
    BY DEF MachineInv, Channelled
  <2> QED
    BY <2>2, <2>3
<1> QED
  BY <1>1, <1>2, <1>3, <1>4, <1>5 DEF Start

LEMMA StartShips ==
  ASSUME TypeInv, MachineInv, NEW w \in Workers, Start(w)
  PROVE  Ships(w)
<1>1. /\ channel' = channel /\ refunds' = refunds /\ gw' = gw /\ inbox' \subseteq inbox
  BY DEF Start, StartInitiate, StartWebhook, StartReconcile, StartRetryJob, StartRetryAdmin, StartMark,
         orderVars, gatewayVars
<1> QED
  BY <1>1, StartOps DEF Ships, MachineInv, Channelled

\* The operation of a worker that runs on or stops.
LEMMA OpKept ==
  ASSUME TypeInv, NEW w \in Workers, Continue(w) \/ Fault(w)
  PROVE  /\ Alone(w)
         /\ \/ loc'[w].op \in {loc[w].op, "none"}
            \/ loc'[w].op = "exhaust" /\ pc[w] = "retryRead"
<1>0. loc[w] \in Locals
  BY TypeFacts
<1> USE TypeFacts, MovesAlone, NoLocalsFacts
<1>1. ASSUME NEW label, NEW l, GoWith(w, label, l),
             l.op = loc[w].op \/ (l.op = "exhaust" /\ pc[w] = "retryRead")
      PROVE  Alone(w) /\ (loc'[w].op = loc[w].op \/ (loc'[w].op = "exhaust" /\ pc[w] = "retryRead"))
  BY <1>1
<1>2. /\ [loc[w] EXCEPT !.own = TRUE].op = loc[w].op
      /\ \A i : [loc[w] EXCEPT !.gid = i, !.dirty = TRUE].op = loc[w].op
      /\ [loc[w] EXCEPT !.dirty = FALSE].op = loc[w].op
      /\ \A e : [loc[w] EXCEPT !.new = e].op = loc[w].op
      /\ \A s : [loc[w] EXCEPT !.before = s].op = loc[w].op
      /\ \A c : [loc[w] EXCEPT !.count = c].op = loc[w].op
      /\ [loc[w] EXCEPT !.op = "exhaust", !.before = FAILED, !.next = PERMANENTLY_FAILED].op = "exhaust"
  BY <1>0 DEF Locals
<1>3. CASE LazySeed(w) \/ Reserve(w) \/ RecordRefund(w) \/ ReleaseAfterFailure(w) \/ SaveFailed(w)
  <2>1. CASE LazySeed(w)
    BY <2>1 DEF LazySeed
  <2>2. CASE Reserve(w)
    BY <2>2 DEF Reserve
  <2>3. CASE RecordRefund(w)
    BY <2>3 DEF RecordRefund
  <2>4. CASE ReleaseAfterFailure(w)
    BY <2>4 DEF ReleaseAfterFailure
  <2>5. CASE SaveFailed(w)
    BY <2>5 DEF SaveFailed
  <2> QED
    BY <1>3, <2>1, <2>2, <2>3, <2>4, <2>5
<1>4. CASE CreateRefund(w) \/ ExecuteStrategy(w)
  <2>1. CASE CreateRefund(w)
    <3>1. CASE GoWith(w, "execute", [loc[w] EXCEPT !.own = TRUE])
      BY <1>1, <1>2, <3>1
    <3>2. CASE Throw(w)
      BY <3>2
    <3> QED
      BY <2>1, <3>1, <3>2 DEF CreateRefund
  <2>2. CASE ExecuteStrategy(w)
    <3>1. CASE \E i : GoWith(w, "save", [loc[w] EXCEPT !.gid = i, !.dirty = TRUE])
      BY <1>1, <1>2, <3>1
    <3>2. CASE Throw(w)
      BY <3>2
    <3> QED
      BY <2>2, <3>1, <3>2 DEF ExecuteStrategy
  <2> QED
    BY <1>4, <2>1, <2>2
<1>5. CASE SaveAccepted(w)
  BY <1>0, <1>5 DEF SaveAccepted, Alone, WorkersOK, Locals
<1>6. CASE ProjectStep(w)
  BY <1>1, <1>2, <1>6 DEF ProjectStep, ProjectRead, ProjectSave
<1>7. CASE WebhookStep(w)
  <2>1. CASE FindRefund(w)
    BY <1>1, <1>2, <2>1 DEF FindRefund
  <2>2. CASE ApplyState(w)
    BY <1>1, <1>2, <2>2 DEF ApplyState
  <2>3. CASE WebhookRelease(w) \/ RecordAdjustment(w)
    BY <2>3 DEF WebhookRelease, RecordAdjustment
  <2> QED
    BY <1>7, <2>1, <2>2, <2>3 DEF WebhookStep
<1>8. CASE RetryStep(w)
  BY <1>1, <1>2, <1>8 DEF RetryStep, RetryRead, RetrySave
<1>9. CASE Fault(w)
  BY <1>9 DEF Fault, DatabaseError, AnswerLost, Crash
<1> QED
  BY <1>3, <1>4, <1>5, <1>6, <1>7, <1>8, <1>9 DEF Continue, InitiateStep

LEMMA AcceptShips ==
  ASSUME TypeInv, MachineInv, NEW k \in Keys, GatewayAccept(k)
  PROVE  \A m \in inbox' : m.status \in EventKinds
BY DEF GatewayAccept, MachineInv, Channelled

LEMMA RunningShips ==
  ASSUME TypeInv, MachineInv, NEW w \in Workers, Continue(w) \/ Fault(w)
  PROVE  Ships(w)
<1>0. /\ Fits(pc[w], loc[w], At(w)) /\ loc[w].key \in Keys /\ loc[w] \in Locals
      /\ refunds \in [Keys -> RefundDoc]
  BY TypeFacts DEF MachineInv
<1>1. Alone(w) /\ loc'[w].op \in {loc[w].op, "none", "exhaust"}
  BY OpKept
<1>2. channel' = channel
  BY DEF Continue, InitiateStep, ProjectStep, WebhookStep, RetryStep, Fault, LazySeed, Reserve,
         CreateRefund, ExecuteStrategy, SaveAccepted, RecordRefund, ReleaseAfterFailure, SaveFailed,
         ProjectRead, ProjectSave, FindRefund, ApplyState, WebhookRelease, RecordAdjustment, RetryRead,
         RetrySave, DatabaseError, AnswerLost, Crash, orderVars
<1>3. CASE ExecuteStrategy(w) \/ AnswerLost(w)
  BY <1>0, <1>1, <1>2, <1>3, AcceptShips DEF ExecuteStrategy, AnswerLost, Ships, gatewayVars, MachineInv, Channelled
<1>4. CASE ~(ExecuteStrategy(w) \/ AnswerLost(w))
  <2>1. inbox' = inbox /\ gw' = gw
    BY <1>4
    DEF Continue, InitiateStep, ProjectStep, WebhookStep, RetryStep, Fault, LazySeed, Reserve,
         CreateRefund, SaveAccepted, RecordRefund, ReleaseAfterFailure, SaveFailed,
         ProjectRead, ProjectSave, FindRefund, ApplyState, WebhookRelease, RecordAdjustment, RetryRead,
         RetrySave, DatabaseError, Crash, gatewayVars
  <2> DEFINE Fine == \A k \in Keys : \/ refunds'[k] = refunds[k]
                                     \/ channel = "razorpay" /\ refunds'[k].state = INITIATED
                                          => refunds'[k].gid = 0
  <2>2. CASE refunds' = refunds
    BY <1>1, <1>2, <2>1, <2>2, QuietShips
  <2>3. CASE CreateRefund(w)
    <3>1. Fine
      BY <1>0, <2>3 DEF CreateRefund, Absent
    <3> QED
      BY <1>1, <1>2, <2>1, <3>1, QuietShips
  <2>4. CASE SaveAccepted(w)
    <3>1. \/ channel # "razorpay"
          \/ refunds'[loc[w].key].state = PENDING
      BY <1>0, <2>4 DEF SaveAccepted, Fits, RefundDoc, At
    <3>2. Fine
      BY <1>0, <2>4, <3>1 DEF SaveAccepted, PENDING, INITIATED
    <3> QED
      BY <1>1, <1>2, <2>1, <3>2, QuietShips
  <2>5. CASE SaveFailed(w) \/ RetrySave(w) \/ ApplyState(w)
    <3>a. SaveFailed(w) => refunds'[loc[w].key].state = FAILED
      BY <1>0 DEF SaveFailed, RefundDoc
    <3>b. RetrySave(w) => refunds'[loc[w].key].state = PENDING
      BY <1>0 DEF RetrySave, RefundDoc
    <3>c. ApplyState(w) => refunds'[loc[w].key].state = loc[w].next
      BY <1>0 DEF ApplyState, RefundDoc
    <3>2. ApplyState(w) => loc[w].next # INITIATED
      BY <1>0 DEF ApplyState, Fits, CanTransition, ValidTransitions, INITIATED, PENDING, PROCESSED,
                  FAILED, PERMANENTLY_FAILED
    <3>3. refunds'[loc[w].key].state # INITIATED
      BY <2>5, <3>2, <3>a, <3>b, <3>c DEF INITIATED, PENDING, FAILED
    <3>d. \A k \in Keys : k # loc[w].key => refunds'[k] = refunds[k]
      BY <1>0, <2>5 DEF SaveFailed, RetrySave, ApplyState
    <3>4. Fine
      BY <3>3, <3>d
    <3> QED
      BY <1>1, <1>2, <2>1, <3>4, QuietShips
  <2> QED
    BY <1>4, <2>2, <2>3, <2>4, <2>5
    DEF Continue, InitiateStep, ProjectStep, WebhookStep, RetryStep, Fault, LazySeed, Reserve,
         RecordRefund, ReleaseAfterFailure,
         ProjectRead, ProjectSave, FindRefund, WebhookRelease, RecordAdjustment, RetryRead,
         DatabaseError, Crash
<1> QED
  BY <1>3, <1>4

LEMMA MachineInit == Init => MachineInv
BY NoLocalsFacts DEF Init, MachineInv, Fits, Owners, Channelled, Absent, INITIATED

LEMMA MachineNext ==
  ASSUME TypeInv, Apart, MachineInv, [Next]_vars
  PROVE  MachineInv' /\ \A k \in Keys : LegalStep(k)
<1>1. ASSUME NEW w \in Workers, Start(w) \/ Continue(w) \/ Fault(w)
      PROVE  MachineInv' /\ \A k \in Keys : LegalStep(k)
  <2>1. Works(w)
    BY <1>1, StartsWork, InitiateWorks, ProjectWorks, WebhookWorks, RetryWorks, FaultWorks DEF Continue
  <2>2. Channelled'
    BY <1>1, StartShips, RunningShips, ShipsKeeps
  <2> QED
    BY <2>1, <2>2, WorksKeeps DEF MachineInv
<1>2. ASSUME UNCHANGED <<refunds, pc, loc>>, Channelled'
      PROVE  MachineInv' /\ \A k \in Keys : LegalStep(k)
  BY <1>2 DEF MachineInv, Owners, Exists, At, LegalStep
<1>3. ASSUME NEW k \in Keys, NEW n \in 1..Len(gw[k]), GatewaySettle(k, n)
      PROVE  UNCHANGED <<refunds, pc, loc>> /\ Channelled'
  <2>1. channel = "razorpay"
    <3> SUFFICES ASSUME channel # "razorpay" PROVE FALSE
      OBVIOUS
    <3>1. gw[k] = << >>
      BY DEF MachineInv, Channelled
    <3>2. 1..Len(gw[k]) = {}
      BY <3>1
    <3> QED
      BY <1>3, <3>2
  <2>2. UNCHANGED <<refunds, pc, loc, channel>>
    BY <1>3 DEF GatewaySettle, workerVars, orderVars
  <2>3. \A m \in inbox' : m.status \in EventKinds
    BY <1>3 DEF GatewaySettle, MachineInv, Channelled
  <2> QED
    BY <2>1, <2>2, <2>3 DEF MachineInv, Channelled
<1>4. CASE UNCHANGED vars
  BY <1>2, <1>4 DEF vars, MachineInv, Channelled
<1> QED
  BY <1>1, <1>2, <1>3, <1>4 DEF Next

-----------------------------------------------------------------------------
(* The refundable bucket.                                                  *)

\* No request comes to lazySeedRefundablePaise while refunds on their way have emptied the
\* bucket of an order: it would be filled a second time.
SeedsAreSafe ==
  \A w \in Workers : pc[w] = "seed" /\ refundable = 0 /\ RefundedPaise = 0 => Untouched

\* The refund that worker w is on.
Mine(w) == loc[w].key

\* Nobody else is about to take back what refund k holds.
Undisturbed(w, k) ==
  \A v \in Workers : v # w /\ loc[v].key = k => pc[v] \notin {"markFailed", "webhookRelease"}

HeldFacts ==
  /\ \A k \in Keys : HeldFor[k] \in {0, AmountOf[k]} /\ AmountOf[k] \in Nat \ {0}
  /\ \A w \in Workers : HeldBy[w] \in {0, AmountOf[Mine(w)]} /\ Mine(w) \in Keys
  /\ SumFunctionOnSet(HeldFor, Keys) \in Nat
  /\ SumFunctionOnSet(HeldBy, Workers) \in Nat
  /\ HeldPaise \in Nat
  /\ \A w \in Workers : HeldBy[w] <= HeldPaise
  /\ \A k \in Keys : HeldFor[k] <= HeldPaise

LEMMA HeldTypes == TypeInv => HeldFacts
<1> SUFFICES ASSUME TypeInv PROVE HeldFacts
  OBVIOUS
<1>1. /\ \A k \in Keys : HeldFor[k] \in {0, AmountOf[k]} /\ AmountOf[k] \in Nat \ {0}
      /\ \A w \in Workers : HeldBy[w] \in {0, AmountOf[Mine(w)]} /\ Mine(w) \in Keys
  BY TypeFacts DEF HeldFor, HeldBy, Mine
<1>2. (\A k \in Keys : HeldFor[k] \in Nat) /\ (\A w \in Workers : HeldBy[w] \in Nat)
  BY <1>1
<1>3. IsFiniteSet(Keys) /\ IsFiniteSet(Workers)
  BY KeysAssumption
<1>4. /\ SumFunctionOnSet(HeldFor, Keys) \in Nat
      /\ \A k \in Keys : HeldFor[k] <= SumFunctionOnSet(HeldFor, Keys)
  BY <1>2, <1>3, SumIsNat
<1>5. /\ SumFunctionOnSet(HeldBy, Workers) \in Nat
      /\ \A w \in Workers : HeldBy[w] <= SumFunctionOnSet(HeldBy, Workers)
  BY <1>2, <1>3, SumIsNat
<1>6. /\ HeldPaise \in Nat
      /\ \A w \in Workers : HeldBy[w] <= HeldPaise
      /\ \A k \in Keys : HeldFor[k] <= HeldPaise
  BY <1>2, <1>4, <1>5 DEF HeldPaise
<1> QED
  BY <1>1, <1>4, <1>5, <1>6 DEF HeldFacts

LEMMA HeldTypesNext == TypeInv' => HeldFacts'
<1>1. (TypeInv => HeldFacts)'
  BY HeldTypes, PTL
<1> QED
  BY <1>1

\* What is held changes by what w and its refund hold.
LEMMA HeldDelta ==
  ASSUME TypeInv, TypeInv', NEW w \in Workers, Alone(w),
         \A k \in Keys : k # Mine(w) => refunds'[k] = refunds[k],
         pc'[w] \in {"markFailed", "webhookRelease"} => loc'[w].key = Mine(w)
  PROVE  HeldPaise' = HeldPaise - HeldFor[Mine(w)] - HeldBy[w] + HeldFor'[Mine(w)] + HeldBy'[w]
<1>1. ASSUME NEW k \in Keys, k # Mine(w) PROVE HeldFor'[k] = HeldFor[k]
  <2>1. refunds'[k] = refunds[k]
    BY <1>1
  <2>2. \A v \in Workers, L \in {{"markFailed"}, {"webhookRelease"}} :
          (pc'[v] \in L /\ loc'[v].key = k) <=> (pc[v] \in L /\ loc[v].key = k)
    BY <1>1 DEF Alone, Mine
  <2>3. WorkingOn(k, {"markFailed"})' <=> WorkingOn(k, {"markFailed"})
    BY <2>2 DEF WorkingOn
  <2>4. WorkingOn(k, {"webhookRelease"})' <=> WorkingOn(k, {"webhookRelease"})
    BY <2>2 DEF WorkingOn
  <2> QED
    BY <1>1, <2>1, <2>3, <2>4 DEF HeldFor, HeldRefunds, Live
<1>2. ASSUME NEW v \in Workers, v # w PROVE HeldBy'[v] = HeldBy[v]
  BY <1>2 DEF HeldBy, HeldRequests, Alone
<1>3. /\ IsFiniteSet(Keys) /\ IsFiniteSet(Workers) /\ Mine(w) \in Keys
      /\ \A k \in Keys : HeldFor[k] \in Int /\ HeldFor'[k] \in Int
      /\ \A v \in Workers : HeldBy[v] \in Int /\ HeldBy'[v] \in Int
  <2>1. /\ \A k \in Keys : AmountOf[k] \in Nat
        /\ \A v \in Workers : loc[v].key \in Keys /\ loc'[v].key \in Keys
    BY AmountAssumption DEF TypeInv, TypeOK, Locals
  <2> QED
    BY <2>1, KeysAssumption DEF HeldFor, HeldBy, Mine
<1>4. SumFunctionOnSet(HeldFor, Keys)' = SumFunctionOnSet(HeldFor, Keys) - HeldFor[Mine(w)] + HeldFor'[Mine(w)]
  BY <1>1, <1>3, SumChanged
<1>5. SumFunctionOnSet(HeldBy, Workers)' = SumFunctionOnSet(HeldBy, Workers) - HeldBy[w] + HeldBy'[w]
  BY <1>2, <1>3, SumChanged
<1>6. /\ SumFunctionOnSet(HeldFor, Keys) \in Int /\ SumFunctionOnSet(HeldBy, Workers) \in Int
      /\ HeldFor[Mine(w)] \in Int /\ HeldFor'[Mine(w)] \in Int /\ HeldBy[w] \in Int /\ HeldBy'[w] \in Int
  BY <1>3, HeldTypes DEF HeldFacts
<1> QED
  BY <1>4, <1>5, <1>6 DEF HeldPaise


LEMMA SameHeld ==
  ASSUME TypeInv, TypeInv', NEW w \in Workers, Alone(w),
         \A k \in Keys : k # Mine(w) => refunds'[k] = refunds[k],
         \A k \in Keys : Live(k)' <=> Live(k),
         pc[w] \notin {"markFailed", "webhookRelease"}, pc'[w] \notin {"markFailed", "webhookRelease"},
         HeldBy'[w] = HeldBy[w]
  PROVE  HeldPaise' = HeldPaise
<1>1. Mine(w) \in Keys /\ HeldFor[Mine(w)] \in Int /\ HeldBy[w] \in Int /\ HeldPaise \in Int
  BY HeldTypes DEF HeldFacts
<1>2. \A k \in Keys : \A L \in {{"markFailed"}, {"webhookRelease"}} :
        WorkingOn(k, L)' <=> WorkingOn(k, L)
  BY DEF Alone, WorkingOn
<1>3. \A k \in Keys : k \in HeldRefunds' <=> k \in HeldRefunds
  BY <1>2 DEF HeldRefunds
<1>4. HeldFor'[Mine(w)] = HeldFor[Mine(w)]
  BY <1>1, <1>3 DEF HeldFor
<1>5. HeldPaise' = HeldPaise - HeldFor[Mine(w)] - HeldBy[w] + HeldFor'[Mine(w)] + HeldBy'[w]
  BY HeldDelta
<1> QED
  BY <1>1, <1>4, <1>5

\* What a worker holds itself, by where it is.
LEMMA HeldByIs ==
  ASSUME NEW w \in Workers
  PROVE  /\ HeldBy[w] = IF pc[w] = "create" \/ (pc[w] = "release" /\ ~loc[w].own)
                        THEN AmountOf[Mine(w)] ELSE 0
         /\ HeldBy'[w] = IF pc'[w] = "create" \/ (pc'[w] = "release" /\ ~loc'[w].own)
                         THEN AmountOf[loc'[w].key] ELSE 0
BY DEF HeldBy, HeldRequests, Mine

\* The steps that create, settle or give up a refund find nobody else at its money.
LEMMA NobodyElse ==
  ASSUME TypeInv, MachineInv, Apart, NEW w \in Workers, pc[w] # "idle",
         loc[w].own \/ loc[w].op # "initiate" \/ ~Exists(Mine(w)),
         NEW v \in Workers, v # w, loc[v].key = Mine(w)
  PROVE  pc[v] \notin {"markFailed", "webhookRelease"}
<1> SUFFICES ASSUME pc[v] \in {"markFailed", "webhookRelease"} PROVE FALSE
  OBVIOUS
<1>1. Fits(pc[v], loc[v], At(v))
  BY DEF MachineInv
<1>2. loc[v].op = "initiate" /\ loc[w].op = "initiate"
  BY DEF Apart, Mine
<1>3. loc[v].own
  BY <1>1, <1>2 DEF Fits
<1> QED
  BY <1>2, <1>3 DEF MachineInv, Owners, Mine

\* Nothing but w decides what refund Mine(w) holds.
LEMMA HeldForIs ==
  ASSUME TypeInv, NEW w \in Workers, Alone(w),
         pc'[w] \in {"markFailed", "webhookRelease"} => loc'[w].key = Mine(w),
         \A v \in Workers : v # w /\ loc[v].key = Mine(w) => pc[v] \notin {"markFailed", "webhookRelease"}
  PROVE  /\ HeldFor[Mine(w)] = IF (Live(Mine(w)) /\ pc[w] # "markFailed") \/ pc[w] = "webhookRelease"
                               THEN AmountOf[Mine(w)] ELSE 0
         /\ HeldFor'[Mine(w)] =
              IF (refunds'[Mine(w)].state \in {INITIATED, PENDING, PROCESSED} /\ pc'[w] # "markFailed")
                   \/ pc'[w] = "webhookRelease"
              THEN AmountOf[Mine(w)] ELSE 0
<1>1. Mine(w) \in Keys
  BY TypeFacts DEF Mine
<1>2. \A l \in {"markFailed", "webhookRelease"} :
        /\ WorkingOn(Mine(w), {l}) <=> pc[w] = l
        /\ (\E v \in Workers : pc'[v] \in {l} /\ loc'[v].key = Mine(w)) <=> pc'[w] = l
  BY DEF WorkingOn, Mine, Alone
<1> QED
  BY <1>1, <1>2 DEF HeldFor, HeldRefunds, Live, WorkingOn


\* Money moves between the bucket and who holds it; and whoever creates a refund held some.
Conserves ==
  /\ refundable' + HeldPaise' = refundable + HeldPaise
  /\ \A k \in Keys : Exists(k)' => Exists(k) \/ HeldPaise # 0

Steady == TypeInv /\ MachineInv /\ Apart /\ TypeInv'

LEMMA QuietConserves ==
  ASSUME Steady, NEW w \in Workers, Alone(w), refundable' = refundable,
         \A k \in Keys : k # Mine(w) => refunds'[k] = refunds[k],
         \A k \in Keys : Live(k)' <=> Live(k),
         \A k \in Keys : Exists(k)' => Exists(k),
         pc[w] \notin {"markFailed", "webhookRelease"}, pc'[w] \notin {"markFailed", "webhookRelease"},
         HeldBy'[w] = HeldBy[w]
  PROVE  Conserves
BY SameHeld DEF Steady, Conserves

LEMMA StartConserves ==
  ASSUME Steady, NEW w \in Workers, Start(w)
  PROVE  Conserves
<1>1. refundable' = refundable /\ refunds' = refunds
  BY DEF Start, StartInitiate, StartWebhook, StartReconcile, StartRetryJob, StartRetryAdmin, StartMark, orderVars
<1>2. Alone(w) /\ pc[w] = "idle" /\ pc'[w] \in {"seed", "find", "retryRead", "applyState"}
  BY StartOps DEF Steady
<1> QED
  BY <1>1, <1>2, HeldByIs, QuietConserves DEF Live, Exists

\* An error that is caught: what a request reserved stays reserved.
LEMMA ThrowConserves ==
  ASSUME Steady, NEW w \in Workers, loc[w].op \notin {"retry", "exhaust"},
         pc[w] \in {"create", "execute", "save", "ledger", "project", "projectSave"},
         Throw(w), refundable' = refundable, refunds' = refunds
  PROVE  Conserves
<1>0. Fits(pc[w], loc[w], At(w))
  BY DEF Steady, MachineInv
<1>1. CASE pc[w] = "create"
  <2>1. loc[w].op = "initiate" /\ ~loc[w].own
    BY <1>0, <1>1 DEF Fits
  <2>2. Alone(w) /\ pc'[w] = "release" /\ loc'[w] = loc[w]
    BY <2>1, TypeFacts, MovesAlone DEF Steady, Throw
  <2> QED
    BY <1>1, <2>1, <2>2, HeldByIs, QuietConserves DEF Live, Exists, Mine
<1>2. CASE pc[w] # "create" /\ loc[w].op = "initiate"
  <2>1. loc[w].own
    BY <1>0, <1>2 DEF Fits
  <2>2. Alone(w) /\ pc'[w] = "release" /\ loc'[w] = loc[w]
    BY <1>2, TypeFacts, MovesAlone DEF Steady, Throw
  <2> QED
    BY <1>2, <2>1, <2>2, HeldByIs, QuietConserves DEF Live, Exists, Mine
<1>3. CASE pc[w] # "create" /\ loc[w].op # "initiate"
  <2>1. Alone(w) /\ pc'[w] = "idle"
    BY <1>3, TypeFacts, MovesAlone DEF Steady, Throw
  <2> QED
    BY <1>3, <2>1, HeldByIs, QuietConserves DEF Live, Exists
<1> QED
  BY <1>1, <1>2, <1>3

LEMMA InitiateConserves ==
  ASSUME Steady, NEW w \in Workers, loc[w].op \notin {"retry", "exhaust"}, InitiateStep(w)
  PROVE  Conserves \/ LazySeed(w)
<1>0. /\ Fits(pc[w], loc[w], At(w)) /\ Mine(w) \in Keys /\ loc[w] \in Locals
      /\ refunds \in [Keys -> RefundDoc] /\ refundable \in Nat /\ AmountOf[Mine(w)] \in Nat \ {0}
      /\ HeldFacts /\ HeldFacts'
  BY TypeFacts, HeldTypes, HeldTypesNext DEF Steady, MachineInv, Mine
<1>a. WorkersOK
  BY TypeFacts DEF Steady
<1> USE <1>a, MovesAlone
<1>b. HeldPaise \in Int /\ HeldPaise' \in Int /\ HeldFor[Mine(w)] \in Int /\ HeldBy[w] \in Int
  BY <1>0 DEF HeldFacts
<1>1. CASE Reserve(w)
  <2>1. Alone(w) /\ refunds' = refunds /\ pc[w] = "reserve"
    BY <1>1 DEF Reserve
  <2>2. CASE pc'[w] = "idle"
    <3>1. refundable' = refundable
      BY <1>1, <2>2 DEF Reserve
    <3> QED
      BY <2>1, <2>2, <3>1, HeldByIs, QuietConserves DEF Live, Exists
  <2>3. CASE pc'[w] = "create"
    <3>1. refundable' = refundable - AmountOf[Mine(w)] /\ loc'[w] = loc[w]
      BY <1>1, <2>3 DEF Reserve, Mine
    <3>2. HeldBy[w] = 0 /\ HeldBy'[w] = AmountOf[Mine(w)]
      BY <2>1, <2>3, <3>1, HeldByIs DEF Mine
    <3>3. \A k \in Keys, L \in {{"markFailed"}, {"webhookRelease"}} : WorkingOn(k, L)' <=> WorkingOn(k, L)
      BY <2>1, <2>3 DEF Alone, WorkingOn
    <3>4. HeldFor'[Mine(w)] = HeldFor[Mine(w)]
      BY <1>0, <2>1, <3>3 DEF HeldFor, HeldRefunds, Live
    <3>5. HeldPaise' = HeldPaise - HeldFor[Mine(w)] - HeldBy[w] + HeldFor'[Mine(w)] + HeldBy'[w]
      BY <2>1, <2>3, HeldDelta DEF Steady
    <3>6. refundable' + HeldPaise' = refundable + HeldPaise
      BY <1>0, <1>b, <3>1, <3>2, <3>4, <3>5
    <3> QED
      BY <2>1, <3>6 DEF Conserves, Exists
  <2> QED
    BY <1>1, <2>2, <2>3 DEF Reserve
<1>2. CASE CreateRefund(w)
  <2>1. CASE DuplicateKeyError(Mine(w))
    BY <1>2, <2>1, ThrowConserves DEF CreateRefund, Mine, orderVars
  <2>2. CASE ~DuplicateKeyError(Mine(w))
    <3>1. PICK l : l = [loc[w] EXCEPT !.own = TRUE]
      OBVIOUS
    <3>2. l.key = Mine(w) /\ l.own /\ ~loc[w].own
      BY <1>0, <1>2, <3>1 DEF Locals, CreateRefund, Fits, Mine
    <3>3. /\ refunds' = [refunds EXCEPT ![Mine(w)] = [Absent EXCEPT !.state = INITIATED]]
          /\ GoWith(w, "execute", l) /\ ~Exists(Mine(w)) /\ pc[w] = "create" /\ refundable' = refundable
      BY <1>2, <2>2, <3>1 DEF CreateRefund, DuplicateKeyError, Mine, orderVars
    <3>4. refunds'[Mine(w)].state = INITIATED /\ \A k \in Keys : k # Mine(w) => refunds'[k] = refunds[k]
      BY <1>0, <3>3 DEF Absent
    <3>5. Alone(w) /\ pc'[w] = "execute" /\ loc'[w] = l
      BY <3>3
    <3>6. ~Live(Mine(w))
      BY <3>3 DEF Live, Exists, INITIATED, PENDING, PROCESSED
    <3>7. HeldFor[Mine(w)] = 0 /\ HeldFor'[Mine(w)] = AmountOf[Mine(w)]
      BY <3>2, <3>3, <3>4, <3>5, <3>6, HeldForIs, NobodyElse DEF Steady
    <3>8. HeldBy[w] = AmountOf[Mine(w)] /\ HeldBy'[w] = 0
      BY <3>2, <3>3, <3>5, HeldByIs
    <3>9. HeldPaise' = HeldPaise - HeldFor[Mine(w)] - HeldBy[w] + HeldFor'[Mine(w)] + HeldBy'[w]
      BY <3>3, <3>4, <3>5, HeldDelta DEF Steady
    <3>10. refundable' + HeldPaise' = refundable + HeldPaise
      BY <1>0, <1>b, <3>3, <3>7, <3>8, <3>9
    <3>11. HeldPaise # 0
      BY <1>0, <3>8 DEF HeldFacts
    <3> QED
      BY <3>10, <3>11 DEF Conserves
  <2> QED
    BY <2>1, <2>2
<1>3. CASE ExecuteStrategy(w)
  <2>1. pc[w] = "execute" /\ refunds' = refunds /\ refundable' = refundable
    BY <1>3 DEF ExecuteStrategy, orderVars
  <2>2. CASE Throw(w)
    BY <2>1, <2>2, ThrowConserves
  <2>3. CASE Alone(w) /\ pc'[w] = "save"
    BY <2>1, <2>3, HeldByIs, QuietConserves DEF Live, Exists
  <2> QED
    BY <1>3, <2>2, <2>3 DEF ExecuteStrategy
<1>4. CASE SaveAccepted(w)
  <2>1. Alone(w) /\ pc[w] = "save" /\ pc'[w] \in {"ledger", "project"} /\ refundable' = refundable
    BY <1>4 DEF SaveAccepted, orderVars, WorkersOK, Alone
  <2>2. /\ \A k \in Keys : k # Mine(w) => refunds'[k] = refunds[k]
        /\ refunds'[Mine(w)].state \in {PENDING, At(w)} /\ At(w) = INITIATED
    BY <1>0, <1>4 DEF SaveAccepted, Mine, At, RefundDoc, Fits
  <2>3. \A k \in Keys : Live(k)' <=> Live(k)
    BY <2>2 DEF Live, At, Mine
  <2>4. Exists(Mine(w))
    BY <2>2 DEF Exists, At, Mine, INITIATED
  <2>5. \A k \in Keys : Exists(k)' => Exists(k)
    BY <2>2, <2>4 DEF Exists
  <2> QED
    BY <2>1, <2>2, <2>3, <2>5, HeldByIs, QuietConserves
<1>5. CASE RecordRefund(w)
  BY <1>5, HeldByIs, QuietConserves DEF RecordRefund, orderVars, Live, Exists
<1>6. CASE ReleaseAfterFailure(w) /\ ~loc[w].own
  <2>1. Alone(w) /\ refunds' = refunds /\ pc[w] = "release" /\ pc'[w] = "idle"
        /\ refundable' = refundable + AmountOf[Mine(w)]
    BY <1>6 DEF ReleaseAfterFailure, Mine
  <2>2. HeldBy[w] = AmountOf[Mine(w)] /\ HeldBy'[w] = 0
    BY <1>6, <2>1, HeldByIs
  <2>3. \A k \in Keys, L \in {{"markFailed"}, {"webhookRelease"}} : WorkingOn(k, L)' <=> WorkingOn(k, L)
    BY <2>1 DEF Alone, WorkingOn
  <2>4. HeldFor'[Mine(w)] = HeldFor[Mine(w)]
    BY <1>0, <2>1, <2>3 DEF HeldFor, HeldRefunds, Live
  <2>5. HeldPaise' = HeldPaise - HeldFor[Mine(w)] - HeldBy[w] + HeldFor'[Mine(w)] + HeldBy'[w]
    BY <2>1, HeldDelta DEF Steady
  <2>6. refundable' + HeldPaise' = refundable + HeldPaise
    BY <1>0, <1>b, <2>1, <2>2, <2>4, <2>5
  <2> QED
    BY <2>1, <2>6 DEF Conserves, Exists
<1>7. CASE ReleaseAfterFailure(w) /\ loc[w].own
  <2>1. Alone(w) /\ refunds' = refunds /\ pc[w] = "release" /\ pc'[w] = "markFailed" /\ loc'[w] = loc[w]
        /\ refundable' = refundable + AmountOf[Mine(w)]
    BY <1>7 DEF ReleaseAfterFailure, Mine
  <2>2. HeldBy[w] = 0 /\ HeldBy'[w] = 0
    BY <1>7, <2>1, HeldByIs
  <2>3. Live(Mine(w))
    BY <1>0, <1>7, <2>1 DEF Fits, Live, At, Mine
  <2>4. HeldFor[Mine(w)] = AmountOf[Mine(w)] /\ HeldFor'[Mine(w)] = 0
    BY <1>7, <2>1, <2>3, HeldForIs, NobodyElse DEF Steady, Mine
  <2>5. HeldPaise' = HeldPaise - HeldFor[Mine(w)] - HeldBy[w] + HeldFor'[Mine(w)] + HeldBy'[w]
    BY <2>1, HeldDelta DEF Steady, Mine
  <2>6. refundable' + HeldPaise' = refundable + HeldPaise
    BY <1>0, <1>b, <2>1, <2>2, <2>4, <2>5
  <2> QED
    BY <2>1, <2>6 DEF Conserves, Exists
<1>8. CASE SaveFailed(w)
  <2>1. pc[w] = "markFailed" /\ loc[w].own
    BY <1>0, <1>8 DEF SaveFailed, Fits
  <2>2. Alone(w) /\ pc'[w] = "idle" /\ refundable' = refundable
    BY <1>8 DEF SaveFailed, orderVars
  <2>3. refunds'[Mine(w)].state = FAILED /\ \A k \in Keys : k # Mine(w) => refunds'[k] = refunds[k]
    BY <1>0, <1>8 DEF SaveFailed, Mine, RefundDoc
  <2>4. HeldBy[w] = 0 /\ HeldBy'[w] = 0
    BY <2>1, <2>2, HeldByIs
  <2>5. HeldFor[Mine(w)] = 0 /\ HeldFor'[Mine(w)] = 0
    BY <2>1, <2>2, <2>3, HeldForIs, NobodyElse DEF Steady, INITIATED, PENDING, PROCESSED, FAILED
  <2>6. HeldPaise' = HeldPaise - HeldFor[Mine(w)] - HeldBy[w] + HeldFor'[Mine(w)] + HeldBy'[w]
    BY <2>2, <2>3, HeldDelta DEF Steady
  <2>7. refundable' + HeldPaise' = refundable + HeldPaise
    BY <1>0, <1>b, <2>2, <2>4, <2>5, <2>6
  <2>8. Exists(Mine(w))
    BY <2>1 DEF Steady, MachineInv, Owners, Mine
  <2> QED
    BY <2>3, <2>7, <2>8 DEF Conserves, Exists
<1> QED
  BY <1>1, <1>2, <1>3, <1>4, <1>5, <1>6, <1>7, <1>8 DEF InitiateStep

LEMMA ProjectConserves ==
  ASSUME Steady, NEW w \in Workers, loc[w].op \notin {"retry", "exhaust"}, ProjectStep(w)
  PROVE  Conserves
<1>a. WorkersOK
  BY TypeFacts DEF Steady
<1>1. refunds' = refunds /\ refundable' = refundable /\ pc[w] \in {"project", "projectSave"}
  BY DEF ProjectStep, ProjectRead, ProjectSave
<1>2. CASE Throw(w)
  BY <1>1, <1>2, ThrowConserves
<1>3. CASE Alone(w) /\ pc'[w] \in {"idle", "projectSave"}
  BY <1>1, <1>3, HeldByIs, QuietConserves DEF Live, Exists
<1> QED
  BY <1>a, <1>2, <1>3, MovesAlone DEF ProjectStep, ProjectRead, ProjectSave

LEMMA WebhookConserves ==
  ASSUME Steady, NEW w \in Workers, loc[w].op \notin {"retry", "exhaust"}, WebhookStep(w),
         "created" \notin EventKinds
  PROVE  Conserves
<1>0. /\ Fits(pc[w], loc[w], At(w)) /\ Mine(w) \in Keys /\ loc[w] \in Locals
      /\ refunds \in [Keys -> RefundDoc] /\ refundable \in Nat /\ AmountOf[Mine(w)] \in Nat \ {0}
      /\ HeldFacts /\ HeldFacts'
  BY TypeFacts, HeldTypes, HeldTypesNext DEF Steady, MachineInv, Mine
<1>a. WorkersOK
  BY TypeFacts DEF Steady
<1> USE <1>a, MovesAlone
<1>b. HeldPaise \in Int /\ HeldPaise' \in Int /\ HeldFor[Mine(w)] \in Int /\ HeldBy[w] \in Int
  BY <1>0 DEF HeldFacts
<1>1. CASE FindRefund(w) \/ RecordAdjustment(w)
  <2>1. /\ Alone(w) /\ pc[w] \in {"find", "webhookLedger"} /\ pc'[w] \in {"idle", "applyState", "project"}
        /\ refunds' = refunds /\ refundable' = refundable
    BY <1>1 DEF FindRefund, RecordAdjustment, orderVars
  <2> QED
    BY <2>1, HeldByIs, QuietConserves DEF Live, Exists
<1>2. CASE ApplyState(w)
  <2>1. /\ Alone(w) /\ pc[w] = "applyState" /\ loc'[w] = loc[w] /\ refundable' = refundable
        /\ refunds' = [refunds EXCEPT ![Mine(w)].state = loc[w].next]
        /\ pc'[w] = IF loc[w].op = "mark" THEN "ledger"
                    ELSE IF loc[w].next = FAILED /\ loc[w].before = PENDING THEN "webhookRelease"
                    ELSE "project"
    BY <1>2 DEF ApplyState, Mine, orderVars
  <2>2. refunds'[Mine(w)].state = loc[w].next /\ \A k \in Keys : k # Mine(w) => refunds'[k] = refunds[k]
    BY <1>0, <2>1 DEF RefundDoc
  <2>3. /\ loc[w].before = At(w) /\ CanTransition(At(w), loc[w].next)
        /\ \/ /\ loc[w].op = "webhook" /\ At(w) # INITIATED
              /\ loc[w].next \in {PROCESSED, FAILED}
           \/ loc[w].op = "mark" /\ loc[w].next = PROCESSED
    BY <1>0, <2>1 DEF Fits, WebhookStates
  <2>4. /\ At(w) \in {INITIATED, PENDING}
        /\ \/ loc[w].next = PROCESSED /\ pc'[w] \in {"ledger", "project"}
           \/ loc[w].next = FAILED /\ pc'[w] = "webhookRelease"
    BY <2>1, <2>3 DEF CanTransition, ValidTransitions, INITIATED, PENDING, PROCESSED, FAILED,
                      PERMANENTLY_FAILED
  <2>5. loc[w].op # "initiate" /\ Live(Mine(w)) /\ Exists(Mine(w))
    BY <2>3, <2>4 DEF Live, Exists, At, Mine, INITIATED, PENDING
  <2>6. HeldFor[Mine(w)] = AmountOf[Mine(w)] /\ HeldFor'[Mine(w)] = AmountOf[Mine(w)]
    BY <2>1, <2>2, <2>4, <2>5, HeldForIs, NobodyElse DEF Steady, Mine
  <2>7. HeldBy[w] = 0 /\ HeldBy'[w] = 0
    BY <2>1, <2>4, HeldByIs
  <2>8. HeldPaise' = HeldPaise - HeldFor[Mine(w)] - HeldBy[w] + HeldFor'[Mine(w)] + HeldBy'[w]
    BY <2>1, <2>2, HeldDelta DEF Steady, Mine
  <2>9. refundable' + HeldPaise' = refundable + HeldPaise
    BY <1>0, <1>b, <2>1, <2>6, <2>7, <2>8
  <2> QED
    BY <2>2, <2>5, <2>9 DEF Conserves, Exists
<1>3. CASE WebhookRelease(w)
  <2>1. /\ Alone(w) /\ pc[w] = "webhookRelease" /\ pc'[w] = "webhookLedger" /\ refunds' = refunds
        /\ refundable' = refundable + AmountOf[Mine(w)]
    BY <1>3 DEF WebhookRelease, Mine
  <2>2. At(w) = FAILED /\ loc[w].op = "webhook"
    BY <1>0, <2>1 DEF Fits
  <2>3. HeldFor[Mine(w)] = AmountOf[Mine(w)] /\ HeldFor'[Mine(w)] = 0
    BY <2>1, <2>2, HeldForIs, NobodyElse DEF Steady, At, Mine, INITIATED, PENDING, PROCESSED, FAILED
  <2>4. HeldBy[w] = 0 /\ HeldBy'[w] = 0
    BY <2>1, HeldByIs
  <2>5. HeldPaise' = HeldPaise - HeldFor[Mine(w)] - HeldBy[w] + HeldFor'[Mine(w)] + HeldBy'[w]
    BY <2>1, HeldDelta DEF Steady
  <2>6. refundable' + HeldPaise' = refundable + HeldPaise
    BY <1>0, <1>b, <2>1, <2>3, <2>4, <2>5
  <2> QED
    BY <2>1, <2>6 DEF Conserves, Exists
<1> QED
  BY <1>1, <1>2, <1>3 DEF WebhookStep

BucketHolds == Untouched \/ refundable + HeldPaise = Amount

LEMMA ConservesKeeps ==
  ASSUME Steady, BucketHolds, Conserves
  PROVE  BucketHolds'
<1>1. refundable \in Nat /\ refundable' \in Nat /\ HeldPaise \in Nat /\ HeldPaise' \in Nat
  BY HeldTypes, HeldTypesNext DEF Steady, HeldFacts, TypeInv, TypeOK
<1>2. CASE Untouched
  <2>1. refundable' = 0 /\ HeldPaise' = 0
    <3>1. refundable = 0 /\ HeldPaise = 0
      BY <1>2 DEF Untouched
    <3>2. refundable' + HeldPaise' = refundable + HeldPaise
      BY DEF Conserves
    <3>3. \A a, b \in Nat : a + b = 0 => a = 0 /\ b = 0
      OBVIOUS
    <3>4. refundable' + HeldPaise' = 0
      BY <3>1, <3>2
    <3> QED
      BY <1>1, <3>3, <3>4
  <2>2. \A k \in Keys : ~Exists(k)'
    BY <1>2 DEF Untouched, Conserves
  <2> QED
    BY <2>1, <2>2 DEF BucketHolds, Untouched, Exists
<1>3. CASE refundable + HeldPaise = Amount
  BY <1>3 DEF Conserves, BucketHolds
<1> QED
  BY <1>2, <1>3 DEF BucketHolds

\* lazySeedRefundablePaise fills the bucket of an order nobody has refunded anything of.
LEMMA SeedKeeps ==
  ASSUME Steady, BucketHolds, SeedsAreSafe, NEW w \in Workers, LazySeed(w)
  PROVE  BucketHolds'
<1>1. Alone(w) /\ pc[w] = "seed" /\ pc'[w] = "reserve" /\ refunds' = refunds
  BY TypeFacts, MovesAlone DEF Steady, LazySeed
<1>2. HeldPaise' = HeldPaise
  BY <1>1, HeldByIs, SameHeld DEF Steady, Live
<1>3. CASE refundable = 0 /\ RefundedPaise = 0
  <2>1. refundable' = Amount /\ HeldPaise = 0
    BY <1>1, <1>3 DEF LazySeed, SeedsAreSafe, Untouched
  <2> QED
    BY <1>2, <2>1, AmountAssumption DEF BucketHolds
<1>4. CASE ~(refundable = 0 /\ RefundedPaise = 0)
  <2>1. refundable' = refundable
    BY <1>4 DEF LazySeed
  <2>2. Conserves
    BY <1>1, <1>2, <2>1 DEF Conserves, Exists
  <2> QED
    BY <2>2, ConservesKeeps
<1> QED
  BY <1>3, <1>4

\* Nobody retries.
Unretried == \A w \in Workers : loc[w].op \notin {"retry", "exhaust"}

LEMMA UnretriedNext ==
  ASSUME Retriers = {}, TypeInv, MachineInv, Unretried, [Next]_vars
  PROVE  Unretried'
<1>1. ASSUME NEW w \in Workers, Start(w) PROVE Unretried'
  BY <1>1, StartOps DEF Unretried, Alone
<1>2. ASSUME NEW w \in Workers, Continue(w) \/ Fault(w) PROVE Unretried'
  <2>1. pc[w] # "retryRead"
    BY DEF MachineInv, Fits, Unretried
  <2> QED
    BY <1>2, <2>1, OpKept DEF Unretried, Alone
<1>3. ASSUME UNCHANGED loc PROVE Unretried'
  BY <1>3 DEF Unretried
<1> QED
  BY <1>1, <1>2, <1>3 DEF Next, GatewaySettle, workerVars, vars

\* Nothing has failed so far.
Faultless == NothingFails \/ faults = 0

LEMMA FaultsGrow ==
  ASSUME TypeInv, [Next]_vars
  PROVE  /\ faults \in Nat /\ MaxFaults \in Nat
         /\ \A w \in Workers : Fault(w) => faults < MaxFaults /\ faults' = faults + 1
         /\ faults' = faults \/ (faults < MaxFaults /\ faults' = faults + 1)
<1>1. faults \in Nat /\ MaxFaults \in Nat
  BY BoundAssumption DEF TypeInv, TypeOK
<1>2. \A w \in Workers : Fault(w) => faults < MaxFaults /\ faults' = faults + 1
  BY DEF Fault, DatabaseError, AnswerLost, Crash
<1>3. ASSUME NEW w \in Workers, Start(w) \/ Continue(w) PROVE faults' = faults
  <2>1. CASE Start(w)
    BY <2>1 DEF Start, StartInitiate, StartWebhook, StartReconcile, StartRetryJob, StartRetryAdmin, StartMark
  <2>2. CASE LazySeed(w) \/ Reserve(w) \/ CreateRefund(w) \/ ExecuteStrategy(w)
    BY <2>2 DEF LazySeed, Reserve, CreateRefund, ExecuteStrategy
  <2>3. CASE SaveAccepted(w) \/ RecordRefund(w) \/ ReleaseAfterFailure(w) \/ SaveFailed(w)
    BY <2>3 DEF SaveAccepted, RecordRefund, ReleaseAfterFailure, SaveFailed
  <2>4. CASE ProjectStep(w)
    BY <2>4 DEF ProjectStep, ProjectRead, ProjectSave
  <2>5. CASE WebhookStep(w)
    BY <2>5 DEF WebhookStep, FindRefund, ApplyState, WebhookRelease, RecordAdjustment
  <2>6. CASE RetryStep(w)
    BY <2>6 DEF RetryStep, RetryRead, RetrySave
  <2> QED
    BY <1>3, <2>1, <2>2, <2>3, <2>4, <2>5, <2>6 DEF Continue, InitiateStep
<1>4. faults' = faults \/ (faults < MaxFaults /\ faults' = faults + 1)
  BY <1>2, <1>3 DEF Next, GatewaySettle, vars
<1> QED
  BY <1>1, <1>2, <1>4

LEMMA FaultsStay ==
  ASSUME TypeInv, [Next]_vars
  PROVE  Faultless' => Faultless /\ \A w \in Workers : ~Fault(w)
BY FaultsGrow DEF Faultless, NothingFails

LEMMA BucketNext ==
  ASSUME Retriers = {}, "created" \notin EventKinds,
         TypeInv, MachineInv, Unretried, Apart, SeedsAreSafe, TypeInv',
         Faultless => BucketHolds, [Next]_vars
  PROVE  Faultless' => BucketHolds'
<1> SUFFICES ASSUME Faultless' PROVE BucketHolds'
  OBVIOUS
<1>1. Faultless /\ BucketHolds /\ Steady
  BY FaultsStay DEF Steady
<1>2. ASSUME NEW w \in Workers, Start(w) PROVE BucketHolds'
  BY <1>1, <1>2, StartConserves, ConservesKeeps
<1>3. ASSUME NEW w \in Workers, Continue(w) PROVE BucketHolds'
  <2>1. ~RetryStep(w)
    BY DEF RetryStep, RetryRead, RetrySave, MachineInv, Fits, Unretried
  <2>2. loc[w].op \notin {"retry", "exhaust"}
    BY DEF Unretried
  <2>3. Conserves \/ LazySeed(w)
    BY <1>1, <1>3, <2>1, <2>2, InitiateConserves, ProjectConserves, WebhookConserves DEF Continue
  <2> QED
    BY <1>1, <2>3, ConservesKeeps, SeedKeeps
<1>4. ASSUME NEW w \in Workers, Fault(w) PROVE FALSE
  BY <1>1, <1>4, FaultsStay
<1>5. ASSUME UNCHANGED <<refundable, refunds, pc, loc>> PROVE BucketHolds'
  <2>1. HeldFor' = HeldFor
    BY <1>5 DEF HeldFor, HeldRefunds, Live, WorkingOn
  <2>2. HeldBy' = HeldBy
    BY <1>5 DEF HeldBy, HeldRequests
  <2>3. HeldPaise' = HeldPaise
    BY <2>1, <2>2 DEF HeldPaise
  <2> QED
    BY <1>1, <1>5, <2>3 DEF BucketHolds, Untouched, Exists
<1> QED
  BY <1>2, <1>3, <1>4, <1>5 DEF Next, GatewaySettle, workerVars, orderVars, vars

LEMMA BucketInit == Init => BucketHolds
<1> SUFFICES ASSUME Init PROVE BucketHolds
  OBVIOUS
<1>1. TypeInv
  BY TypeInit
<1>2. \A k \in Keys : ~Exists(k) /\ ~Live(k)
  BY DEF Init, Exists, Absent, Live, INITIATED, PENDING, PROCESSED
<1>3. \A w \in Workers : pc[w] = "idle"
  BY DEF Init
<1>4. \A k \in Keys : HeldFor[k] = 0
  BY <1>2, <1>3 DEF HeldFor, HeldRefunds, WorkingOn
<1>5. \A w \in Workers : HeldBy[w] = 0
  BY <1>3 DEF HeldBy, HeldRequests
<1>6. SumFunctionOnSet(HeldFor, Keys) = 0 /\ SumFunctionOnSet(HeldBy, Workers) = 0
  BY <1>4, <1>5, SumOfZeros, KeysAssumption
<1>7. HeldPaise = 0
  BY <1>6 DEF HeldPaise
<1> QED
  BY <1>2, <1>7, AmountAssumption DEF Init, BucketHolds, Untouched

\* While nothing fails, what was reserved from the order's refundable bucket and not given back
\* adds up, with what is left in it, to the order's amount, for any number of keys, requests,
\* webhooks and settlements, whatever order reservations, refusals, duplicate requests,
\* rejections and compensations come in: as long as nobody retries, the gateway sends no
\* "created" event, no webhook or settlement is at a refund that another one or its request is
\* at, and no request finds the bucket empty while refunds are on their way.
THEOREM BucketIsKept ==
  Retriers = {} /\ "created" \notin EventKinds /\ Spec /\ [](Apart /\ SeedsAreSafe)
    => []BucketConserved
<1> DEFINE Inv == TypeInv /\ MachineInv /\ Unretried /\ (Faultless => BucketHolds)
           Calmly == Apart /\ SeedsAreSafe
<1>1. Init => Inv
  BY TypeInit, MachineInit, BucketInit, NoLocalsFacts DEF Init, Unretried
<1>2. ASSUME Retriers = {}, "created" \notin EventKinds PROVE Inv /\ Calmly /\ [Next]_vars => Inv'
  BY <1>2, TypeNext, MachineNext, UnretriedNext, BucketNext
<1>3. Inv => BucketConserved
  BY DEF BucketConserved, BucketHolds, Faultless, TypeInv, TypeOK
<1>4. ASSUME Retriers = {}, "created" \notin EventKinds PROVE Spec /\ []Calmly => []BucketConserved
  <2> HIDE DEF Inv, Calmly
  <2> QED
    BY <1>1, <1>2, <1>3, <1>4, PTL DEF Spec
<1> QED
  BY <1>4

-----------------------------------------------------------------------------
(* Refunds at which no initiation failed and nobody retried.               *)

\* Of a refund document r: written by a catch block, or retried; out of the initial state.
Marred(r) == r.nextRetryAt \/ r.retryCount > 0
Sent(r) == r.state \notin {"absent", INITIATED}

\* The operation a worker with locals l runs, by where it is.
Role(label, l) ==
  /\ l.own => l.op = "initiate"
  /\ label \in {"seed", "reserve", "create"} => l.op = "initiate" /\ ~l.own
  /\ label \in {"execute", "save"} => l.op = "retry" \/ l.own
  /\ label = "ledger" => l.op = "mark" \/ l.own
  /\ label \in {"project", "projectSave"} => l.op \in {"webhook", "mark", "exhaust", "retry"} \/ l.own
  /\ label = "release" => l.op = "initiate"
  /\ label = "markFailed" => l.own
  /\ label \in {"retryFail", "retryRead", "retrySave"} => l.op = "retry"
  /\ label \in {"find", "webhookRelease", "webhookLedger"} => l.op = "webhook"
  /\ label = "applyState" => l.op \in {"webhook", "mark", "exhaust"}

\* The labels at which a worker has seen its refund's document, and those of a report.
AtDocument == {"execute", "save", "ledger", "markFailed", "retryFail", "project", "projectSave",
               "applyState", "webhookRelease", "webhookLedger", "retryRead", "retrySave"}
Counted == {"execute", "save", "project", "projectSave", "retryFail"}
Compensating == {"webhookRelease", "webhookLedger"}
Reporting == {"find", "applyState"} \cup Compensating

\* What a report with locals l is about: something the gateway, which has the refunds g for
\* this key, has decided for good, or a refund.created.
Heard(l, g) ==
  /\ l.gid \in 1..Len(g)
  /\ l.next = PENDING \/ (l.next \in {PROCESSED, FAILED} /\ l.next = StateOfGatewayStatus(g[l.gid]))

\* A report that is about to be saved.
Deciding(l, r, g) ==
  /\ Sent(r)
  /\ l.before # INITIATED /\ CanTransition(l.before, l.next)
  /\ l.next = PENDING => g[l.gid] = "failed"

\* What a worker with locals l relies on where it is: of its refund's document r, and of the
\* refunds g the gateway has for that key.
Knows(label, l, r, g, ch) ==
  /\ Role(label, l)
  /\ l.op \in {"webhook", "retry", "exhaust"} => ch = "razorpay"
  /\ l.op = "mark" => ch # "razorpay"
  /\ label \in AtDocument \/ (label = "release" /\ l.own) => r.state # "absent"
  /\ l.op = "exhaust" \/ (l.op = "retry" /\ label \in Counted) => Marred(r)
  /\ label = "retrySave" => l.count > 0
  /\ l.own /\ ch = "razorpay" /\ ~Marred(r) =>
       /\ label = "execute" => r.state = INITIATED /\ Len(g) = 0
       /\ label = "save" => r.state = INITIATED /\ Len(g) > 0
  /\ label = "ledger" /\ ~Marred(r) => Sent(r)
  /\ label \in Reporting /\ l.op = "webhook" => Heard(l, g)
  /\ label = "applyState" /\ l.op = "webhook" /\ ~Marred(r) => Deciding(l, r, g)
  /\ label = "applyState" /\ l.op = "mark" => l.next = PROCESSED
  /\ label = "applyState" /\ l.op = "exhaust" => l.next = PERMANENTLY_FAILED
  /\ label \in Compensating => l.next = FAILED /\ (~Marred(r) => Sent(r))

\* A refund's document r and the gateway's refunds g agree.
Matched(r, g, ch) ==
  /\ r.state = "absent" => Len(g) = 0 /\ ~Marred(r)
  /\ ch # "razorpay" => Len(g) = 0
  /\ ~Marred(r) /\ ch # "razorpay" => r.state \in {"absent", INITIATED, PROCESSED}
  /\ ~Marred(r) /\ ch = "razorpay" =>
       /\ Len(g) <= 1
       /\ r.state = INITIATED => r.gid = 0
       /\ Sent(r) => Len(g) = 1
       /\ r.state = FAILED => g[1] = "failed"
       /\ r.state = PROCESSED => g[1] = "processed"
       /\ r.state # PERMANENTLY_FAILED

KnowsAt(w) == Knows(pc[w], loc[w], refunds[Mine(w)], gw[Mine(w)], channel)

\* What the webhooks on their way tell.
Told ==
  /\ channel # "razorpay" => inbox = {}
  /\ \A m \in inbox : m.status = "created" \/ gw[m.key][m.gid] = m.status

ReportsInv ==
  /\ \A w \in Workers : KnowsAt(w)
  /\ \A k \in Keys : Matched(refunds[k], gw[k], channel)
  /\ Told
  /\ Owners

LEMMA MarredIs == \A k \in Keys : Troubled(k) <=> Marred(refunds[k])
BY DEF Troubled, Marred

\* How a document and the gateway's refunds for a key may change under a worker at it.
Evolves(r, r1) ==
  /\ r.state # "absent" => r1.state # "absent"
  /\ Marred(r) => Marred(r1)
  /\ ~Marred(r1) /\ Sent(r) => Sent(r1)
Grows(g, g1) ==
  /\ Len(g) \in Nat /\ Len(g1) \in Nat /\ Len(g1) >= Len(g)
  /\ \A i \in 1..Len(g) : g1[i] = g[i] \/ g[i] = "created"

LEMMA HeardKept ==
  ASSUME NEW l, NEW g, NEW g1, Heard(l, g), Grows(g, g1)
  PROVE  Heard(l, g1) /\ (g[l.gid] = "failed" => g1[l.gid] = "failed")
<1>1. l.gid \in 1..Len(g) /\ l.gid \in 1..Len(g1)
  BY DEF Heard, Grows
<1>2. g1[l.gid] = g[l.gid] \/ g[l.gid] = "created"
  BY <1>1 DEF Grows
<1>3. StateOfGatewayStatus("created") = PENDING /\ PENDING \notin {PROCESSED, FAILED}
  BY DEF StateOfGatewayStatus, PENDING, PROCESSED, FAILED
<1> QED
  BY <1>1, <1>2, <1>3 DEF Heard

\* What a worker relies on, while others work.
LEMMA KnowsKept ==
  ASSUME NEW label, NEW l, NEW r, NEW r1, NEW g, NEW g1, NEW ch,
         Knows(label, l, r, g, ch), Evolves(r, r1), Grows(g, g1),
         l.own /\ label \in {"execute", "save"} /\ ch = "razorpay" /\ ~Marred(r1)
           => r1.state = r.state /\ (label = "execute" => g1 = g)
  PROVE  Knows(label, l, r1, g1, ch)
<1>1. /\ Role(label, l)
      /\ l.op \in {"webhook", "retry", "exhaust"} => ch = "razorpay"
      /\ l.op = "mark" => ch # "razorpay"
      /\ label = "retrySave" => l.count > 0
      /\ label = "applyState" /\ l.op = "mark" => l.next = PROCESSED
      /\ label = "applyState" /\ l.op = "exhaust" => l.next = PERMANENTLY_FAILED
      /\ label \in Compensating => l.next = FAILED
  BY DEF Knows
<1>2. /\ label \in AtDocument \/ (label = "release" /\ l.own) => r1.state # "absent"
      /\ l.op = "exhaust" \/ (l.op = "retry" /\ label \in Counted) => Marred(r1)
      /\ label = "ledger" /\ ~Marred(r1) => Sent(r1)
      /\ label \in Compensating /\ ~Marred(r1) => Sent(r1)
  BY DEF Knows, Evolves
<1>3. ASSUME l.own, ch = "razorpay", ~Marred(r1)
      PROVE  /\ label = "execute" => r1.state = INITIATED /\ Len(g1) = 0
             /\ label = "save" => r1.state = INITIATED /\ Len(g1) > 0
  <2>1. ~Marred(r)
    BY <1>3 DEF Evolves
  <2>2. /\ label = "execute" => r.state = INITIATED /\ Len(g) = 0
        /\ label = "save" => r.state = INITIATED /\ Len(g) > 0
    BY <1>3, <2>1 DEF Knows
  <2> QED
    BY <1>3, <2>2 DEF Grows
<1>4. label \in Reporting /\ l.op = "webhook" => Heard(l, g1)
  BY HeardKept DEF Knows
<1>5. ASSUME label = "applyState", l.op = "webhook", ~Marred(r1) PROVE Deciding(l, r1, g1)
  <2>1. Heard(l, g) /\ Deciding(l, r, g) /\ ~Marred(r)
    BY <1>5 DEF Knows, Evolves, Reporting
  <2> QED
    BY <1>5, <2>1, HeardKept DEF Deciding, Evolves
<1> QED
  BY <1>1, <1>2, <1>3, <1>4, <1>5 DEF Knows

\* A worker's step keeps what all rely on, if it moves to where it knows enough, keeps document
\* and gateway matched, and writes no document that another request is about to save.
LEMMA StepReports ==
  ASSUME TypeInv, ReportsInv, NEW w \in Workers, Alone(w), channel' = channel, KnowsAt(w)',
         \A v \in Workers : Mine(v)' \in Keys,
         \A k \in Keys : Matched(refunds'[k], gw'[k], channel),
         \A k \in Keys : Evolves(refunds[k], refunds'[k]) /\ Grows(gw[k], gw'[k]),
         \A v \in Workers : v # w /\ loc[v].own /\ pc[v] \in {"execute", "save"}
             /\ channel = "razorpay" /\ ~Marred(refunds'[Mine(v)])
           => refunds'[Mine(v)].state = refunds[Mine(v)].state /\ gw'[Mine(v)] = gw[Mine(v)],
         loc'[w].own => /\ Mine(w)' = Mine(w) /\ Exists(Mine(w))'
                        /\ loc[w].own \/ ~Exists(Mine(w)),
         channel # "razorpay" => inbox' \subseteq inbox,
         \A m \in inbox' : m \in inbox \/ m.status = "created"
  PROVE  ReportsInv'
<1>0. \A v \in Workers : Mine(v) \in Keys
  BY TypeFacts DEF Mine
<1>1. ASSUME NEW v \in Workers PROVE KnowsAt(v)'
  <2>1. CASE v = w
    BY <2>1
  <2>2. CASE v # w
    <3>1. pc'[v] = pc[v] /\ loc'[v] = loc[v]
      BY <2>2 DEF Alone
    <3>2. Knows(pc[v], loc[v], refunds[Mine(v)], gw[Mine(v)], channel)
      BY DEF ReportsInv, KnowsAt
    <3>3. Evolves(refunds[Mine(v)], refunds'[Mine(v)]) /\ Grows(gw[Mine(v)], gw'[Mine(v)])
      BY <1>0
    <3>4. loc[v].own /\ pc[v] \in {"execute", "save"} /\ channel = "razorpay"
             /\ ~Marred(refunds'[Mine(v)])
           => /\ refunds'[Mine(v)].state = refunds[Mine(v)].state
              /\ pc[v] = "execute" => gw'[Mine(v)] = gw[Mine(v)]
      BY <2>2
    <3>5. Knows(pc[v], loc[v], refunds'[Mine(v)], gw'[Mine(v)], channel)
      BY <3>2, <3>3, <3>4, KnowsKept
    <3> QED
      BY <3>1, <3>5 DEF KnowsAt, Mine
  <2> QED
    BY <2>1, <2>2
<1>2. Told'
  <2>1. channel' # "razorpay" => inbox' = {}
    BY DEF ReportsInv, Told
  <2>2. ASSUME NEW m \in inbox', m.status # "created" PROVE gw'[m.key][m.gid] = m.status
    <3>1. m \in inbox /\ channel = "razorpay" /\ gw[m.key][m.gid] = m.status
      BY <2>2 DEF ReportsInv, Told
    <3>2. m.gid \in 1..Len(gw[m.key]) /\ m.key \in Keys
      BY <3>1 DEF TypeInv, GatewayIds, TypeOK
    <3> QED
      BY <2>2, <3>1, <3>2 DEF Grows
  <2> QED
    BY <2>1, <2>2 DEF Told
<1>3. Owners'
  <2>1. \A k \in Keys : Exists(k) => Exists(k)'
    BY DEF Evolves, Exists
  <2>2. ASSUME NEW v \in Workers, loc'[v].own
        PROVE  /\ loc'[v].key = loc[v].key /\ Exists(loc[v].key)'
               /\ loc[v].own \/ (v = w /\ ~Exists(loc[v].key))
    BY <1>0, <2>1, <2>2 DEF Alone, ReportsInv, Owners, Mine
  <2>3. ASSUME NEW v \in Workers, loc'[v].own, NEW u \in Workers, loc'[u].own, loc'[u].key = loc'[v].key
        PROVE  u = v
    BY <2>2, <2>3 DEF ReportsInv, Owners
  <2> QED
    BY <2>2, <2>3 DEF Owners, Exists
<1> QED
  BY <1>1, <1>2, <1>3 DEF ReportsInv

LEMMA Unchanging ==
  ASSUME TypeInv
  PROVE  \A k \in Keys : Evolves(refunds[k], refunds[k]) /\ Grows(gw[k], gw[k])
BY DEF Evolves, Grows, TypeInv, TypeOK

\* A step that writes no document and does not reach the gateway.
LEMMA QuietReports ==
  ASSUME TypeInv, ReportsInv, NEW w \in Workers, Alone(w), UNCHANGED <<channel, refunds, gw>>,
         inbox' \subseteq inbox, KnowsAt(w)', \A v \in Workers : Mine(v)' \in Keys,
         loc'[w].own => Mine(w)' = Mine(w) /\ loc[w].own
  PROVE  ReportsInv'
<1>1. \A k \in Keys : Matched(refunds'[k], gw'[k], channel)
  BY DEF ReportsInv
<1>2. \A k \in Keys : Evolves(refunds[k], refunds'[k]) /\ Grows(gw[k], gw'[k])
  BY Unchanging
<1>3. loc'[w].own => /\ Mine(w)' = Mine(w) /\ Exists(Mine(w))'
                     /\ loc[w].own \/ ~Exists(Mine(w))
  BY DEF ReportsInv, Owners, Mine, Exists
<1>4. \A v \in Workers : v # w /\ loc[v].own /\ pc[v] \in {"execute", "save"}
             /\ channel = "razorpay" /\ ~Marred(refunds'[Mine(v)])
           => refunds'[Mine(v)].state = refunds[Mine(v)].state /\ gw'[Mine(v)] = gw[Mine(v)]
  OBVIOUS
<1>5. \A m \in inbox' : m \in inbox \/ m.status = "created"
  OBVIOUS
<1>6. channel' = channel /\ (channel # "razorpay" => inbox' \subseteq inbox)
  OBVIOUS
<1> QED
  BY <1>1, <1>2, <1>3, <1>4, <1>5, <1>6, StepReports

LEMMA MinesNext ==
  ASSUME TypeInv'
  PROVE  \A v \in Workers : Mine(v)' \in Keys
BY DEF TypeInv, TypeOK, Locals, Mine

\* The knowledge of a worker that writes nothing, wherever it goes with the same refund.
LEMMA QuietMoves ==
  ASSUME TypeInv, TypeInv', ReportsInv, NEW w \in Workers, UNCHANGED <<channel, refunds, gw, inbox>>
  PROVE  /\ Finish(w) => ReportsInv'
         /\ \A label : /\ GoTo(w, label)
                       /\ Knows(label, loc[w], refunds[Mine(w)], gw[Mine(w)], channel)
                       => ReportsInv'
         /\ \A label, l : /\ GoWith(w, label, l)
                          /\ Knows(label, l, refunds[Mine(w)], gw[Mine(w)], channel)
                          /\ l.key = Mine(w) /\ (l.own => loc[w].own)
                          => ReportsInv'
<1>0. WorkersOK /\ inbox' \subseteq inbox /\ \A v \in Workers : Mine(v)' \in Keys
  BY TypeFacts, MinesNext
<1>1. ASSUME Finish(w) PROVE ReportsInv'
  <2>1. Alone(w) /\ pc'[w] = "idle" /\ loc'[w] = NoLocals
    BY <1>0, <1>1, MovesAlone
  <2>2. KnowsAt(w)'
    BY <2>1, NoLocalsFacts DEF KnowsAt, Knows, Role, AtDocument, Counted, Reporting, Compensating
  <2>3. ~loc'[w].own
    BY <2>1, NoLocalsFacts
  <2> QED
    BY <1>0, <2>1, <2>2, <2>3, QuietReports
<1>2. ASSUME NEW label, GoTo(w, label), Knows(label, loc[w], refunds[Mine(w)], gw[Mine(w)], channel)
      PROVE  ReportsInv'
  <2>1. Alone(w) /\ pc'[w] = label /\ loc'[w] = loc[w]
    BY <1>0, <1>2, MovesAlone
  <2>2. KnowsAt(w)' /\ Mine(w)' = Mine(w)
    BY <1>2, <2>1 DEF KnowsAt, Mine
  <2>3. loc'[w].own => loc[w].own
    BY <2>1
  <2> QED
    BY <1>0, <2>1, <2>2, <2>3, QuietReports
<1>3. ASSUME NEW label, NEW l, GoWith(w, label, l),
             Knows(label, l, refunds[Mine(w)], gw[Mine(w)], channel),
             l.key = Mine(w), l.own => loc[w].own
      PROVE  ReportsInv'
  <2>1. Alone(w) /\ pc'[w] = label /\ loc'[w] = l
    BY <1>0, <1>3, MovesAlone
  <2>2. KnowsAt(w)' /\ Mine(w)' = Mine(w)
    BY <1>3, <2>1 DEF KnowsAt, Mine
  <2>3. loc'[w].own => loc[w].own
    BY <1>3, <2>1
  <2> QED
    BY <1>0, <2>1, <2>2, <2>3, QuietReports
<1> QED
  BY <1>1, <1>2, <1>3

Throwing == {"create", "execute", "save", "ledger", "project", "projectSave"}

\* A catch block is reached with what it relies on.
LEMMA ThrowReports ==
  ASSUME TypeInv, TypeInv', ReportsInv, NEW w \in Workers, Throw(w), pc[w] \in Throwing,
         UNCHANGED <<channel, refunds, gw, inbox>>
  PROVE  ReportsInv'
<1>1. Knows(pc[w], loc[w], refunds[Mine(w)], gw[Mine(w)], channel)
  BY DEF ReportsInv, KnowsAt
<1>2. CASE Finish(w)
  BY <1>2, QuietMoves
<1>3. CASE loc[w].op = "initiate" /\ GoTo(w, "release")
  <2>1. loc[w].own => pc[w] \in AtDocument
    BY <1>1 DEF Knows, Role, Throwing, AtDocument
  <2>2. Knows("release", loc[w], refunds[Mine(w)], gw[Mine(w)], channel)
    BY <1>1, <1>3, <2>1 DEF Knows, Role, AtDocument, Counted, Reporting, Compensating
  <2> QED
    BY <1>3, <2>2, QuietMoves
<1>4. CASE loc[w].op = "retry" /\ GoTo(w, "retryFail")
  <2>1. ~loc[w].own /\ pc[w] \in AtDocument /\ pc[w] \in Counted
    BY <1>1, <1>4 DEF Knows, Role, Throwing, AtDocument, Counted
  <2>2. Knows("retryFail", loc[w], refunds[Mine(w)], gw[Mine(w)], channel)
    BY <1>1, <1>4, <2>1 DEF Knows, Role, AtDocument, Counted, Reporting, Compensating
  <2> QED
    BY <1>4, <2>2, QuietMoves
<1> QED
  BY <1>2, <1>3, <1>4 DEF Throw

\* The steps of a request that write no document.
LEMMA RequestReports ==
  ASSUME TypeInv, TypeInv', ReportsInv, NEW w \in Workers,
         LazySeed(w) \/ Reserve(w) \/ RecordRefund(w) \/ ReleaseAfterFailure(w)
  PROVE  ReportsInv'
<1>1. Knows(pc[w], loc[w], refunds[Mine(w)], gw[Mine(w)], channel)
  BY DEF ReportsInv, KnowsAt
<1>2. UNCHANGED <<channel, refunds, gw, inbox>>
  BY DEF LazySeed, Reserve, RecordRefund, ReleaseAfterFailure, gatewayVars, orderVars
<1>3. CASE Finish(w)
  BY <1>2, <1>3, QuietMoves
<1>4. ASSUME NEW label, GoTo(w, label),
             \/ pc[w] = "seed" /\ label = "reserve"
             \/ pc[w] = "reserve" /\ label = "create"
             \/ pc[w] = "ledger" /\ label = "project"
             \/ pc[w] = "release" /\ loc[w].own /\ label = "markFailed"
      PROVE  ReportsInv'
  <2>1. Knows(label, loc[w], refunds[Mine(w)], gw[Mine(w)], channel)
    BY <1>1, <1>4 DEF Knows, Role, AtDocument, Counted, Reporting, Compensating
  <2> QED
    BY <1>2, <1>4, <2>1, QuietMoves
<1> QED
  BY <1>3, <1>4 DEF LazySeed, Reserve, RecordRefund, ReleaseAfterFailure

\* Projections.
LEMMA ProjectReports ==
  ASSUME TypeInv, TypeInv', ReportsInv, NEW w \in Workers, ProjectStep(w)
  PROVE  ReportsInv'
<1>1. Knows(pc[w], loc[w], refunds[Mine(w)], gw[Mine(w)], channel)
  BY DEF ReportsInv, KnowsAt
<1>2. UNCHANGED <<channel, refunds, gw, inbox>>
  BY DEF ProjectStep, ProjectRead, ProjectSave, gatewayVars
<1>3. CASE Finish(w)
  BY <1>2, <1>3, QuietMoves
<1>4. CASE Throw(w) /\ pc[w] = "projectSave"
  BY <1>2, <1>4, ThrowReports DEF Throwing
<1>5. ASSUME GoWith(w, "projectSave", [loc[w] EXCEPT !.new = ShownEntries]), pc[w] = "project"
      PROVE  ReportsInv'
  <2>1. PICK l : l = [loc[w] EXCEPT !.new = ShownEntries]
    OBVIOUS
  <2>2. l.key = loc[w].key /\ l.own = loc[w].own /\ l.op = loc[w].op
    BY <2>1, TypeFacts DEF Locals
  <2>3. Knows("projectSave", l, refunds[Mine(w)], gw[Mine(w)], channel)
    BY <1>1, <1>5, <2>2 DEF Knows, Role, AtDocument, Counted, Reporting, Compensating
  <2>4. GoWith(w, "projectSave", l) /\ l.key = Mine(w) /\ (l.own => loc[w].own)
    BY <1>5, <2>1, <2>2 DEF Mine
  <2> QED
    BY <1>2, <2>3, <2>4, QuietMoves
<1> QED
  BY <1>3, <1>4, <1>5 DEF ProjectStep, ProjectRead, ProjectSave

\* A report that finds a refund it would advance.
LEMMA FindReports ==
  ASSUME TypeInv, TypeInv', ReportsInv, NEW w \in Workers, FindRefund(w)
  PROVE  ReportsInv'
<1>1. Knows(pc[w], loc[w], refunds[Mine(w)], gw[Mine(w)], channel)
  BY DEF ReportsInv, KnowsAt
<1>2. UNCHANGED <<channel, refunds, gw, inbox>>
  BY DEF FindRefund, orderVars, gatewayVars
<1>3. CASE Finish(w)
  BY <1>2, <1>3, QuietMoves
<1>4. ASSUME GoWith(w, "applyState", [loc[w] EXCEPT !.before = refunds[loc[w].key].state]),
             pc[w] = "find", Exists(loc[w].key), refunds[loc[w].key].gid = loc[w].gid,
             ShouldUpdateFromWebhook(refunds[loc[w].key].state, loc[w].next)
      PROVE  ReportsInv'
  <2>1. PICK l : l = [loc[w] EXCEPT !.before = refunds[loc[w].key].state]
    OBVIOUS
  <2>2. /\ l.key = loc[w].key /\ l.own = loc[w].own /\ l.op = loc[w].op /\ l.gid = loc[w].gid
        /\ l.next = loc[w].next /\ l.before = refunds[loc[w].key].state
    BY <2>1, TypeFacts DEF Locals
  <2> DEFINE r == refunds[Mine(w)]
             g == gw[Mine(w)]
  <2>3. /\ loc[w].op = "webhook" /\ ~loc[w].own /\ channel = "razorpay" /\ Heard(l, g)
        /\ r.state # "absent" /\ Matched(r, g, channel) /\ r.gid = l.gid /\ l.before = r.state
        /\ CanTransition(r.state, l.next)
    BY <1>1, <1>4, <2>2, TypeFacts
    DEF Knows, Role, Reporting, Heard, ReportsInv, Exists, Mine, ShouldUpdateFromWebhook
  <2>4. ASSUME ~Marred(r) PROVE Deciding(l, r, g)
    <3>1. l.gid \in 1..Len(g) /\ l.gid # 0
      BY <2>3 DEF Heard
    <3>2. Sent(r) /\ r.state # INITIATED
      BY <2>3, <2>4, <3>1 DEF Matched, Sent
    <3>3. l.gid = 1
      BY <2>3, <2>4, <3>1, <3>2 DEF Matched
    <3>4. l.next = PENDING => r.state = FAILED
      BY <2>3, <3>2 DEF CanTransition, ValidTransitions, INITIATED, PENDING, PROCESSED, FAILED,
                        PERMANENTLY_FAILED
    <3> QED
      BY <2>3, <2>4, <3>2, <3>3, <3>4 DEF Deciding, Matched
  <2>5. Knows("applyState", l, r, g, channel)
    BY <2>2, <2>3, <2>4 DEF Knows, Role, AtDocument, Counted, Reporting, Compensating
  <2> QED
    BY <1>2, <1>4, <2>1, <2>2, <2>5, QuietMoves DEF Mine
<1> QED
  BY <1>3, <1>4 DEF FindRefund

LEMMA CreditReports ==
  ASSUME TypeInv, TypeInv', ReportsInv, NEW w \in Workers, WebhookRelease(w) \/ RecordAdjustment(w)
  PROVE  ReportsInv'
<1>1. Knows(pc[w], loc[w], refunds[Mine(w)], gw[Mine(w)], channel)
  BY DEF ReportsInv, KnowsAt
<1>2. UNCHANGED <<channel, refunds, gw, inbox>>
  BY DEF WebhookRelease, RecordAdjustment, orderVars, gatewayVars
<1>3. ASSUME NEW label, GoTo(w, label),
             \/ pc[w] = "webhookRelease" /\ label = "webhookLedger"
             \/ pc[w] = "webhookLedger" /\ label = "project"
      PROVE  ReportsInv'
  <2>1. Knows(label, loc[w], refunds[Mine(w)], gw[Mine(w)], channel)
    BY <1>1, <1>3 DEF Knows, Role, AtDocument, Counted, Reporting, Compensating
  <2> QED
    BY <1>2, <1>3, <2>1, QuietMoves
<1> QED
  BY <1>3 DEF WebhookRelease, RecordAdjustment

LEMMA RetryReadReports ==
  ASSUME TypeInv, TypeInv', ReportsInv, MaxRetries > 0, NEW w \in Workers, RetryRead(w)
  PROVE  ReportsInv'
<1>1. Knows(pc[w], loc[w], refunds[Mine(w)], gw[Mine(w)], channel)
  BY DEF ReportsInv, KnowsAt
<1>2. UNCHANGED <<channel, refunds, gw, inbox>>
  BY DEF RetryRead, orderVars, gatewayVars
<1>a. refunds[Mine(w)].retryCount \in Nat /\ MaxRetries \in Nat
  BY TypeFacts, BoundAssumption DEF Mine, RefundDoc
<1>3. CASE Finish(w)
  BY <1>2, <1>3, QuietMoves
<1>4. ASSUME GoWith(w, "applyState", [loc[w] EXCEPT !.op = "exhaust", !.before = FAILED,
                                                    !.next = PERMANENTLY_FAILED]),
             pc[w] = "retryRead", refunds[loc[w].key].retryCount >= MaxRetries
      PROVE  ReportsInv'
  <2>1. PICK l : l = [loc[w] EXCEPT !.op = "exhaust", !.before = FAILED, !.next = PERMANENTLY_FAILED]
    OBVIOUS
  <2>2. l.key = loc[w].key /\ l.own = loc[w].own /\ l.op = "exhaust" /\ l.next = PERMANENTLY_FAILED
    BY <2>1, TypeFacts DEF Locals
  <2>3. Marred(refunds[Mine(w)])
    BY <1>a, <1>4 DEF Marred, Mine
  <2>4. ~loc[w].own /\ channel = "razorpay" /\ refunds[Mine(w)].state # "absent"
    BY <1>1, <1>4 DEF Knows, Role, AtDocument
  <2>5. Knows("applyState", l, refunds[Mine(w)], gw[Mine(w)], channel)
    BY <2>2, <2>3, <2>4 DEF Knows, Role, AtDocument, Counted, Reporting, Compensating
  <2> QED
    BY <1>2, <1>4, <2>1, <2>2, <2>5, QuietMoves DEF Mine
<1>5. ASSUME GoWith(w, "retrySave", [loc[w] EXCEPT !.count = refunds[loc[w].key].retryCount + 1]),
             pc[w] = "retryRead"
      PROVE  ReportsInv'
  <2>1. PICK l : l = [loc[w] EXCEPT !.count = refunds[loc[w].key].retryCount + 1]
    OBVIOUS
  <2>2. /\ l.key = loc[w].key /\ l.own = loc[w].own /\ l.op = loc[w].op
        /\ l.count = refunds[loc[w].key].retryCount + 1
    BY <2>1, TypeFacts DEF Locals
  <2>3. l.count > 0
    BY <1>a, <2>2 DEF Mine
  <2>4. Knows("retrySave", l, refunds[Mine(w)], gw[Mine(w)], channel)
    BY <1>1, <1>5, <2>2, <2>3 DEF Knows, Role, AtDocument, Counted, Reporting, Compensating
  <2> QED
    BY <1>2, <1>5, <2>1, <2>2, <2>4, QuietMoves DEF Mine
<1> QED
  BY <1>3, <1>4, <1>5 DEF RetryRead

\* Who starts brings what it was sent, or has just read.
LEMMA StartReports ==
  ASSUME TypeInv, TypeInv', ReportsInv, NEW w \in Workers, Start(w)
  PROVE  ReportsInv'
<1> USE DEF Knows, Role, AtDocument, Counted, Reporting, Compensating
<1>0. WorkersOK /\ \A v \in Workers : Mine(v)' \in Keys
  BY TypeFacts, MinesNext
<1>a. NoLocals \in Locals
  BY NoLocalsType
<1>1. UNCHANGED <<channel, refunds, gw>> /\ inbox' \subseteq inbox
  BY DEF Start, StartInitiate, StartWebhook, StartReconcile, StartRetryJob, StartRetryAdmin, StartMark,
         orderVars, gatewayVars
<1>2. ASSUME NEW label, NEW l, Begin(w, label, l), ~l.own,
             Knows(label, l, refunds[l.key], gw[l.key], channel)
      PROVE  ReportsInv'
  <2>1. Alone(w) /\ pc'[w] = label /\ loc'[w] = l
    BY <1>0, <1>2, MovesAlone
  <2>2. KnowsAt(w)'
    BY <1>1, <1>2, <2>1 DEF KnowsAt, Mine
  <2> QED
    BY <1>0, <1>1, <1>2, <2>1, <2>2, QuietReports
<1>3. ASSUME NEW k \in Keys, StartInitiate(w, k) PROVE ReportsInv'
  <2>1. PICK l : l = [NoLocals EXCEPT !.op = "initiate", !.key = k]
    OBVIOUS
  <2>2. l.op = "initiate" /\ ~l.own /\ Begin(w, "seed", l)
    BY <1>a, <1>3, <2>1, NoLocalsFacts DEF StartInitiate, Locals
  <2>3. Knows("seed", l, refunds[l.key], gw[l.key], channel)
    BY <2>2
  <2> QED
    BY <1>2, <2>2, <2>3
<1>4. ASSUME NEW m \in inbox, StartWebhook(w, m) PROVE ReportsInv'
  <2>1. PICK l : l = [NoLocals EXCEPT !.op = "webhook", !.key = m.key, !.gid = m.gid,
                                      !.next = StateOfGatewayStatus(m.status)]
    OBVIOUS
  <2>2. /\ l.op = "webhook" /\ l.key = m.key /\ l.gid = m.gid /\ l.next = StateOfGatewayStatus(m.status)
        /\ ~l.own /\ Begin(w, "find", l)
    BY <1>a, <1>4, <2>1, NoLocalsFacts DEF StartWebhook, Locals
  <2>3. m.status \in GatewayStatuses /\ channel = "razorpay" /\ m.gid \in 1..Len(gw[m.key])
    BY DEF TypeInv, TypeOK, GatewayIds, ReportsInv, Told
  <2>4. m.status = "created" \/ gw[m.key][m.gid] = m.status
    BY DEF ReportsInv, Told
  <2>5. Heard(l, gw[l.key])
    BY <2>2, <2>3, <2>4 DEF Heard, GatewayStatuses, StateOfGatewayStatus
  <2>6. Knows("find", l, refunds[l.key], gw[l.key], channel)
    BY <2>2, <2>3, <2>5
  <2> QED
    BY <1>2, <2>2, <2>6
<1>5. ASSUME NEW k \in Keys, StartReconcile(w, k) PROVE ReportsInv'
  <2>1. PICK l : l = [NoLocals EXCEPT !.op = "webhook", !.key = k, !.gid = refunds[k].gid,
                                      !.next = StateOfGatewayStatus(gw[k][refunds[k].gid])]
    OBVIOUS
  <2>2. /\ l.op = "webhook" /\ l.key = k /\ l.gid = refunds[k].gid /\ ~l.own
        /\ l.next = StateOfGatewayStatus(gw[k][refunds[k].gid])
        /\ Begin(w, "find", l) /\ channel = "razorpay"
    BY <1>a, <1>5, <2>1, NoLocalsFacts DEF StartReconcile, Locals
  <2>3. refunds[k].gid \in 1..Len(gw[k]) /\ gw[k] \in Seq(GatewayStatuses)
    BY <1>5 DEF StartReconcile, TypeInv, TypeOK, GatewayIds, RefundDoc
  <2>4. gw[k][refunds[k].gid] \in GatewayStatuses
    BY <2>3
  <2>5. Heard(l, gw[l.key])
    BY <2>2, <2>3, <2>4 DEF Heard, GatewayStatuses, StateOfGatewayStatus
  <2>6. Knows("find", l, refunds[l.key], gw[l.key], channel)
    BY <2>2, <2>5
  <2> QED
    BY <1>2, <2>2, <2>6
<1>6. ASSUME NEW k \in Keys, StartRetryJob(w, k) \/ StartRetryAdmin(w, k) PROVE ReportsInv'
  <2>1. PICK l : l = [NoLocals EXCEPT !.op = "retry", !.key = k]
    OBVIOUS
  <2>2. /\ l.op = "retry" /\ l.key = k /\ ~l.own /\ Begin(w, "retryRead", l)
        /\ channel = "razorpay" /\ refunds[k].state # "absent"
    BY <1>a, <1>6, <2>1, NoLocalsFacts DEF StartRetryJob, StartRetryAdmin, Locals, Exists, FAILED
  <2>3. Knows("retryRead", l, refunds[l.key], gw[l.key], channel)
    BY <2>2
  <2> QED
    BY <1>2, <2>2, <2>3
<1>7. ASSUME NEW k \in Keys, StartMark(w, k) PROVE ReportsInv'
  <2>1. PICK l : l = [NoLocals EXCEPT !.op = "mark", !.key = k,
                                      !.before = refunds[k].state, !.next = PROCESSED]
    OBVIOUS
  <2>2. /\ l.op = "mark" /\ l.key = k /\ l.next = PROCESSED /\ ~l.own
        /\ Begin(w, "applyState", l) /\ channel # "razorpay" /\ refunds[k].state # "absent"
    BY <1>a, <1>7, <2>1, NoLocalsFacts DEF StartMark, Locals, Exists
  <2>3. Knows("applyState", l, refunds[l.key], gw[l.key], channel)
    BY <2>2
  <2> QED
    BY <1>2, <2>2, <2>3
<1> QED
  BY <1>3, <1>4, <1>5, <1>6, <1>7 DEF Start

\* A worker that writes its refund's document, when no request is about to.
LEMMA WriteReports ==
  ASSUME TypeInv, TypeInv', ReportsInv, NEW w \in Workers, Alone(w), UNCHANGED <<channel, gw, inbox>>,
         KnowsAt(w)', \A k \in Keys : k # Mine(w) => refunds'[k] = refunds[k],
         Evolves(refunds[Mine(w)], refunds'[Mine(w)]),
         Matched(refunds'[Mine(w)], gw[Mine(w)], channel),
         \/ channel # "razorpay" \/ Marred(refunds'[Mine(w)]) \/ Sent(refunds[Mine(w)])
         \/ loc[w].own \/ ~Exists(Mine(w)),
         loc'[w].own => /\ Mine(w)' = Mine(w) /\ Exists(Mine(w))'
                        /\ loc[w].own \/ ~Exists(Mine(w))
  PROVE  ReportsInv'
<1>0. (\A v \in Workers : Mine(v) \in Keys) /\ (\A v \in Workers : Mine(v)' \in Keys)
  BY TypeFacts, MinesNext DEF Mine
<1>1. \A k \in Keys : Evolves(refunds[k], refunds'[k]) /\ Grows(gw[k], gw'[k])
  BY Unchanging
<1>2. \A k \in Keys : Matched(refunds'[k], gw'[k], channel)
  BY DEF ReportsInv
<1>3. ASSUME NEW v \in Workers, v # w, loc[v].own, pc[v] \in {"execute", "save"}, channel = "razorpay",
             ~Marred(refunds'[Mine(v)])
      PROVE  refunds'[Mine(v)].state = refunds[Mine(v)].state /\ gw'[Mine(v)] = gw[Mine(v)]
  <2>1. CASE Mine(v) # Mine(w)
    BY <1>0, <2>1
  <2>2. CASE Mine(v) = Mine(w)
    <3>1. ~Marred(refunds[Mine(v)])
      BY <1>0, <1>1, <1>3 DEF Evolves
    <3>2. refunds[Mine(v)].state = INITIATED
      BY <1>3, <3>1 DEF ReportsInv, KnowsAt, Knows
    <3>3. Exists(Mine(v)) /\ ~loc[w].own
      BY <1>3, <2>2 DEF ReportsInv, Owners, Mine
    <3> QED
      BY <1>3, <2>2, <3>2, <3>3 DEF Sent
  <2> QED
    BY <2>1, <2>2
<1>4. channel' = channel /\ inbox' \subseteq inbox /\ \A m \in inbox' : m \in inbox \/ m.status = "created"
  OBVIOUS
<1> QED
  BY <1>0, <1>1, <1>2, <1>3, <1>4, StepReports

LEMMA CreateReports ==
  ASSUME TypeInv, TypeInv', ReportsInv, NEW w \in Workers, CreateRefund(w)
  PROVE  ReportsInv' /\ LegalStep(Mine(w))
<1>1. Knows("create", loc[w], refunds[Mine(w)], gw[Mine(w)], channel) /\ pc[w] = "create"
  BY DEF ReportsInv, KnowsAt, CreateRefund
<1>2. UNCHANGED <<channel, gw, inbox>> /\ Mine(w) \in Keys /\ refunds \in [Keys -> RefundDoc]
  BY TypeFacts DEF CreateRefund, orderVars, gatewayVars, Mine
<1>3. CASE Throw(w) /\ refunds' = refunds
  BY <1>1, <1>2, <1>3, ThrowReports DEF Throwing, LegalStep
<1>4. CASE /\ ~DuplicateKeyError(loc[w].key)
           /\ refunds' = [refunds EXCEPT ![loc[w].key] = [Absent EXCEPT !.state = INITIATED]]
           /\ GoWith(w, "execute", [loc[w] EXCEPT !.own = TRUE])
  <2>1. PICK l : l = [loc[w] EXCEPT !.own = TRUE]
    OBVIOUS
  <2>2. l.key = loc[w].key /\ l.own /\ l.op = "initiate" /\ loc[w].op = "initiate"
    BY <1>1, <2>1, TypeFacts DEF Locals, Knows, Role
  <2>3. Alone(w) /\ pc'[w] = "execute" /\ loc'[w] = l
    BY <1>4, <2>1, TypeFacts, MovesAlone
  <2>4. ~Exists(Mine(w)) /\ refunds[Mine(w)].state = "absent"
    BY <1>4 DEF DuplicateKeyError, Exists, Mine
  <2>5. PICK r : r = refunds'[Mine(w)]
    OBVIOUS
  <2>6. r.state = INITIATED /\ r.gid = 0 /\ ~Marred(r) /\ INITIATED # "absent"
    BY <1>2, <1>4, <2>5 DEF Absent, Marred, Mine, INITIATED
  <2>7. Len(gw[Mine(w)]) = 0 /\ ~Marred(refunds[Mine(w)])
    BY <1>2, <2>4 DEF ReportsInv, Matched
  <2>8. Matched(r, gw[Mine(w)], channel)
    BY <2>6, <2>7 DEF Matched, Sent, INITIATED, PENDING, PROCESSED, FAILED, PERMANENTLY_FAILED
  <2>9. Evolves(refunds[Mine(w)], r)
    BY <2>4, <2>6, <2>7 DEF Evolves, Sent
  <2>10. Knows("execute", l, r, gw[Mine(w)], channel)
    BY <2>2, <2>6, <2>7 DEF Knows, Role, AtDocument, Counted, Reporting, Compensating
  <2>11. KnowsAt(w)' /\ Mine(w)' = Mine(w)
    BY <1>2, <2>2, <2>3, <2>5, <2>10 DEF KnowsAt, Mine
  <2>12. Exists(Mine(w))' /\ LegalStep(Mine(w))
    BY <2>4, <2>5, <2>6, <2>11 DEF Exists, LegalStep
  <2>13. \A k \in Keys : k # Mine(w) => refunds'[k] = refunds[k]
    BY <1>2, <1>4 DEF Mine
  <2>14. loc'[w].own => /\ Mine(w)' = Mine(w) /\ Exists(Mine(w))'
                        /\ loc[w].own \/ ~Exists(Mine(w))
    BY <2>4, <2>11, <2>12
  <2> QED
    BY <1>2, <2>3, <2>4, <2>5, <2>8, <2>9, <2>11, <2>12, <2>13, <2>14, WriteReports
<1> QED
  BY <1>3, <1>4 DEF CreateRefund

LEMMA SaveReports ==
  ASSUME TypeInv, TypeInv', ReportsInv, NEW w \in Workers, SaveAccepted(w)
  PROVE  ReportsInv' /\ (~Marred(refunds'[Mine(w)]) => LegalStep(Mine(w)))
<1>1. Knows("save", loc[w], refunds[Mine(w)], gw[Mine(w)], channel) /\ pc[w] = "save"
  BY DEF ReportsInv, KnowsAt, SaveAccepted
<1>2. /\ UNCHANGED <<channel, gw, inbox>> /\ Mine(w) \in Keys /\ refunds \in [Keys -> RefundDoc]
      /\ Matched(refunds[Mine(w)], gw[Mine(w)], channel) /\ refunds[Mine(w)].state # "absent"
  BY <1>1, TypeFacts DEF SaveAccepted, orderVars, gatewayVars, Mine, ReportsInv, Knows, AtDocument
<1>3. PICK l : l = [loc[w] EXCEPT !.dirty = FALSE]
  OBVIOUS
<1>4. l.key = loc[w].key /\ l.own = loc[w].own /\ l.op = loc[w].op /\ loc'[w] = l
  BY <1>3, TypeFacts DEF Locals, SaveAccepted, WorkersOK
<1>5. Alone(w) /\ Mine(w)' = Mine(w)
  BY <1>4, TypeFacts DEF SaveAccepted, Alone, WorkersOK, Mine
<1>6. PICK r : r = refunds'[Mine(w)]
  OBVIOUS
<1>7. /\ \A k \in Keys : k # Mine(w) => refunds'[k] = refunds[k]
      /\ r.nextRetryAt = refunds[Mine(w)].nextRetryAt /\ r.retryCount = refunds[Mine(w)].retryCount
  BY <1>2, <1>6 DEF SaveAccepted, Mine, RefundDoc
<1>8. Marred(r) <=> Marred(refunds[Mine(w)])
  BY <1>7 DEF Marred
<1>9. loc'[w].own => /\ Mine(w)' = Mine(w) /\ Exists(Mine(w))'
                     /\ loc[w].own \/ ~Exists(Mine(w))
  <2>1. r.state # "absent"
    BY <1>2, <1>6 DEF SaveAccepted, Mine, RefundDoc, PENDING
  <2> QED
    BY <1>4, <1>5, <1>6, <2>1 DEF Exists
<1>10. CASE loc[w].op = "initiate" /\ channel = "razorpay"
  <2>1. r.state = PENDING /\ pc'[w] = "ledger"
    BY <1>2, <1>6, <1>10, TypeFacts DEF SaveAccepted, Mine, RefundDoc, WorkersOK
  <2>2. loc[w].own
    BY <1>1, <1>10 DEF Knows, Role
  <2>3. ~Marred(r) => refunds[Mine(w)].state = INITIATED /\ Len(gw[Mine(w)]) > 0
    BY <1>1, <1>8, <1>10, <2>2 DEF Knows
  <2>4. Len(gw[Mine(w)]) \in Nat
    BY <1>2 DEF TypeInv, TypeOK
  <2>5. Matched(r, gw[Mine(w)], channel)
    <3>1. r.state \notin {"absent", INITIATED, PROCESSED, FAILED, PERMANENTLY_FAILED}
      BY <2>1 DEF INITIATED, PENDING, PROCESSED, FAILED, PERMANENTLY_FAILED
    <3>2. PICK g : g = gw[Mine(w)]
      OBVIOUS
    <3>3. g \in Seq(GatewayStatuses)
      BY <1>2, <3>2 DEF TypeInv, TypeOK
    <3>4. ~Marred(r) => Len(g) <= 1 /\ Len(g) > 0
      BY <1>2, <1>8, <1>10, <2>3, <3>2 DEF Matched
    <3>5. CASE Marred(r)
      BY <1>10, <3>1, <3>2, <3>5 DEF Matched
    <3>6. CASE ~Marred(r)
      <4>1. Len(g) \in Nat
        BY <3>3
      <4>2. Len(g) <= 1 /\ Len(g) > 0
        BY <3>4, <3>6
      <4>3. Len(g) = 1
        <5>1. PICK n : n = Len(g)
          OBVIOUS
        <5>2. n \in Nat /\ n <= 1 /\ n > 0
          BY <4>1, <4>2, <5>1
        <5>3. n = 1
          BY <5>2
        <5> QED
          BY <5>1, <5>3
      <4> QED
        BY <1>10, <3>1, <3>2, <4>2, <4>3 DEF Matched
    <3> QED
      BY <3>5, <3>6
  <2>6. Sent(r) /\ Evolves(refunds[Mine(w)], r)
    BY <1>8, <2>1 DEF Evolves, Sent, PENDING, INITIATED
  <2>7. Knows("ledger", l, r, gw[Mine(w)], channel)
    BY <1>1, <1>4, <1>10, <2>2, <2>6 DEF Knows, Role, AtDocument, Counted, Reporting, Compensating, Sent
  <2>8. KnowsAt(w)'
    BY <1>2, <1>4, <1>5, <1>6, <2>1, <2>7 DEF KnowsAt
  <2>9. ~Marred(r) => LegalStep(Mine(w))
    BY <1>6, <2>1, <2>3 DEF LegalStep, CanTransition, ValidTransitions
  <2>10. ReportsInv'
    BY <1>2, <1>5, <1>6, <1>7, <1>9, <2>2, <2>5, <2>6, <2>8, WriteReports
  <2> QED
    BY <1>6, <2>9, <2>10
<1>11. CASE loc[w].op = "retry" \/ channel = "bank_transfer"
  <2>1. r.state = refunds[Mine(w)].state /\ pc'[w] = "project"
    BY <1>1, <1>2, <1>6, <1>11, TypeFacts DEF SaveAccepted, Mine, RefundDoc, WorkersOK
  <2>2. channel # "razorpay" \/ Marred(r)
    BY <1>1, <1>8, <1>11 DEF Knows, Counted
  <2>3. Matched(r, gw[Mine(w)], channel)
    BY <1>2, <1>8, <2>1, <2>2 DEF Matched
  <2>4. Evolves(refunds[Mine(w)], r)
    BY <1>8, <2>1 DEF Evolves, Sent
  <2>5. Knows("project", l, r, gw[Mine(w)], channel)
    BY <1>1, <1>2, <1>4, <1>8, <2>1 DEF Knows, Role, AtDocument, Counted, Reporting, Compensating
  <2>6. KnowsAt(w)'
    BY <1>2, <1>4, <1>5, <1>6, <2>1, <2>5 DEF KnowsAt
  <2>7. ReportsInv'
    BY <1>2, <1>5, <1>6, <1>7, <1>9, <2>2, <2>3, <2>4, <2>6, WriteReports
  <2> QED
    BY <1>6, <2>1, <2>7 DEF LegalStep
<1> QED
  BY <1>10, <1>11 DEF SaveAccepted

\* The save of a catch block and of a retry mark the document.
LEMMA MarReports ==
  ASSUME TypeInv, TypeInv', ReportsInv, NEW w \in Workers, SaveFailed(w) \/ RetrySave(w)
  PROVE  ReportsInv' /\ Marred(refunds'[Mine(w)])
<1>1. Knows(pc[w], loc[w], refunds[Mine(w)], gw[Mine(w)], channel)
  BY DEF ReportsInv, KnowsAt
<1>2. /\ UNCHANGED <<channel, gw, inbox>> /\ Mine(w) \in Keys /\ refunds \in [Keys -> RefundDoc]
      /\ Matched(refunds[Mine(w)], gw[Mine(w)], channel) /\ loc[w].count \in Nat
  BY TypeFacts DEF SaveFailed, RetrySave, orderVars, gatewayVars, Mine, ReportsInv, Locals
<1>3. PICK r : r = refunds'[Mine(w)]
  OBVIOUS
<1>4. \A k \in Keys : k # Mine(w) => refunds'[k] = refunds[k]
  BY <1>2 DEF SaveFailed, RetrySave, Mine
<1>5. Marred(r) /\ r.state \in {FAILED, PENDING}
  <2>1. CASE SaveFailed(w)
    <3>1. r.nextRetryAt /\ r.state = FAILED
      BY <1>2, <1>3, <2>1 DEF SaveFailed, Mine, RefundDoc
    <3> QED
      BY <3>1 DEF Marred
  <2>2. CASE RetrySave(w)
    <3>1. r.retryCount = loc[w].count /\ r.state = PENDING /\ loc[w].count > 0
      BY <1>1, <1>2, <1>3, <2>2 DEF RetrySave, Mine, RefundDoc, Knows
    <3> QED
      BY <3>1 DEF Marred
  <2> QED
    BY <2>1, <2>2
<1>6. r.state # "absent" /\ r.state # INITIATED
  BY <1>5 DEF FAILED, PENDING, INITIATED
<1>7. Evolves(refunds[Mine(w)], r)
  BY <1>5, <1>6 DEF Evolves
<1>8. Matched(r, gw[Mine(w)], channel)
  BY <1>2, <1>5, <1>6 DEF Matched
<1>9. Alone(w) /\ KnowsAt(w)' /\ ~loc'[w].own
  <2>1. CASE SaveFailed(w)
    <3>1. Alone(w) /\ pc'[w] = "idle" /\ loc'[w] = NoLocals
      BY <2>1, TypeFacts, MovesAlone DEF SaveFailed
    <3> QED
      BY <3>1, NoLocalsFacts DEF KnowsAt, Knows, Role, AtDocument, Counted, Reporting, Compensating
  <2>2. CASE RetrySave(w)
    <3>1. Alone(w) /\ pc'[w] = "execute" /\ loc'[w] = loc[w] /\ pc[w] = "retrySave"
      BY <2>2, TypeFacts, MovesAlone DEF RetrySave
    <3>2. loc[w].op = "retry" /\ ~loc[w].own
      BY <1>1, <3>1 DEF Knows, Role
    <3>3. Knows("execute", loc[w], r, gw[Mine(w)], channel)
      BY <1>1, <1>5, <1>6, <3>1, <3>2 DEF Knows, Role, AtDocument, Counted, Reporting, Compensating
    <3> QED
      BY <1>2, <1>3, <3>1, <3>2, <3>3 DEF KnowsAt, Mine
  <2> QED
    BY <2>1, <2>2
<1>10. ReportsInv'
  BY <1>2, <1>3, <1>4, <1>5, <1>7, <1>8, <1>9, WriteReports
<1> QED
  BY <1>3, <1>5, <1>10

\* Where a report that decided leads: along an edge, to what the gateway says.
LEMMA ReportEdge ==
  ASSUME NEW l, NEW r, NEW g \in Seq(GatewayStatuses), ~Marred(r), Sent(r),
         r.state \in RefundStates, Matched(r, g, "razorpay"), Heard(l, g), Deciding(l, r, g)
  PROVE  /\ Len(g) = 1 /\ l.next \in {PENDING, PROCESSED, FAILED}
         /\ r.state = l.next \/ CanTransition(r.state, l.next)
         /\ l.next = PROCESSED => g[1] = "processed"
         /\ l.next = FAILED => g[1] = "failed"
<1>1. Len(g) = 1 /\ l.gid = 1
  BY DEF Matched, Heard
<1>2. g[1] \in GatewayStatuses
  <2>1. \A i \in 1..Len(g) : g[i] \in GatewayStatuses
    OBVIOUS
  <2> QED
    BY <1>1, <2>1
<1>3. /\ l.next \in {PENDING, PROCESSED, FAILED}
      /\ l.next = PROCESSED => g[1] = "processed"
      /\ l.next = FAILED => g[1] = "failed"
      /\ l.next = PENDING => g[1] = "failed"
  BY <1>1, <1>2 DEF Heard, Deciding, GatewayStatuses, StateOfGatewayStatus, PENDING, PROCESSED, FAILED
<1>4. /\ r.state \in {PENDING, PROCESSED, FAILED}
      /\ r.state = FAILED => g[1] = "failed"
      /\ r.state = PROCESSED => g[1] = "processed"
  BY DEF Matched, Sent, RefundStates
<1>5. r.state = l.next \/ CanTransition(r.state, l.next)
  BY <1>3, <1>4 DEF CanTransition, ValidTransitions
<1> QED
  BY <1>1, <1>3, <1>5

LEMMA ApplyReports ==
  ASSUME TypeInv, TypeInv', ReportsInv, NEW w \in Workers, ApplyState(w)
  PROVE  ReportsInv' /\ (~Marred(refunds'[Mine(w)]) => LegalStep(Mine(w)))
<1>1. Knows("applyState", loc[w], refunds[Mine(w)], gw[Mine(w)], channel) /\ pc[w] = "applyState"
  BY DEF ReportsInv, KnowsAt, ApplyState
<1>2. /\ UNCHANGED <<channel, gw, inbox>> /\ Mine(w) \in Keys /\ refunds \in [Keys -> RefundDoc]
      /\ Matched(refunds[Mine(w)], gw[Mine(w)], channel)
      /\ gw[Mine(w)] \in Seq(GatewayStatuses)
  BY TypeFacts DEF ApplyState, orderVars, gatewayVars, Mine, ReportsInv, TypeInv, TypeOK
<1>3. PICK l : l = loc[w]
  OBVIOUS
<1>4. PICK g : g = gw[Mine(w)]
  OBVIOUS
<1>5. PICK r : r = refunds[Mine(w)]
  OBVIOUS
<1>6. PICK r1 : r1 = refunds'[Mine(w)]
  OBVIOUS
<1>7. /\ Knows("applyState", l, r, g, channel) /\ Matched(r, g, channel) /\ g \in Seq(GatewayStatuses)
      /\ r.state \in RefundStates
  BY <1>1, <1>2, <1>3, <1>4, <1>5 DEF Knows, AtDocument, RefundDoc
<1>8. /\ \A k \in Keys : k # Mine(w) => refunds'[k] = refunds[k]
      /\ r1.state = l.next /\ r1.nextRetryAt = r.nextRetryAt /\ r1.retryCount = r.retryCount
  BY <1>2, <1>3, <1>5, <1>6 DEF ApplyState, Mine, RefundDoc
<1>9. Marred(r1) <=> Marred(r)
  BY <1>8 DEF Marred
<1>10. PICK label : label = IF l.op = "mark" THEN "ledger"
                            ELSE IF l.next = FAILED /\ l.before = PENDING THEN "webhookRelease"
                            ELSE "project"
  OBVIOUS
<1>11. Alone(w) /\ pc'[w] = label /\ loc'[w] = l /\ Mine(w)' = Mine(w)
  <2>1. GoTo(w, label)
    BY <1>3, <1>10 DEF ApplyState
  <2> QED
    BY <1>3, <2>1, TypeFacts, MovesAlone DEF Mine
<1>12. ~l.own /\ l.op \in {"webhook", "mark", "exhaust"}
  BY <1>7 DEF Knows, Role
<1>13. l.next \in {PENDING, PROCESSED, FAILED, PERMANENTLY_FAILED}
  BY <1>7, <1>12 DEF Knows, Reporting, Heard
<1>14. Sent(r1) /\ Evolves(r, r1)
  BY <1>8, <1>9, <1>13 DEF Sent, Evolves, INITIATED, PENDING, PROCESSED, FAILED, PERMANENTLY_FAILED
<1>15. ASSUME l.op = "webhook", ~Marred(r)
       PROVE  /\ channel = "razorpay" /\ Sent(r) /\ Heard(l, g) /\ Deciding(l, r, g)
  BY <1>7, <1>15 DEF Knows, Reporting, Deciding
<1>16. ASSUME l.op = "webhook", ~Marred(r)
       PROVE  /\ channel = "razorpay" /\ Sent(r) /\ Len(g) = 1 /\ l.next \in {PENDING, PROCESSED, FAILED}
              /\ r.state = l.next \/ CanTransition(r.state, l.next)
              /\ l.next = PROCESSED => g[1] = "processed"
              /\ l.next = FAILED => g[1] = "failed"
  BY <1>7, <1>15, <1>16, ReportEdge
<1>17. /\ l.op = "mark" => channel # "razorpay" /\ l.next = PROCESSED
       /\ l.op = "exhaust" => channel = "razorpay" /\ Marred(r) /\ l.next = PERMANENTLY_FAILED
       /\ l.op = "webhook" => channel = "razorpay"
  BY <1>7 DEF Knows
<1>18. /\ r1.state # "absent" /\ r1.state # INITIATED /\ INITIATED # "absent"
       /\ PENDING \notin {PROCESSED, FAILED, PERMANENTLY_FAILED}
       /\ FAILED \notin {PROCESSED, PERMANENTLY_FAILED} /\ PROCESSED # PERMANENTLY_FAILED
  BY <1>14 DEF Sent, INITIATED, PENDING, PROCESSED, FAILED, PERMANENTLY_FAILED
<1>19. Matched(r1, g, channel)
  <2>1. CASE Marred(r)
    BY <1>7, <1>9, <1>18, <2>1 DEF Matched
  <2>2. CASE ~Marred(r) /\ l.op = "webhook"
    <3>1. /\ channel = "razorpay" /\ Len(g) = 1 /\ r1.state \in {PENDING, PROCESSED, FAILED}
          /\ r1.state = PROCESSED => g[1] = "processed"
          /\ r1.state = FAILED => g[1] = "failed"
      BY <1>8, <1>16, <2>2
    <3>2. r1.state # "absent" /\ r1.state # INITIATED /\ r1.state # PERMANENTLY_FAILED
      BY <1>18, <3>1
    <3> QED
      BY <3>1, <3>2 DEF Matched
  <2>3. CASE ~Marred(r) /\ l.op = "mark"
    BY <1>7, <1>8, <1>9, <1>17, <1>18, <2>3 DEF Matched
  <2> QED
    BY <1>12, <1>17, <2>1, <2>2, <2>3
<1>20. Knows(label, l, r1, g, channel)
  <2>1. CASE l.op = "mark"
    BY <1>7, <1>10, <1>12, <1>14, <1>18, <2>1
    DEF Knows, Role, AtDocument, Counted, Reporting, Compensating
  <2>2. CASE l.op = "webhook"
    BY <1>7, <1>10, <1>12, <1>14, <1>18, <2>2
    DEF Knows, Role, AtDocument, Counted, Reporting, Compensating
  <2>3. CASE l.op = "exhaust"
    BY <1>7, <1>9, <1>10, <1>12, <1>14, <1>17, <1>18, <2>3
    DEF Knows, Role, AtDocument, Counted, Reporting, Compensating
  <2> QED
    BY <1>12, <2>1, <2>2, <2>3
<1>21. KnowsAt(w)' /\ ~loc'[w].own
  BY <1>2, <1>4, <1>6, <1>11, <1>12, <1>20 DEF KnowsAt
<1>22. channel # "razorpay" \/ Marred(r1) \/ Sent(r)
  BY <1>9, <1>12, <1>16, <1>17
<1>23. ReportsInv'
  BY <1>2, <1>4, <1>5, <1>6, <1>8, <1>11, <1>14, <1>19, <1>21, <1>22, WriteReports
<1>24. ASSUME ~Marred(r1) PROVE r1.state = r.state \/ CanTransition(r.state, r1.state)
  <2>1. CASE l.op = "webhook"
    BY <1>8, <1>9, <1>16, <1>24, <2>1
  <2>2. CASE l.op = "mark"
    <3>1. r.state \in {INITIATED, PROCESSED} /\ l.next = PROCESSED
      BY <1>7, <1>9, <1>17, <1>24, <2>2, TypeFacts DEF Matched
    <3> QED
      BY <1>8, <3>1 DEF CanTransition, ValidTransitions
  <2> QED
    BY <1>9, <1>12, <1>17, <1>24, <2>1, <2>2
<1> QED
  BY <1>5, <1>6, <1>23, <1>24 DEF LegalStep

\* One more refund of the gateway: for a request it is the first, else the refund was retried.
LEMMA AcceptReports ==
  ASSUME TypeInv, TypeInv', ReportsInv, NEW w \in Workers, pc[w] = "execute", channel = "razorpay",
         GatewayAccept(Mine(w)), UNCHANGED <<channel, refunds>>, Alone(w),
         NEW label, NEW l, pc'[w] = label, loc'[w] = l, l.own => loc[w].own /\ l.key = Mine(w),
         label # "idle" => l.key = Mine(w),
         Len(gw'[Mine(w)]) = Len(gw[Mine(w)]) + 1
           => Knows(label, l, refunds[l.key], gw'[l.key], channel)
  PROVE  ReportsInv'
<1>1. Knows("execute", loc[w], refunds[Mine(w)], gw[Mine(w)], channel)
  BY DEF ReportsInv, KnowsAt
<1>2. /\ Mine(w) \in Keys /\ gw \in [Keys -> Seq(GatewayStatuses)]
      /\ Matched(refunds[Mine(w)], gw[Mine(w)], channel) /\ refunds[Mine(w)].state # "absent"
  BY <1>1, TypeFacts DEF Mine, ReportsInv, TypeInv, TypeOK, Knows, AtDocument
<1>3. gw'[Mine(w)] = Append(gw[Mine(w)], "created") /\ \A k \in Keys : k # Mine(w) => gw'[k] = gw[k]
  BY <1>2 DEF GatewayAccept
<1>4. Len(gw'[Mine(w)]) = Len(gw[Mine(w)]) + 1 /\ Grows(gw[Mine(w)], gw'[Mine(w)])
  BY <1>2, <1>3 DEF Grows
<1>5. \A k \in Keys : Evolves(refunds[k], refunds'[k]) /\ Grows(gw[k], gw'[k])
  BY <1>3, <1>4, Unchanging
<1>6. loc[w].own \/ Marred(refunds[Mine(w)])
  BY <1>1 DEF Knows, Role, Counted
<1>7. \A k \in Keys : Matched(refunds'[k], gw'[k], channel)
  <2>1. PICK r : r = refunds[Mine(w)]
    OBVIOUS
  <2>2. PICK g : g = gw'[Mine(w)]
    OBVIOUS
  <2>3. ~Marred(r) => r.state = INITIATED /\ Len(gw[Mine(w)]) = 0
    BY <1>1, <1>6, <2>1 DEF Knows
  <2>4. ~Marred(r) => r.state = INITIATED /\ Len(g) = 1
    <3>1. g = Append(gw[Mine(w)], "created") /\ gw[Mine(w)] \in Seq(GatewayStatuses)
      BY <1>2, <1>3, <2>2
    <3>2. g \in Seq(GatewayStatuses) /\ Len(g) = Len(gw[Mine(w)]) + 1
      BY <3>1 DEF GatewayStatuses
    <3> QED
      BY <2>3, <3>1, <3>2
  <2>8. g \in Seq(GatewayStatuses)
    BY <1>2, <1>3, <2>2 DEF GatewayStatuses
  <2>5. r.state # "absent" /\ (~Marred(r) => r.gid = 0)
    BY <1>2, <2>1, <2>3 DEF Matched
  <2>6. INITIATED \notin {PROCESSED, FAILED, PERMANENTLY_FAILED}
    BY DEF INITIATED, PROCESSED, FAILED, PERMANENTLY_FAILED
  <2>7. Matched(r, g, channel)
    <3>1. CASE Marred(r)
      BY <2>5, <3>1 DEF Matched
    <3>2. CASE ~Marred(r)
      <4>1. Len(g) = 1
        BY <2>4, <3>2
      <4>2. Len(g) <= 1
        BY <4>1
      <4> QED
        BY <2>4, <2>5, <2>6, <3>2, <4>1, <4>2 DEF Matched, Sent
    <3> QED
      BY <3>1, <3>2
  <2> QED
    BY <1>3, <2>1, <2>2, <2>7 DEF ReportsInv
<1>8. ASSUME NEW v \in Workers, v # w, loc[v].own, pc[v] \in {"execute", "save"},
             ~Marred(refunds'[Mine(v)])
      PROVE  refunds'[Mine(v)].state = refunds[Mine(v)].state /\ gw'[Mine(v)] = gw[Mine(v)]
  <2>1. Mine(v) # Mine(w)
    BY <1>6, <1>8 DEF ReportsInv, Owners, Mine
  <2> QED
    BY <1>3, <2>1, TypeFacts DEF Mine
<1>9. KnowsAt(w)'
  BY <1>4 DEF KnowsAt, Mine
<1>10. loc'[w].own => /\ Mine(w)' = Mine(w) /\ Exists(Mine(w))'
                      /\ loc[w].own \/ ~Exists(Mine(w))
  BY <1>2 DEF Mine, Exists
<1>11. \A m \in inbox' : m \in inbox \/ m.status = "created"
  BY DEF GatewayAccept
<1>12. (\A v \in Workers : Mine(v)' \in Keys) /\ channel' = channel
       /\ (channel # "razorpay" => inbox' \subseteq inbox)
  BY MinesNext
<1> QED
  BY <1>5, <1>7, <1>8, <1>9, <1>10, <1>11, <1>12, StepReports

LEMMA CallReports ==
  ASSUME TypeInv, TypeInv', ReportsInv, NEW w \in Workers, ExecuteStrategy(w)
  PROVE  ReportsInv'
<1>1. Knows("execute", loc[w], refunds[Mine(w)], gw[Mine(w)], channel) /\ pc[w] = "execute"
  BY DEF ReportsInv, KnowsAt, ExecuteStrategy
<1>2. UNCHANGED <<channel, refunds>> /\ loc[w] \in Locals
  BY TypeFacts DEF ExecuteStrategy, orderVars
<1>3. CASE Throw(w) /\ UNCHANGED gatewayVars
  BY <1>1, <1>2, <1>3, ThrowReports DEF Throwing, gatewayVars
<1>4. CASE /\ channel = "razorpay" /\ GatewayAccept(loc[w].key)
           /\ GoWith(w, "save", [loc[w] EXCEPT !.gid = Len(gw[loc[w].key]) + 1, !.dirty = TRUE])
  <2>1. PICK l : l = [loc[w] EXCEPT !.gid = Len(gw[loc[w].key]) + 1, !.dirty = TRUE]
    OBVIOUS
  <2>2. l.key = Mine(w) /\ l.own = loc[w].own /\ l.op = loc[w].op
    BY <1>2, <2>1 DEF Locals, Mine
  <2>3. Alone(w) /\ pc'[w] = "save" /\ loc'[w] = l
    BY <1>4, <2>1, TypeFacts, MovesAlone
  <2>4. Len(gw[Mine(w)]) \in Nat
    BY TypeFacts DEF TypeInv, TypeOK, Mine
  <2>5. ASSUME Len(gw'[Mine(w)]) = Len(gw[Mine(w)]) + 1
        PROVE  Knows("save", l, refunds[Mine(w)], gw'[Mine(w)], channel)
    BY <1>1, <2>2, <2>4, <2>5 DEF Knows, Role, AtDocument, Counted, Reporting, Compensating
  <2> QED
    BY <1>1, <1>2, <1>4, <2>2, <2>3, <2>5, AcceptReports DEF Mine
<1>5. CASE /\ channel = "bank_transfer" /\ UNCHANGED gatewayVars
           /\ GoWith(w, "save", [loc[w] EXCEPT !.gid = 1, !.dirty = TRUE])
  <2>1. PICK l : l = [loc[w] EXCEPT !.gid = 1, !.dirty = TRUE]
    OBVIOUS
  <2>2. l.key = Mine(w) /\ l.own = loc[w].own /\ l.op = loc[w].op
    BY <1>2, <2>1 DEF Locals, Mine
  <2>3. Knows("save", l, refunds[Mine(w)], gw[Mine(w)], channel)
    BY <1>1, <1>5, <2>2 DEF Knows, Role, AtDocument, Counted, Reporting, Compensating
  <2>4. GoWith(w, "save", l) /\ (l.own => loc[w].own) /\ UNCHANGED <<channel, refunds, gw, inbox>>
    BY <1>2, <1>5, <2>1, <2>2 DEF gatewayVars
  <2> QED
    BY <2>2, <2>3, <2>4, QuietMoves
<1> QED
  BY <1>3, <1>4, <1>5 DEF ExecuteStrategy

LEMMA FaultReports ==
  ASSUME TypeInv, TypeInv', ReportsInv, NEW w \in Workers, Fault(w)
  PROVE  ReportsInv'
<1>1. Knows(pc[w], loc[w], refunds[Mine(w)], gw[Mine(w)], channel)
  BY DEF ReportsInv, KnowsAt
<1>2. UNCHANGED <<channel, refunds>>
  BY DEF Fault, DatabaseError, AnswerLost, Crash, orderVars
<1>3. CASE Crash(w)
  BY <1>2, <1>3, QuietMoves DEF Crash, gatewayVars
<1>4. CASE AnswerLost(w)
  <2>1. Alone(w) /\ \/ pc'[w] = "release" /\ loc'[w] = loc[w] /\ loc[w].op = "initiate"
                    \/ pc'[w] = "retryFail" /\ loc'[w] = loc[w] /\ loc[w].op = "retry"
                    \/ pc'[w] = "idle" /\ loc'[w] = NoLocals
    BY <1>4, TypeFacts, MovesAlone DEF AnswerLost
  <2>2. pc[w] = "execute" /\ channel = "razorpay" /\ GatewayAccept(Mine(w))
    BY <1>4 DEF AnswerLost, Mine
  <2>3. CASE pc'[w] = "release" /\ loc'[w] = loc[w] /\ loc[w].op = "initiate"
    <3>1. Knows("release", loc[w], refunds[Mine(w)], gw'[Mine(w)], channel)
      BY <1>1, <2>2, <2>3 DEF Knows, Role, AtDocument, Counted, Reporting, Compensating
    <3> QED
      BY <1>2, <2>1, <2>2, <2>3, <3>1, AcceptReports DEF Mine
  <2>4. CASE pc'[w] = "retryFail" /\ loc'[w] = loc[w] /\ loc[w].op = "retry"
    <3>1. Knows("retryFail", loc[w], refunds[Mine(w)], gw'[Mine(w)], channel)
      BY <1>1, <2>2, <2>4 DEF Knows, Role, AtDocument, Counted, Reporting, Compensating
    <3> QED
      BY <1>2, <2>1, <2>2, <2>4, <3>1, AcceptReports DEF Mine
  <2>5. CASE pc'[w] = "idle" /\ loc'[w] = NoLocals
    <3>1. \A r, g : Knows("idle", NoLocals, r, g, channel)
      BY NoLocalsFacts DEF Knows, Role, AtDocument, Counted, Reporting, Compensating
    <3> QED
      BY <1>2, <2>1, <2>2, <2>5, <3>1, NoLocalsFacts, AcceptReports
  <2> QED
    BY <2>1, <2>3, <2>4, <2>5
<1>5. CASE DatabaseError(w)
  <2>1. UNCHANGED <<gw, inbox>>
    BY <1>5 DEF DatabaseError, gatewayVars
  <2>2. CASE Throw(w) /\ pc[w] \in Throwing
    BY <1>2, <2>1, <2>2, ThrowReports
  <2>3. CASE Finish(w)
    BY <1>2, <2>1, <2>3, QuietMoves
  <2>4. CASE pc[w] = "release" /\ loc[w].own /\ GoTo(w, "markFailed")
    <3>1. Knows("markFailed", loc[w], refunds[Mine(w)], gw[Mine(w)], channel)
      BY <1>1, <2>4 DEF Knows, Role, AtDocument, Counted, Reporting, Compensating
    <3> QED
      BY <1>2, <2>1, <2>4, <3>1, QuietMoves
  <2> QED
    BY <1>5, <2>2, <2>3, <2>4 DEF DatabaseError, Throwing
<1> QED
  BY <1>3, <1>4, <1>5 DEF Fault

\* The gateway decides a refund, once.
LEMMA SettleReports ==
  ASSUME TypeInv, TypeInv', ReportsInv, NEW k \in Keys, NEW n \in 1..Len(gw[k]), GatewaySettle(k, n)
  PROVE  ReportsInv'
<1>1. UNCHANGED <<channel, refunds, pc, loc>> /\ gw \in [Keys -> Seq(GatewayStatuses)]
  BY DEF GatewaySettle, orderVars, workerVars, TypeInv, TypeOK
<1>2. PICK s \in {"processed", "failed"} :
        /\ gw' = [gw EXCEPT ![k][n] = s]
        /\ inbox' = inbox \cup {m \in [key : {k}, gid : {n}, status : {s}] : m.status \in EventKinds}
  BY DEF GatewaySettle
<1>3. gw[k][n] = "created"
  BY DEF GatewaySettle
<1>4. /\ \A j \in Keys : j # k => gw'[j] = gw[j]
      /\ gw'[k] = [gw[k] EXCEPT ![n] = s]
  BY <1>1, <1>2
<1>5. /\ Len(gw'[k]) = Len(gw[k]) /\ gw'[k][n] = s
      /\ \A i \in 1..Len(gw[k]) : i # n => gw'[k][i] = gw[k][i]
  BY <1>1, <1>4
<1>6. \A j \in Keys : Evolves(refunds[j], refunds'[j]) /\ Grows(gw[j], gw'[j])
  <2>1. Grows(gw[k], gw'[k])
    BY <1>1, <1>3, <1>5 DEF Grows
  <2> QED
    BY <1>1, <1>4, <2>1, Unchanging
<1>7. ASSUME NEW v \in Workers PROVE KnowsAt(v)'
  <2>1. Mine(v) \in Keys /\ Mine(v)' = Mine(v)
    BY <1>1, TypeFacts DEF Mine
  <2>2. Knows(pc[v], loc[v], refunds[Mine(v)], gw[Mine(v)], channel)
    BY DEF ReportsInv, KnowsAt
  <2>3. loc[v].own /\ pc[v] = "execute" /\ channel = "razorpay" /\ ~Marred(refunds[Mine(v)])
          => gw'[Mine(v)] = gw[Mine(v)]
    BY <1>4, <2>1, <2>2 DEF Knows
  <2>4. Knows(pc[v], loc[v], refunds'[Mine(v)], gw'[Mine(v)], channel)
    BY <1>1, <1>6, <2>1, <2>2, <2>3, KnowsKept
  <2> QED
    BY <1>1, <2>1, <2>4 DEF KnowsAt
<1>8. ASSUME NEW j \in Keys PROVE Matched(refunds'[j], gw'[j], channel)
  <2>1. Matched(refunds[j], gw[j], channel)
    BY DEF ReportsInv
  <2>2. CASE j # k
    BY <1>1, <1>4, <2>1, <2>2
  <2>3. CASE j = k
    BY <1>1, <1>3, <1>5, <2>1, <2>3 DEF Matched
  <2> QED
    BY <2>2, <2>3
<1>9. Told'
  <2>1. channel = "razorpay"
    <3>1. Matched(refunds[k], gw[k], channel)
      BY DEF ReportsInv
    <3> QED
      BY <3>1 DEF Matched
  <2>2. ASSUME NEW m \in inbox', m.status # "created" PROVE gw'[m.key][m.gid] = m.status
    <3>1. CASE m \in inbox
      <4>1. gw[m.key][m.gid] = m.status /\ m.key \in Keys /\ m.gid \in 1..Len(gw[m.key])
        BY <2>1, <3>1, <2>2 DEF ReportsInv, Told, TypeInv, TypeOK, GatewayIds
      <4> QED
        BY <1>3, <1>4, <1>5, <2>2, <4>1
    <3>2. CASE m \in [key : {k}, gid : {n}, status : {s}]
      BY <1>5, <3>2
    <3> QED
      BY <1>2, <3>1, <3>2
  <2> QED
    BY <1>1, <2>1, <2>2 DEF Told
<1>10. Owners'
  BY <1>1 DEF ReportsInv, Owners, Exists
<1> QED
  BY <1>1, <1>7, <1>8, <1>9, <1>10 DEF ReportsInv

LEMMA ReportsInit == Init => ReportsInv
<1> SUFFICES ASSUME Init PROVE ReportsInv
  OBVIOUS
<1>1. ASSUME NEW w \in Workers PROVE KnowsAt(w)
  BY NoLocalsFacts DEF Init, KnowsAt, Knows, Role, AtDocument, Counted, Reporting, Compensating
<1>2. ASSUME NEW k \in Keys PROVE Matched(refunds[k], gw[k], channel)
  BY DEF Init, Matched, Absent, Marred, Sent, INITIATED, PENDING, PROCESSED, FAILED, PERMANENTLY_FAILED
<1>3. Told /\ Owners
  BY NoLocalsFacts DEF Init, Told, Owners
<1> QED
  BY <1>1, <1>2, <1>3 DEF ReportsInv

Writing(w) == CreateRefund(w) \/ SaveAccepted(w) \/ SaveFailed(w) \/ RetrySave(w) \/ ApplyState(w)

\* The five saves of a refund document; a save leaves the other documents alone.
LEMMA WritingReports ==
  ASSUME TypeInv, TypeInv', ReportsInv, NEW w \in Workers, Writing(w)
  PROVE  ReportsInv' /\ \A k \in Keys : ~Troubled(k)' => LegalStep(k)
<1>1. ASSUME NEW k \in Keys, k # Mine(w) PROVE LegalStep(k)
  BY <1>1, TypeFacts
  DEF Writing, CreateRefund, SaveAccepted, SaveFailed, RetrySave, ApplyState, Mine, LegalStep
<1>2. ReportsInv' /\ (~Marred(refunds'[Mine(w)]) => LegalStep(Mine(w)))
  BY CreateReports, SaveReports, MarReports, ApplyReports DEF Writing
<1>3. \A k \in Keys : Troubled(k)' <=> Marred(refunds'[k])
  BY DEF Troubled, Marred
<1> QED
  BY <1>1, <1>2, <1>3

\* A step of Next, by who takes it and whether it saves a refund document.
LEMMA ReportsNext ==
  ASSUME TypeInv, TypeInv', ReportsInv, MaxRetries > 0, [Next]_vars
  PROVE  ReportsInv' /\ \A k \in Keys : ~Troubled(k)' => LegalStep(k)
<1>1. refunds' = refunds => \A k \in Keys : LegalStep(k)
  BY DEF LegalStep
<1>2. CASE UNCHANGED vars
  BY <1>1, <1>2 DEF vars, ReportsInv, KnowsAt, Mine, Told, Owners, Exists
<1>3. ASSUME NEW w \in Workers, Start(w) PROVE ReportsInv' /\ refunds' = refunds
  <2>1. refunds' = refunds
    BY <1>3 DEF Start, StartInitiate, StartWebhook, StartReconcile, StartRetryJob, StartRetryAdmin,
                StartMark
  <2> QED
    BY <1>3, <2>1, StartReports
<1>4. ASSUME NEW w \in Workers, Fault(w) PROVE ReportsInv' /\ refunds' = refunds
  <2>1. refunds' = refunds
    BY <1>4 DEF Fault, DatabaseError, AnswerLost, Crash
  <2> QED
    BY <1>4, <2>1, FaultReports
<1>5. ASSUME NEW w \in Workers, Continue(w), ~Writing(w) PROVE ReportsInv' /\ refunds' = refunds
  <2>1. CASE LazySeed(w) \/ Reserve(w) \/ RecordRefund(w) \/ ReleaseAfterFailure(w)
    BY <2>1, RequestReports DEF LazySeed, Reserve, RecordRefund, ReleaseAfterFailure
  <2>2. CASE ExecuteStrategy(w)
    BY <2>2, CallReports DEF ExecuteStrategy
  <2>3. CASE ProjectStep(w)
    BY <2>3, ProjectReports DEF ProjectStep, ProjectRead, ProjectSave
  <2>4. CASE FindRefund(w) \/ WebhookRelease(w) \/ RecordAdjustment(w)
    BY <2>4, FindReports, CreditReports DEF FindRefund, WebhookRelease, RecordAdjustment, orderVars
  <2>5. CASE RetryRead(w)
    BY <2>5, RetryReadReports DEF RetryRead
  <2> QED
    BY <1>5, <2>1, <2>2, <2>3, <2>4, <2>5
    DEF Continue, InitiateStep, WebhookStep, RetryStep, Writing
<1>6. ASSUME NEW k \in Keys, NEW n \in 1..Len(gw[k]), GatewaySettle(k, n)
      PROVE  ReportsInv' /\ refunds' = refunds
  BY <1>6, SettleReports DEF GatewaySettle
<1> QED
  BY <1>1, <1>2, <1>3, <1>4, <1>5, <1>6, WritingReports DEF Next

\* A refund's state only changes along an edge of the state machine, although every save
\* writes a state decided from an earlier read, and whatever else happens at the refund in
\* between. The gateway decides a refund once, so what a report is about to write never
\* contradicts what another one wrote (ReportsInv: what each worker knows of the stored
\* document and of the gateway where it is). One assumption on a constant: an initiation is
\* retried at least once before its refund is given up.
THEOREM StatesFollow == MaxRetries > 0 /\ Spec => StatesFollowMachine
<1> SUFFICES ASSUME MaxRetries > 0 PROVE Spec => StatesFollowMachine
  OBVIOUS
<1> DEFINE Legally == \A k \in Keys : ~Troubled(k)' => LegalStep(k)
<1>1. Init => TypeInv /\ ReportsInv
  BY TypeInit, ReportsInit
<1>2. TypeInv /\ ReportsInv /\ [Next]_vars => TypeInv' /\ ReportsInv' /\ Legally
  BY TypeNext, ReportsNext
<1>3. TypeInv /\ ReportsInv /\ [Next]_vars => [Legally]_vars
  BY <1>2
<1> QED
  BY <1>1, <1>2, <1>3, PTL DEF Spec, StatesFollowMachine

-----------------------------------------------------------------------------
(* What the ledger and the order show of refunds that were not marred.     *)

OneMarker == \A v, w \in Markers : v = w

AboutToDebit(k) == \E w \in Workers : pc[w] = "ledger" /\ Mine(w) = k
AboutToCredit(k) == \E w \in Workers : pc[w] \in Compensating /\ Mine(w) = k
Booking == {"ledger"} \cup Compensating

BooksOf(k) ==
  /\ debits[k] = IF Sent(refunds[k]) /\ ~AboutToDebit(k) THEN 1 ELSE 0
  /\ ~Sent(refunds[k]) => credits[k] = 0
  /\ refunds[k].state = FAILED => credits[k] > 0 \/ AboutToCredit(k)

\* A settlement is the one marker's, which marks what it found not yet sent.
Marks(w) ==
  /\ pc[w] = "ledger" /\ loc[w].op # "mark" => channel = "razorpay"
  /\ loc[w].op = "mark" => /\ w \in Markers
                           /\ pc[w] = "applyState" /\ ~Marred(refunds[Mine(w)])
                                => refunds[Mine(w)].state = INITIATED

ShownIsPaid(e) ==
  \A k \in Keys : e[k].status = "processed" /\ ~Marred(refunds[k]) => refunds[k].state = PROCESSED

BooksInv ==
  /\ \A w \in Workers : Marks(w)
  /\ \A k \in Keys : ~Settled(k, "failed") => credits[k] = 0
  /\ ShownIsPaid(view)
  /\ \A w \in Workers : pc[w] = "projectSave" => ShownIsPaid(loc[w].new)
  /\ faults = 0 => \A k \in Keys : ~Marred(refunds[k]) => BooksOf(k)

\* One worker at a time books a debit.
LEMMA OneDebtor ==
  ASSUME ReportsInv, BooksInv, OneMarker, NEW v \in Workers, NEW w \in Workers,
         pc[v] = "ledger", pc[w] = "ledger", Mine(v) = Mine(w)
  PROVE  v = w
<1>1. \A u \in Workers : pc[u] = "ledger" =>
        \/ loc[u].own /\ channel = "razorpay"
        \/ loc[u].op = "mark" /\ u \in Markers /\ channel # "razorpay"
  BY DEF ReportsInv, KnowsAt, Knows, Role, BooksInv, Marks
<1>2. CASE channel = "razorpay"
  BY <1>1, <1>2 DEF ReportsInv, Owners, Mine
<1>3. CASE channel # "razorpay"
  BY <1>1, <1>3 DEF OneMarker
<1> QED
  BY <1>2, <1>3

\* A worker that is not at the books of k before or after its step leaves the others there.
LEMMA Bystander ==
  ASSUME NEW w \in Workers, Alone(w), NEW k \in Keys,
         pc[w] \in Booking => Mine(w) # k, pc'[w] \in Booking => Mine(w)' # k
  PROVE  (AboutToDebit(k)' <=> AboutToDebit(k)) /\ (AboutToCredit(k)' <=> AboutToCredit(k))
<1>1. \A v \in Workers : v # w => pc'[v] = pc[v] /\ loc'[v].key = loc[v].key
  BY DEF Alone
<1>2. /\ pc[w] \in Booking => loc[w].key # k
      /\ pc'[w] \in Booking => loc'[w].key # k
  BY DEF Mine
<1> QED
  BY <1>1, <1>2 DEF AboutToDebit, AboutToCredit, Booking, Mine

LEMMA SameBooks ==
  ASSUME NEW k \in Keys, BooksOf(k), refunds'[k] = refunds[k], debits'[k] = debits[k],
         credits'[k] = credits[k], AboutToDebit(k)' <=> AboutToDebit(k),
         AboutToCredit(k)' <=> AboutToCredit(k)
  PROVE  BooksOf(k)'
BY DEF BooksOf

\* A document that is marred stays marred.
LEMMA MarredStays ==
  ASSUME TypeInv, TypeInv', ReportsInv, [Next]_vars, NEW k \in Keys, Marred(refunds[k])
  PROVE  Marred(refunds'[k])
<1>0. refunds \in [Keys -> RefundDoc] /\ \A v \in Workers : Mine(v) \in Keys
  BY TypeFacts DEF Mine
<1>1. ASSUME NEW w \in Workers, Writing(w) PROVE Marred(refunds'[k])
  <2>1. CASE Mine(w) # k
    BY <1>0, <1>1, <2>1
    DEF Writing, CreateRefund, SaveAccepted, SaveFailed, RetrySave, ApplyState, Mine
  <2>2. CASE Mine(w) = k /\ (SaveAccepted(w) \/ ApplyState(w))
    <3>1. refunds'[k].nextRetryAt = refunds[k].nextRetryAt /\ refunds'[k].retryCount = refunds[k].retryCount
      BY <1>0, <2>2 DEF SaveAccepted, ApplyState, Mine, RefundDoc
    <3> QED
      BY <3>1 DEF Marred
  <2>3. CASE Mine(w) = k /\ (SaveFailed(w) \/ RetrySave(w))
    BY <2>3, MarReports
  <2>4. CASE Mine(w) = k /\ CreateRefund(w)
    <3>1. refunds[k].state # "absent"
      BY DEF ReportsInv, Matched
    <3>2. refunds' = refunds
      BY <2>4, <3>1 DEF CreateRefund, DuplicateKeyError, Exists, Mine
    <3> QED
      BY <3>2
  <2> QED
    BY <1>1, <2>1, <2>2, <2>3, <2>4 DEF Writing
<1>2. CASE refunds' = refunds
  BY <1>2
<1>3. ASSUME NEW w \in Workers, Start(w) \/ Fault(w) PROVE refunds' = refunds
  BY <1>3 DEF Start, StartInitiate, StartWebhook, StartReconcile, StartRetryJob, StartRetryAdmin,
              StartMark, Fault, DatabaseError, AnswerLost, Crash
<1>4. ASSUME NEW w \in Workers, Continue(w), ~Writing(w) PROVE refunds' = refunds
  BY <1>4 DEF Continue, InitiateStep, ProjectStep, WebhookStep, RetryStep, Writing, LazySeed, Reserve,
              ExecuteStrategy, RecordRefund, ReleaseAfterFailure, ProjectRead, ProjectSave, FindRefund,
              WebhookRelease, RecordAdjustment, RetryRead, orderVars
<1> QED
  BY <1>1, <1>2, <1>3, <1>4 DEF Next, GatewaySettle, vars

\* What is processed and not marred stays so.
LEMMA PaidStays ==
  ASSUME TypeInv, TypeInv', ReportsInv, MaxRetries > 0, [Next]_vars, NEW e, ShownIsPaid(e)
  PROVE  \A k \in Keys : e[k].status = "processed" /\ ~Marred(refunds'[k]) => refunds'[k].state = PROCESSED
<1>1. ASSUME NEW k \in Keys, e[k].status = "processed", ~Marred(refunds'[k])
      PROVE  refunds'[k].state = PROCESSED
  <2>1. ~Marred(refunds[k])
    BY <1>1, MarredStays
  <2>2. refunds[k].state = PROCESSED /\ Exists(k)
    BY <1>1, <2>1 DEF ShownIsPaid, Exists, PROCESSED
  <2>3. ~Troubled(k)'
    BY <1>1 DEF Troubled, Marred
  <2>4. LegalStep(k)
    BY <2>3, ReportsNext
  <2> QED
    BY <2>2, <2>4 DEF LegalStep, CanTransition, ValidTransitions, INITIATED, PENDING, PROCESSED, FAILED,
                      PERMANENTLY_FAILED
<1> QED
  BY <1>1

NoBooks == UNCHANGED <<refunds, debits, credits>>
Passes(w) == Alone(w) /\ pc[w] \notin Booking /\ pc'[w] \notin Booking

\* The steps that neither book nor come to book.
LEMMA StartPasses ==
  ASSUME TypeInv, NEW w \in Workers, Start(w)
  PROVE  Passes(w) /\ NoBooks /\ view' = view /\ faults' = faults /\ pc'[w] # "projectSave"
<1>1. NoBooks /\ view' = view /\ faults' = faults
  BY DEF Start, StartInitiate, StartWebhook, StartReconcile, StartRetryJob, StartRetryAdmin, StartMark,
         orderVars, ledgerVars, NoBooks
<1>2. ASSUME NEW label \in {"seed", "find", "retryRead", "applyState"}, NEW l, Begin(w, label, l)
      PROVE  Passes(w) /\ pc'[w] # "projectSave"
  <2>1. Alone(w) /\ pc[w] = "idle" /\ pc'[w] = label
    BY <1>2, TypeFacts, MovesAlone
  <2> QED
    BY <2>1 DEF Passes, Booking, Compensating
<1> QED
  BY <1>1, <1>2 DEF Start, StartInitiate, StartWebhook, StartReconcile, StartRetryJob, StartRetryAdmin,
                    StartMark

LEMMA QuietPasses ==
  ASSUME TypeInv, ReportsInv, NEW w \in Workers, Continue(w), ~Writing(w), ~RecordRefund(w),
         ~RecordAdjustment(w), ~WebhookRelease(w)
  PROVE  Passes(w) /\ NoBooks
<1>1. Knows(pc[w], loc[w], refunds[Mine(w)], gw[Mine(w)], channel)
  BY DEF ReportsInv, KnowsAt
<1>2. ASSUME NEW label, pc[w] \notin Booking, label \notin Booking,
             \/ GoTo(w, label)
             \/ \E l : GoWith(w, label, l)
      PROVE  Passes(w)
  BY <1>2, TypeFacts, MovesAlone DEF Passes
<1>3. ASSUME pc[w] \notin Booking, Finish(w) \/ Throw(w) PROVE Passes(w)
  <2>1. Alone(w) /\ pc'[w] \in {"release", "retryFail", "idle"}
    BY <1>3, TypeFacts, MovesAlone
  <2> QED
    BY <1>3, <2>1 DEF Passes, Booking, Compensating
<1>4. CASE LazySeed(w) \/ Reserve(w) \/ ReleaseAfterFailure(w)
  BY <1>2, <1>3, <1>4 DEF LazySeed, Reserve, ReleaseAfterFailure, Booking, Compensating, ledgerVars, NoBooks
<1>5. CASE ExecuteStrategy(w)
  BY <1>2, <1>3, <1>5 DEF ExecuteStrategy, Booking, Compensating, ledgerVars, NoBooks
<1>6. CASE ProjectStep(w)
  BY <1>2, <1>3, <1>6 DEF ProjectStep, ProjectRead, ProjectSave, Booking, Compensating, ledgerVars, NoBooks
<1>7. CASE FindRefund(w) \/ RetryRead(w)
  BY <1>2, <1>3, <1>7 DEF FindRefund, RetryRead, Booking, Compensating, ledgerVars, NoBooks
<1> QED
  BY <1>4, <1>5, <1>6, <1>7 DEF Continue, InitiateStep, WebhookStep, RetryStep, Writing

\* A debit is booked, a credit is decided on, a credit is booked.
LEMMA DebitBooks ==
  ASSUME TypeInv, ReportsInv, BooksInv, OneMarker, NEW w \in Workers, RecordRefund(w), NEW k \in Keys,
         ~Marred(refunds[k]), BooksOf(k)
  PROVE  BooksOf(k)'
<1>1. /\ Alone(w) /\ pc[w] = "ledger" /\ pc'[w] = "project" /\ loc'[w] = loc[w]
      /\ refunds' = refunds /\ credits' = credits /\ debits' = [debits EXCEPT ![Mine(w)] = @ + 1]
      /\ debits \in [Keys -> Nat]
  BY TypeFacts, MovesAlone DEF RecordRefund, Mine, TypeInv, TypeOK
<1>2. CASE Mine(w) # k
  <2>1. (AboutToDebit(k)' <=> AboutToDebit(k)) /\ (AboutToCredit(k)' <=> AboutToCredit(k))
    BY <1>1, <1>2, Bystander DEF Booking, Compensating
  <2> QED
    BY <1>1, <1>2, <2>1, SameBooks
<1>3. CASE Mine(w) = k
  <2>1. AboutToDebit(k) /\ debits'[k] = debits[k] + 1
    BY <1>1, <1>3 DEF AboutToDebit
  <2>2. Sent(refunds[k])
    BY <1>1, <1>3 DEF ReportsInv, KnowsAt, Knows
  <2>3. debits'[k] = 1
    BY <2>1 DEF BooksOf
  <2>4. ~AboutToDebit(k)'
    <3> SUFFICES ASSUME NEW v \in Workers, pc'[v] = "ledger", loc'[v].key = k PROVE FALSE
      BY DEF AboutToDebit, Mine
    <3>1. v # w
      BY <1>1
    <3>2. pc[v] = "ledger" /\ Mine(v) = Mine(w)
      BY <1>1, <1>3, <3>1 DEF Alone, Mine
    <3> QED
      BY <1>1, <3>1, <3>2, OneDebtor
  <2>5. AboutToCredit(k)' <=> AboutToCredit(k)
    BY <1>1 DEF AboutToCredit, Compensating, Alone, Mine
  <2> QED
    BY <1>1, <2>2, <2>3, <2>4, <2>5 DEF BooksOf
<1> QED
  BY <1>2, <1>3

LEMMA CreditBooks ==
  ASSUME TypeInv, ReportsInv, NEW w \in Workers, WebhookRelease(w) \/ RecordAdjustment(w), NEW k \in Keys,
         ~Marred(refunds[k]), BooksOf(k)
  PROVE  BooksOf(k)'
<1>1. /\ Alone(w) /\ pc[w] \in Compensating /\ loc'[w] = loc[w] /\ pc'[w] # "ledger"
      /\ refunds' = refunds /\ debits' = debits
      /\ credits \in [Keys -> Nat]
  BY TypeFacts, MovesAlone DEF WebhookRelease, RecordAdjustment, TypeInv, TypeOK, Compensating, ledgerVars
<1>2. \/ credits' = credits /\ pc'[w] \in Compensating
      \/ credits' = [credits EXCEPT ![Mine(w)] = @ + 1]
  BY TypeFacts, MovesAlone DEF WebhookRelease, RecordAdjustment, Compensating, Mine, ledgerVars
<1>3. CASE Mine(w) # k
  <2>1. (AboutToDebit(k)' <=> AboutToDebit(k)) /\ (AboutToCredit(k)' <=> AboutToCredit(k))
    BY <1>1, <1>3, Bystander DEF Mine
  <2>2. credits'[k] = credits[k]
    BY <1>1, <1>2, <1>3
  <2> QED
    BY <1>1, <2>1, <2>2, SameBooks
<1>4. CASE Mine(w) = k
  <2>1. Sent(refunds[k])
    BY <1>1, <1>4 DEF ReportsInv, KnowsAt, Knows
  <2>2. AboutToDebit(k)' <=> AboutToDebit(k)
    BY <1>1 DEF AboutToDebit, Compensating, Alone, Mine
  <2>3. credits'[k] > 0 \/ AboutToCredit(k)'
    <3>1. CASE credits' = credits /\ pc'[w] \in Compensating
      BY <1>1, <1>4, <3>1 DEF AboutToCredit, Mine
    <3>2. CASE credits' = [credits EXCEPT ![Mine(w)] = @ + 1]
      BY <1>1, <1>4, <3>2
    <3> QED
      BY <1>2, <3>1, <3>2
  <2> QED
    BY <1>1, <2>1, <2>2, <2>3 DEF BooksOf
<1> QED
  BY <1>3, <1>4

\* A save is no booking, and goes to the books of its own refund only.
LEMMA WritingPlaces ==
  ASSUME TypeInv, NEW w \in Workers, Writing(w)
  PROVE  /\ Alone(w) /\ pc[w] \notin Booking /\ UNCHANGED <<debits, credits, view>>
         /\ pc'[w] \in Booking => Mine(w)' = Mine(w)
         /\ \A k \in Keys : k # Mine(w) => refunds'[k] = refunds[k]
<1>1. UNCHANGED <<debits, credits, view>>
  BY DEF Writing, CreateRefund, SaveAccepted, SaveFailed, RetrySave, ApplyState, ledgerVars, orderVars
<1>2. \A k \in Keys : k # Mine(w) => refunds'[k] = refunds[k]
  BY TypeFacts DEF Writing, CreateRefund, SaveAccepted, SaveFailed, RetrySave, ApplyState, Mine
<1>3. pc[w] \notin Booking
  BY DEF Writing, CreateRefund, SaveAccepted, SaveFailed, RetrySave, ApplyState, Booking, Compensating
<1>4. CASE SaveAccepted(w)
  BY <1>1, <1>2, <1>3, <1>4, TypeFacts DEF SaveAccepted, WorkersOK, Alone, Locals, Mine
<1>5. CASE ApplyState(w) \/ RetrySave(w)
  <2>1. \E label : GoTo(w, label)
    BY <1>5 DEF ApplyState, RetrySave
  <2> QED
    BY <1>1, <1>2, <1>3, <2>1, TypeFacts, MovesAlone DEF Mine
<1>6. CASE CreateRefund(w) \/ SaveFailed(w)
  <2>1. GoWith(w, "execute", [loc[w] EXCEPT !.own = TRUE]) \/ Finish(w) \/ Throw(w)
    BY <1>6 DEF CreateRefund, SaveFailed
  <2>2. Alone(w) /\ pc'[w] \in {"execute", "idle", "release", "retryFail"}
    BY <2>1, TypeFacts, MovesAlone
  <2> QED
    BY <1>1, <1>2, <1>3, <2>2 DEF Booking, Compensating
<1> QED
  BY <1>4, <1>5, <1>6 DEF Writing

\* A save that neither sends the refund nor gives it up.
LEMMA IdleBooks ==
  ASSUME NEW k \in Keys, BooksOf(k), Sent(refunds'[k]) <=> Sent(refunds[k]),
         debits'[k] = debits[k], credits'[k] = credits[k],
         refunds'[k].state = FAILED => refunds[k].state = FAILED,
         AboutToDebit(k)' <=> AboutToDebit(k), AboutToCredit(k)' <=> AboutToCredit(k)
  PROVE  BooksOf(k)'
BY DEF BooksOf

LEMMA ApplyBooks ==
  ASSUME TypeInv, ReportsInv, BooksInv, NEW w \in Workers, ApplyState(w), NEW k, k = Mine(w),
         ~Marred(refunds'[k]), BooksOf(k)
  PROVE  BooksOf(k)'
<1>1. /\ Knows("applyState", loc[w], refunds[k], gw[k], channel) /\ pc[w] = "applyState" /\ k \in Keys
      /\ refunds \in [Keys -> RefundDoc] /\ Mine(w)' = k /\ Alone(w)
      /\ UNCHANGED <<debits, credits>> /\ ~loc[w].own
  BY TypeFacts, MovesAlone
  DEF ReportsInv, KnowsAt, ApplyState, Mine, ledgerVars, Knows, Role
<1>2. /\ refunds'[k].state = loc[w].next /\ (Marred(refunds'[k]) <=> Marred(refunds[k]))
      /\ pc'[w] = IF loc[w].op = "mark" THEN "ledger"
                  ELSE IF loc[w].next = FAILED /\ loc[w].before = PENDING THEN "webhookRelease"
                  ELSE "project"
  BY <1>1, TypeFacts DEF ApplyState, Mine, RefundDoc, Marred, GoTo, WorkersOK
<1>3. ~Marred(refunds[k])
  BY <1>2
<1>a. \A v \in Workers : v # w => pc'[v] = pc[v] /\ loc'[v].key = loc[v].key
  BY <1>1 DEF Alone
<1>b. loc'[w].key = loc[w].key
  BY <1>1 DEF Mine
<1>4. CASE loc[w].op = "webhook"
  <2>1. /\ Sent(refunds[k]) /\ loc[w].before # INITIATED /\ CanTransition(loc[w].before, loc[w].next)
        /\ loc[w].next \in {PENDING, PROCESSED, FAILED}
    BY <1>1, <1>3, <1>4 DEF Knows, Deciding, Heard, Reporting
  <2>2. Sent(refunds'[k])
    BY <1>2, <2>1 DEF Sent, INITIATED, PENDING, PROCESSED, FAILED
  <2>3. pc'[w] \in {"webhookRelease", "project"}
    BY <1>2, <1>4
  <2>4. AboutToDebit(k)' <=> AboutToDebit(k)
    BY <1>1, <1>a, <2>3 DEF AboutToDebit, Mine
  <2>5. refunds'[k].state = FAILED => AboutToCredit(k)'
    <3>1. ASSUME refunds'[k].state = FAILED PROVE pc'[w] \in Compensating
      <4>1. loc[w].before = PENDING
        BY <1>2, <2>1, <3>1
        DEF CanTransition, ValidTransitions, INITIATED, PENDING, PROCESSED, FAILED, PERMANENTLY_FAILED
      <4> QED
        BY <1>2, <1>4, <3>1, <4>1 DEF Compensating
    <3> QED
      BY <1>b, <3>1 DEF AboutToCredit, Mine
  <2> QED
    BY <1>1, <2>1, <2>2, <2>4, <2>5 DEF BooksOf
<1>5. CASE loc[w].op = "mark"
  <2>1. refunds[k].state = INITIATED
    BY <1>1, <1>3, <1>5 DEF BooksInv, Marks
  <2>2. debits[k] = 0
    BY <2>1 DEF BooksOf, Sent
  <2>3. refunds'[k].state = PROCESSED
    BY <1>1, <1>2, <1>5 DEF Knows
  <2>4. Sent(refunds'[k]) /\ refunds'[k].state # FAILED
    BY <2>3 DEF Sent, PROCESSED, INITIATED, FAILED
  <2>5. AboutToDebit(k)'
    BY <1>2, <1>5, <1>b DEF AboutToDebit, Mine
  <2> QED
    BY <1>1, <2>2, <2>4, <2>5 DEF BooksOf
<1>6. CASE loc[w].op = "exhaust"
  BY <1>1, <1>3, <1>6 DEF Knows
<1> QED
  BY <1>1, <1>4, <1>5, <1>6 DEF Knows, Role

LEMMA SaveBooks ==
  ASSUME TypeInv, ReportsInv, NEW w \in Workers, SaveAccepted(w), NEW k, k = Mine(w),
         ~Marred(refunds'[k]), BooksOf(k)
  PROVE  BooksOf(k)'
<1>1. /\ Knows("save", loc[w], refunds[k], gw[k], channel) /\ pc[w] = "save" /\ k \in Keys
      /\ refunds \in [Keys -> RefundDoc] /\ Alone(w) /\ UNCHANGED <<debits, credits>>
      /\ loc'[w].key = loc[w].key
  BY TypeFacts
  DEF ReportsInv, KnowsAt, SaveAccepted, Mine, ledgerVars, Alone, WorkersOK, Locals
<1>2. Marred(refunds'[k]) <=> Marred(refunds[k])
  BY <1>1 DEF SaveAccepted, Mine, RefundDoc, Marred
<1>a. \A v \in Workers : v # w => pc'[v] = pc[v] /\ loc'[v].key = loc[v].key
  BY <1>1 DEF Alone
<1>3. CASE loc[w].op = "initiate" /\ channel = "razorpay"
  <2>1. refunds'[k].state = PENDING /\ pc'[w] = "ledger"
    BY <1>1, <1>3, TypeFacts DEF SaveAccepted, Mine, RefundDoc, WorkersOK
  <2>2. refunds[k].state = INITIATED
    BY <1>1, <1>2, <1>3 DEF Knows, Role
  <2>3. AboutToDebit(k)'
    BY <1>1, <2>1 DEF AboutToDebit, Mine
  <2>4. debits[k] = 0
    BY <2>2 DEF BooksOf, Sent
  <2>5. Sent(refunds'[k]) /\ refunds'[k].state # FAILED
    BY <2>1 DEF Sent, PENDING, INITIATED, FAILED
  <2> QED
    BY <1>1, <2>3, <2>4, <2>5 DEF BooksOf
<1>4. CASE loc[w].op = "retry" \/ channel = "bank_transfer"
  <2>1. refunds'[k].state = refunds[k].state /\ pc'[w] = "project"
    BY <1>1, <1>2, <1>4, TypeFacts DEF SaveAccepted, Mine, RefundDoc, WorkersOK, Knows, Counted
  <2>2. (AboutToDebit(k)' <=> AboutToDebit(k)) /\ (AboutToCredit(k)' <=> AboutToCredit(k))
    BY <1>1, <2>1, Bystander DEF Booking, Compensating
  <2>3. Sent(refunds'[k]) <=> Sent(refunds[k])
    BY <2>1 DEF Sent
  <2> QED
    BY <1>1, <2>1, <2>2, <2>3, IdleBooks
<1> QED
  BY <1>3, <1>4 DEF SaveAccepted

LEMMA CreateBooks ==
  ASSUME TypeInv, ReportsInv, NEW w \in Workers, CreateRefund(w), NEW k, k = Mine(w), BooksOf(k)
  PROVE  BooksOf(k)'
<1>1. /\ k \in Keys /\ refunds \in [Keys -> RefundDoc] /\ UNCHANGED <<debits, credits>>
      /\ pc[w] \notin Booking
  BY TypeFacts DEF CreateRefund, Mine, ledgerVars, Booking, Compensating
<1>2. Alone(w) /\ pc'[w] \in {"execute", "release", "retryFail", "idle"}
  <2>1. GoWith(w, "execute", [loc[w] EXCEPT !.own = TRUE]) \/ Throw(w)
    BY DEF CreateRefund
  <2> QED
    BY <2>1, TypeFacts, MovesAlone
<1>3. (AboutToDebit(k)' <=> AboutToDebit(k)) /\ (AboutToCredit(k)' <=> AboutToCredit(k))
  BY <1>1, <1>2, Bystander DEF Booking, Compensating
<1>4. CASE refunds' = refunds
  BY <1>1, <1>3, <1>4, SameBooks
<1>5. CASE /\ ~DuplicateKeyError(loc[w].key)
           /\ refunds' = [refunds EXCEPT ![loc[w].key] = [Absent EXCEPT !.state = INITIATED]]
  <2>1. refunds[k].state = "absent" /\ refunds'[k].state = INITIATED
    BY <1>1, <1>5 DEF DuplicateKeyError, Exists, Mine, Absent
  <2>2. ~Sent(refunds[k]) /\ ~Sent(refunds'[k]) /\ refunds'[k].state # FAILED
    BY <2>1 DEF Sent, INITIATED, FAILED
  <2> QED
    BY <1>1, <1>3, <2>2, IdleBooks
<1> QED
  BY <1>4, <1>5 DEF CreateRefund

LEMMA WritingBooks ==
  ASSUME TypeInv, TypeInv', ReportsInv, BooksInv, NEW w \in Workers, Writing(w), NEW k \in Keys,
         ~Marred(refunds'[k]), BooksOf(k)
  PROVE  BooksOf(k)'
<1>1. CASE Mine(w) # k
  <2>1. (AboutToDebit(k)' <=> AboutToDebit(k)) /\ (AboutToCredit(k)' <=> AboutToCredit(k))
    BY <1>1, WritingPlaces, Bystander
  <2> QED
    BY <1>1, <2>1, WritingPlaces, SameBooks
<1>2. CASE k = Mine(w)
  <2>1. CASE SaveFailed(w) \/ RetrySave(w)
    BY <1>2, <2>1, MarReports
  <2>2. CASE ApplyState(w)
    BY <1>2, <2>2, ApplyBooks
  <2>3. CASE SaveAccepted(w)
    BY <1>2, <2>3, SaveBooks
  <2>4. CASE CreateRefund(w)
    BY <1>2, <2>4, CreateBooks
  <2> QED
    BY <2>1, <2>2, <2>3, <2>4 DEF Writing
<1> QED
  BY <1>1, <1>2

\* Who comes to save a report, to book a debit, or to save a projection.
LEMMA Arrivals ==
  ASSUME TypeInv, ReportsInv, NEW w \in Workers, Continue(w) \/ Fault(w)
  PROVE  /\ pc'[w] = "applyState" => loc[w].op \in {"webhook", "retry"}
         /\ pc'[w] = "ledger" => loc[w].op = "mark" \/ channel = "razorpay"
         /\ pc'[w] = "projectSave" => ProjectRead(w)
<1>1. Knows(pc[w], loc[w], refunds[Mine(w)], gw[Mine(w)], channel)
  BY DEF ReportsInv, KnowsAt
<1>2. ASSUME Finish(w) \/ Throw(w) PROVE pc'[w] \notin {"applyState", "ledger", "projectSave"}
  BY <1>2, TypeFacts, MovesAlone
<1>3. ASSUME NEW label, label \notin {"applyState", "ledger", "projectSave"}, GoTo(w, label) \/ (\E l : GoWith(w, label, l))
      PROVE  pc'[w] \notin {"applyState", "ledger", "projectSave"}
  BY <1>3, TypeFacts, MovesAlone
<1>4. CASE LazySeed(w) \/ Reserve(w) \/ RecordRefund(w) \/ ReleaseAfterFailure(w) \/ SaveFailed(w)
  BY <1>2, <1>3, <1>4 DEF LazySeed, Reserve, RecordRefund, ReleaseAfterFailure, SaveFailed
<1>5. CASE CreateRefund(w) \/ ExecuteStrategy(w)
  BY <1>2, <1>3, <1>5 DEF CreateRefund, ExecuteStrategy
<1>6. CASE ProjectStep(w)
  <2>1. CASE ProjectRead(w)
    <3>1. (\E l : GoWith(w, "projectSave", l)) \/ Finish(w)
      BY <2>1 DEF ProjectRead
    <3> QED
      BY <2>1, <3>1, TypeFacts, MovesAlone
  <2>2. CASE ProjectSave(w)
    BY <1>2, <2>2 DEF ProjectSave
  <2> QED
    BY <1>6, <2>1, <2>2 DEF ProjectStep
<1>7. CASE WebhookRelease(w) \/ RecordAdjustment(w) \/ RetrySave(w)
  BY <1>3, <1>7 DEF WebhookRelease, RecordAdjustment, RetrySave
<1>8. CASE Fault(w)
  BY <1>2, <1>3, <1>8 DEF Fault, DatabaseError, AnswerLost, Crash
<1>9. CASE FindRefund(w) \/ RetryRead(w)
  <2>1. loc[w].op \in {"webhook", "retry"}
    BY <1>1, <1>9 DEF FindRefund, RetryRead, Knows, Role
  <2>2. pc'[w] \notin {"ledger", "projectSave"}
    <3>1. Finish(w) \/ \E label \in {"applyState", "retrySave"} : \E l : GoWith(w, label, l)
      BY <1>9 DEF FindRefund, RetryRead
    <3> QED
      BY <3>1, TypeFacts, MovesAlone
  <2> QED
    BY <2>1, <2>2
<1>10. CASE SaveAccepted(w)
  BY <1>10, TypeFacts DEF SaveAccepted, WorkersOK
<1>11. CASE ApplyState(w)
  <2>1. (GoTo(w, "ledger") /\ loc[w].op = "mark") \/ GoTo(w, "webhookRelease") \/ GoTo(w, "project")
    BY <1>11 DEF ApplyState
  <2> QED
    BY <2>1, TypeFacts, MovesAlone
<1> QED
  BY <1>4, <1>5, <1>6, <1>7, <1>8, <1>9, <1>10, <1>11 DEF Continue, InitiateStep, WebhookStep, RetryStep

\* The refund of a marker that is about to save is written by nobody else.
LEMMA MarkUndisturbed ==
  ASSUME TypeInv, TypeInv', ReportsInv, BooksInv, OneMarker, NEW v \in Workers, NEW w \in Workers,
         v # w, Writing(w), loc[v].op = "mark", pc[v] = "applyState", ~Marred(refunds'[Mine(v)])
  PROVE  refunds'[Mine(v)].state = refunds[Mine(v)].state
<1>1. /\ channel # "razorpay" /\ refunds[Mine(v)].state # "absent" /\ v \in Markers
      /\ Mine(v) \in Keys /\ refunds \in [Keys -> RefundDoc]
  BY TypeFacts DEF ReportsInv, KnowsAt, Knows, AtDocument, BooksInv, Marks, Mine
<1>2. Knows(pc[w], loc[w], refunds[Mine(w)], gw[Mine(w)], channel)
  BY DEF ReportsInv, KnowsAt
<1>3. CASE Mine(w) # Mine(v)
  BY <1>1, <1>3, WritingPlaces
<1>4. CASE Mine(w) = Mine(v) /\ CreateRefund(w)
  BY <1>1, <1>4 DEF CreateRefund, DuplicateKeyError, Exists, Mine
<1>5. CASE Mine(w) = Mine(v) /\ SaveAccepted(w)
  BY <1>1, <1>5 DEF SaveAccepted, Mine, RefundDoc
<1>6. CASE Mine(w) = Mine(v) /\ (SaveFailed(w) \/ RetrySave(w))
  BY <1>6, MarReports
<1>7. CASE ApplyState(w)
  <2>1. loc[w].op = "mark"
    BY <1>1, <1>2, <1>7 DEF ApplyState, Knows, Role
  <2> QED
    BY <1>1, <2>1 DEF BooksInv, Marks, OneMarker
<1> QED
  BY <1>3, <1>4, <1>5, <1>6, <1>7 DEF Writing

LEMMA MarksNext ==
  ASSUME TypeInv, TypeInv', ReportsInv, BooksInv, OneMarker, [Next]_vars, NEW v \in Workers
  PROVE  Marks(v)'
<1>0. Marks(v) /\ channel' = channel
  <2>1. ASSUME NEW w \in Workers, Start(w) \/ Fault(w) PROVE channel' = channel
    BY <2>1 DEF Start, StartInitiate, StartWebhook, StartReconcile, StartRetryJob, StartRetryAdmin,
                StartMark, Fault, DatabaseError, AnswerLost, Crash, orderVars
  <2>2. ASSUME NEW w \in Workers, InitiateStep(w) PROVE channel' = channel
    BY <2>2 DEF InitiateStep, LazySeed, Reserve, CreateRefund, ExecuteStrategy, SaveAccepted,
                RecordRefund, ReleaseAfterFailure, SaveFailed, orderVars
  <2>3. ASSUME NEW w \in Workers, ProjectStep(w) \/ WebhookStep(w) \/ RetryStep(w) PROVE channel' = channel
    BY <2>3 DEF ProjectStep, WebhookStep, RetryStep, ProjectRead, ProjectSave, FindRefund, ApplyState,
                WebhookRelease, RecordAdjustment, RetryRead, RetrySave, orderVars
  <2>4. channel' = channel
    BY <2>1, <2>2, <2>3 DEF Next, Continue, GatewaySettle, orderVars, vars
  <2> QED
    BY <2>4 DEF BooksInv
<1>1. ASSUME pc'[v] = pc[v], loc'[v] = loc[v], refunds' = refunds PROVE Marks(v)'
  BY <1>0, <1>1 DEF Marks, Mine
<1>2. ASSUME NEW w \in Workers, Start(w) PROVE Marks(v)'
  <2>1. Alone(w) /\ pc'[w] # "ledger" /\ refunds' = refunds
    BY <1>2, StartPasses DEF Passes, Booking, NoBooks
  <2>2. CASE v # w
    BY <1>1, <2>1, <2>2 DEF Alone
  <2>3. CASE v = w
    <3>1. ASSUME NEW k \in Keys, StartMark(w, k)
          PROVE  /\ w \in Markers /\ loc'[w].key = k
                 /\ ~Marred(refunds[k]) => refunds[k].state = INITIATED
      <4>1. PICK l : l = [NoLocals EXCEPT !.op = "mark", !.key = k,
                                          !.before = refunds[k].state, !.next = PROCESSED]
        OBVIOUS
      <4>2. l.key = k /\ Begin(w, "applyState", l) /\ w \in Markers
        BY <3>1, <4>1, NoLocalsType DEF StartMark, Locals
      <4>3. channel # "razorpay" /\ refunds[k].state # "absent" /\ CanTransition(refunds[k].state, PROCESSED)
        BY <3>1 DEF StartMark, Exists
      <4>4. ~Marred(refunds[k]) => refunds[k].state \in {"absent", INITIATED, PROCESSED}
        BY <4>3 DEF ReportsInv, Matched
      <4>5. ~CanTransition(PROCESSED, PROCESSED)
        BY DEF CanTransition, ValidTransitions, INITIATED, PENDING, PROCESSED, FAILED, PERMANENTLY_FAILED
      <4> QED
        BY <4>2, <4>3, <4>4, <4>5, TypeFacts, MovesAlone
    <3>2. loc'[w].op = "mark" => \E k \in Keys : StartMark(w, k)
      <4> HIDE DEF NoLocals
      <4>1. ASSUME NEW o, NEW label, NEW l, Begin(w, label, l), l.op = o, o # "mark"
            PROVE  loc'[w].op # "mark"
        BY <4>1, TypeFacts, MovesAlone
      <4>2. ASSUME NEW k \in Keys,
                   StartInitiate(w, k) \/ StartReconcile(w, k) \/ StartRetryJob(w, k) \/ StartRetryAdmin(w, k)
            PROVE  loc'[w].op # "mark"
        <5>1. /\ [NoLocals EXCEPT !.op = "initiate", !.key = k].op = "initiate"
              /\ [NoLocals EXCEPT !.op = "retry", !.key = k].op = "retry"
              /\ [NoLocals EXCEPT !.op = "webhook", !.key = k, !.gid = refunds[k].gid,
                    !.next = StateOfGatewayStatus(gw[k][refunds[k].gid])].op = "webhook"
          BY NoLocalsType DEF Locals
        <5> QED
          BY <4>1, <4>2, <5>1 DEF StartInitiate, StartReconcile, StartRetryJob, StartRetryAdmin
      <4>3. ASSUME NEW m \in inbox, StartWebhook(w, m) PROVE loc'[w].op # "mark"
        <5>1. [NoLocals EXCEPT !.op = "webhook", !.key = m.key, !.gid = m.gid,
                 !.next = StateOfGatewayStatus(m.status)].op = "webhook"
          BY NoLocalsType DEF Locals
        <5> QED
          BY <4>1, <4>3, <5>1 DEF StartWebhook
      <4> QED
        BY <1>2, <4>2, <4>3 DEF Start
    <3> QED
      BY <2>1, <2>3, <3>1, <3>2 DEF Marks, Mine
  <2> QED
    BY <2>2, <2>3
<1>3. ASSUME NEW w \in Workers, Continue(w) \/ Fault(w) PROVE Marks(v)'
  <2>1. Alone(w) /\ (loc'[w].op \in {loc[w].op, "none"} \/ loc'[w].op = "exhaust")
    BY <1>3, OpKept
  <2>2. CASE v # w
    <3>1. pc'[v] = pc[v] /\ loc'[v] = loc[v]
      BY <2>1, <2>2 DEF Alone
    <3>2. CASE Writing(w)
      <4>1. loc[v].op = "mark" /\ pc[v] = "applyState" /\ ~Marred(refunds'[Mine(v)])
              => refunds'[Mine(v)].state = INITIATED
        <5> SUFFICES ASSUME loc[v].op = "mark", pc[v] = "applyState", ~Marred(refunds'[Mine(v)])
                     PROVE  refunds'[Mine(v)].state = INITIATED
          OBVIOUS
        <5>1. ~Marred(refunds[Mine(v)])
          BY MarredStays, TypeFacts DEF Mine
        <5> QED
          BY <1>0, <2>2, <3>2, <5>1, MarkUndisturbed DEF Marks
      <4> QED
        BY <1>0, <3>1, <4>1 DEF Marks, Mine
    <3>3. CASE ~Writing(w)
      <4>1. refunds' = refunds
        BY <1>3, <3>3 DEF Continue, InitiateStep, ProjectStep, WebhookStep, RetryStep, Writing, LazySeed, Reserve,
              ExecuteStrategy, RecordRefund, ReleaseAfterFailure, ProjectRead, ProjectSave, FindRefund,
              WebhookRelease, RecordAdjustment, RetryRead, Fault, DatabaseError, AnswerLost, Crash
      <4> QED
        BY <1>1, <3>1, <4>1
    <3> QED
      BY <3>2, <3>3
  <2>3. CASE v = w
    <3>1. /\ pc'[w] = "applyState" => loc[w].op \in {"webhook", "retry"}
          /\ pc'[w] = "ledger" => loc[w].op = "mark" \/ channel = "razorpay"
      BY <1>3, Arrivals
    <3>2. pc'[w] = "ledger" => loc'[w].op = loc[w].op \/ channel = "razorpay"
      <4>1. CASE SaveAccepted(w) \/ ApplyState(w)
        BY <4>1, TypeFacts DEF SaveAccepted, ApplyState, GoTo, WorkersOK, Locals
      <4>2. CASE ~(SaveAccepted(w) \/ ApplyState(w))
        <5>1. CASE CreateRefund(w) \/ SaveFailed(w) \/ RetrySave(w)
          <6>1. (\E label \in {"execute"} : GoTo(w, label) \/ \E l : GoWith(w, label, l)) \/ Finish(w) \/ Throw(w)
            BY <5>1 DEF CreateRefund, SaveFailed, RetrySave
          <6> QED
            BY <6>1, TypeFacts, MovesAlone
        <5>2. CASE Fault(w)
          <6>1. GoTo(w, "markFailed") \/ Finish(w) \/ Throw(w)
            BY <5>2 DEF Fault, DatabaseError, AnswerLost, Crash
          <6> QED
            BY <6>1, TypeFacts, MovesAlone
        <5>3. CASE RecordRefund(w) \/ WebhookRelease(w) \/ RecordAdjustment(w)
          BY <5>3, TypeFacts, MovesAlone DEF RecordRefund, WebhookRelease, RecordAdjustment
        <5>4. CASE Continue(w) /\ ~Writing(w) /\ ~RecordRefund(w) /\ ~WebhookRelease(w) /\ ~RecordAdjustment(w)
          BY <5>4, QuietPasses DEF Passes, Booking
        <5> QED
          BY <1>3, <4>2, <5>1, <5>2, <5>3, <5>4 DEF Writing
      <4> QED
        BY <4>1, <4>2
    <3> QED
      BY <1>0, <2>1, <2>3, <3>1, <3>2 DEF Marks
  <2> QED
    BY <2>2, <2>3
<1> QED
  BY <1>1, <1>2, <1>3 DEF Next, GatewaySettle, workerVars, vars

LEMMA GrowsNext ==
  ASSUME TypeInv, [Next]_vars, NEW k \in Keys
  PROVE  Grows(gw[k], gw'[k])
<1>0. gw \in [Keys -> Seq(GatewayStatuses)]
  BY DEF TypeInv, TypeOK
<1>1. CASE gw' = gw
  BY <1>1, Unchanging
<1>2. ASSUME NEW j \in Keys, GatewayAccept(j) PROVE Grows(gw[k], gw'[k])
  BY <1>0, <1>2 DEF GatewayAccept, Grows
<1>3. ASSUME NEW j \in Keys, NEW n \in 1..Len(gw[j]), GatewaySettle(j, n) PROVE Grows(gw[k], gw'[k])
  <2>1. PICK s : gw' = [gw EXCEPT ![j][n] = s]
    BY <1>3 DEF GatewaySettle
  <2>2. gw[j][n] = "created"
    BY <1>3 DEF GatewaySettle
  <2>3. CASE j # k
    BY <1>0, <2>1, <2>3, Unchanging
  <2>4. CASE j = k
    <3>1. gw'[k] = [gw[k] EXCEPT ![n] = s]
      BY <1>0, <2>1, <2>4
    <3> QED
      BY <1>0, <2>2, <2>4, <3>1 DEF Grows
  <2> QED
    BY <2>3, <2>4
<1>4. ASSUME NEW w \in Workers, Start(w)
      PROVE  gw' = gw
  BY <1>4 DEF Start, StartInitiate, StartWebhook, StartReconcile, StartRetryJob, StartRetryAdmin, StartMark,
              gatewayVars
<1>5. ASSUME NEW w \in Workers, Fault(w) \/ ExecuteStrategy(w)
      PROVE  gw' = gw \/ GatewayAccept(loc[w].key)
  BY <1>5 DEF Fault, DatabaseError, AnswerLost, Crash, ExecuteStrategy, gatewayVars
<1>6. ASSUME NEW w \in Workers, Continue(w), ~ExecuteStrategy(w)
      PROVE  gw' = gw
  BY <1>6 DEF Continue, InitiateStep, ProjectStep, WebhookStep, RetryStep, LazySeed, Reserve,
              CreateRefund, SaveAccepted, RecordRefund, ReleaseAfterFailure, SaveFailed, ProjectRead,
              ProjectSave, FindRefund, ApplyState, WebhookRelease, RecordAdjustment, RetryRead, RetrySave,
              gatewayVars
<1> QED
  BY <1>1, <1>2, <1>3, <1>4, <1>5, <1>6, TypeFacts DEF Next, vars

\* A compensating row is only booked for a refund that the gateway failed.
LEMMA CreditsNext ==
  ASSUME TypeInv, ReportsInv, BooksInv, [Next]_vars, NEW k \in Keys, credits'[k] # 0
  PROVE  Settled(k, "failed")'
<1>1. Settled(k, "failed")
  <2>1. CASE credits'[k] = credits[k]
    BY <2>1 DEF BooksInv
  <2>2. ASSUME NEW w \in Workers, RecordAdjustment(w) PROVE credits'[k] = credits[k] \/ Settled(k, "failed")
    <3>1. CASE Mine(w) # k
      BY <2>2, <3>1, TypeFacts DEF RecordAdjustment, Mine, TypeInv, TypeOK
    <3>2. CASE Mine(w) = k
      <4>1. Heard(loc[w], gw[k]) /\ loc[w].next = FAILED
        BY <2>2, <3>2 DEF RecordAdjustment, ReportsInv, KnowsAt, Knows, Role, Reporting, Compensating
      <4>2. gw[k] \in Seq(GatewayStatuses)
        BY DEF TypeInv, TypeOK
      <4>3. loc[w].gid \in 1..Len(gw[k]) /\ StateOfGatewayStatus(gw[k][loc[w].gid]) = FAILED
            /\ gw[k][loc[w].gid] \in GatewayStatuses
        BY <4>1, <4>2 DEF Heard, PENDING, FAILED
      <4>4. gw[k][loc[w].gid] = "failed"
        BY <4>3 DEF StateOfGatewayStatus, GatewayStatuses, PENDING, PROCESSED, FAILED
      <4> QED
        BY <4>3, <4>4 DEF Settled
    <3> QED
      BY <3>1, <3>2
  <2>3. ASSUME NEW w \in Workers, Start(w) \/ Fault(w) PROVE credits' = credits
    BY <2>3 DEF Start, StartInitiate, StartWebhook, StartReconcile, StartRetryJob, StartRetryAdmin,
                StartMark, Fault, DatabaseError, AnswerLost, Crash, ledgerVars
  <2>4. ASSUME NEW w \in Workers, Continue(w), ~RecordAdjustment(w) PROVE credits' = credits
    BY <2>4 DEF Continue, InitiateStep, ProjectStep, WebhookStep, RetryStep, LazySeed, Reserve,
                CreateRefund, ExecuteStrategy, SaveAccepted, RecordRefund, ReleaseAfterFailure, SaveFailed,
                ProjectRead, ProjectSave, FindRefund, ApplyState, WebhookRelease, RetryRead, RetrySave,
                ledgerVars
  <2> QED
    BY <2>1, <2>2, <2>3, <2>4 DEF Next, GatewaySettle, ledgerVars, vars
<1>2. PICK n \in 1..Len(gw[k]) : gw[k][n] = "failed"
  BY <1>1 DEF Settled
<1>3. n \in 1..Len(gw'[k]) /\ gw'[k][n] = "failed"
  BY <1>2, GrowsNext DEF Grows
<1> QED
  BY <1>3 DEF Settled

\* What the order shows, and what a projection is about to show.
LEMMA ShownNext ==
  ASSUME TypeInv, TypeInv', ReportsInv, BooksInv, MaxRetries > 0, [Next]_vars
  PROVE  /\ ShownIsPaid(view)'
         /\ \A v \in Workers : pc'[v] = "projectSave" => ShownIsPaid(loc[v].new)'
<1>1. ASSUME NEW e, ShownIsPaid(e)
      PROVE  \A k \in Keys : e[k].status = "processed" /\ ~Marred(refunds'[k]) => refunds'[k].state = PROCESSED
  BY <1>1, PaidStays
<1>2. ASSUME NEW w \in Workers, ProjectSave(w) PROVE view' = view \/ (view' = loc[w].new /\ pc[w] = "projectSave")
  BY <1>2 DEF ProjectSave
<1>3. ASSUME NEW w \in Workers, Start(w) \/ Fault(w) PROVE view' = view
  BY <1>3 DEF Start, StartInitiate, StartWebhook, StartReconcile, StartRetryJob, StartRetryAdmin,
              StartMark, Fault, DatabaseError, AnswerLost, Crash, orderVars
<1>4. ASSUME NEW w \in Workers, Continue(w), ~ProjectSave(w) PROVE view' = view
  BY <1>4 DEF Continue, InitiateStep, ProjectStep, WebhookStep, RetryStep, LazySeed, Reserve,
              CreateRefund, ExecuteStrategy, SaveAccepted, RecordRefund, ReleaseAfterFailure, SaveFailed,
              ProjectRead, FindRefund, ApplyState, WebhookRelease, RecordAdjustment, RetryRead, RetrySave,
              orderVars
<1>5. view' = view \/ \E w \in Workers : view' = loc[w].new /\ pc[w] = "projectSave"
  BY <1>2, <1>3, <1>4 DEF Next, GatewaySettle, orderVars, vars
<1>6. PICK e : e = view'
  OBVIOUS
<1>7. ShownIsPaid(e)
  BY <1>5, <1>6 DEF BooksInv
<1>8. ShownIsPaid(view)'
  BY <1>1, <1>6, <1>7 DEF ShownIsPaid
<1>9. ASSUME NEW v \in Workers, pc'[v] = "projectSave" PROVE ShownIsPaid(loc[v].new)'
  <2>1. CASE pc'[v] = pc[v] /\ loc'[v] = loc[v]
    BY <1>1, <1>9, <2>1 DEF BooksInv, ShownIsPaid
  <2>2. CASE ProjectRead(v)
    <3>1. GoWith(v, "projectSave", [loc[v] EXCEPT !.new = ShownEntries]) /\ refunds' = refunds
      BY <1>9, <2>2, TypeFacts, MovesAlone DEF ProjectRead
    <3>2. loc'[v].new = ShownEntries
      BY <3>1, TypeFacts, MovesAlone DEF Locals
    <3>3. ASSUME NEW k \in Keys, ShownEntries[k].status = "processed" PROVE refunds[k].state = PROCESSED
      BY <3>3, TypeFacts DEF ShownEntries, Exists, NotShown, LegacyStatus, RefundDoc, RefundStates,
                             INITIATED, PENDING, PROCESSED, FAILED, PERMANENTLY_FAILED
    <3> QED
      BY <3>1, <3>2, <3>3 DEF ShownIsPaid
  <2>3. ASSUME NEW w \in Workers, Start(w), v = w PROVE FALSE
    BY <1>9, <2>3, StartPasses
  <2>4. ASSUME NEW w \in Workers, Start(w), v # w PROVE pc'[v] = pc[v] /\ loc'[v] = loc[v]
    BY <2>4, StartPasses DEF Passes, Alone
  <2>5. ASSUME NEW w \in Workers, Continue(w) \/ Fault(w), v = w PROVE ProjectRead(v)
    BY <1>9, <2>5, Arrivals
  <2>6. ASSUME NEW w \in Workers, Continue(w) \/ Fault(w), v # w PROVE pc'[v] = pc[v] /\ loc'[v] = loc[v]
    BY <2>6, OpKept DEF Alone
  <2> QED
    BY <2>1, <2>2, <2>3, <2>4, <2>5, <2>6 DEF Next, GatewaySettle, workerVars, vars
<1> QED
  BY <1>8, <1>9

LEMMA BooksNext ==
  ASSUME TypeInv, TypeInv', ReportsInv, BooksInv, OneMarker, MaxRetries > 0, [Next]_vars
  PROVE  BooksInv'
<1>1. \A w \in Workers : Marks(w)'
  BY MarksNext
<1>2. ASSUME NEW k \in Keys, ~Settled(k, "failed")' PROVE credits'[k] = 0
  BY <1>2, CreditsNext
<1>3. ASSUME faults' = 0, NEW k \in Keys, ~Marred(refunds'[k]) PROVE BooksOf(k)'
  <2>1. faults = 0 /\ \A w \in Workers : ~Fault(w)
    BY <1>3, FaultsGrow
  <2>2. ~Marred(refunds[k])
    BY <1>3, MarredStays
  <2>3. BooksOf(k)
    BY <2>1, <2>2 DEF BooksInv
  <2>4. ASSUME NEW w \in Workers, Passes(w), NoBooks PROVE BooksOf(k)'
    <3>1. (AboutToDebit(k)' <=> AboutToDebit(k)) /\ (AboutToCredit(k)' <=> AboutToCredit(k))
      BY <2>4, Bystander DEF Passes
    <3> QED
      BY <2>3, <2>4, <3>1, SameBooks DEF NoBooks
  <2>5. ASSUME NEW w \in Workers, Start(w) PROVE BooksOf(k)'
    BY <2>4, <2>5, StartPasses
  <2>6. ASSUME NEW w \in Workers, Writing(w) PROVE BooksOf(k)'
    BY <1>3, <2>3, <2>6, WritingBooks
  <2>7. ASSUME NEW w \in Workers, RecordRefund(w) PROVE BooksOf(k)'
    BY <2>2, <2>3, <2>7, DebitBooks
  <2>8. ASSUME NEW w \in Workers, WebhookRelease(w) \/ RecordAdjustment(w) PROVE BooksOf(k)'
    BY <2>2, <2>3, <2>8, CreditBooks
  <2>9. ASSUME NEW w \in Workers, Continue(w), ~Writing(w), ~RecordRefund(w), ~RecordAdjustment(w),
               ~WebhookRelease(w)
        PROVE  BooksOf(k)'
    BY <2>4, <2>9, QuietPasses
  <2>10. ASSUME UNCHANGED <<refunds, debits, credits, pc, loc>> PROVE BooksOf(k)'
    <3>1. (AboutToDebit(k)' <=> AboutToDebit(k)) /\ (AboutToCredit(k)' <=> AboutToCredit(k))
      BY <2>10 DEF AboutToDebit, AboutToCredit, Mine
    <3> QED
      BY <2>3, <2>10, <3>1, SameBooks
  <2> QED
    BY <2>1, <2>5, <2>6, <2>7, <2>8, <2>9, <2>10 DEF Next, GatewaySettle, ledgerVars, workerVars, vars
<1> QED
  BY <1>1, <1>2, <1>3, ShownNext DEF BooksInv

LEMMA BooksInit == Init => BooksInv
<1> SUFFICES ASSUME Init PROVE BooksInv
  OBVIOUS
<1>1. ASSUME NEW w \in Workers PROVE Marks(w) /\ pc[w] # "projectSave" /\ pc[w] \notin Booking
  BY NoLocalsFacts DEF Init, Marks, Booking, Compensating
<1>2. ASSUME NEW k \in Keys
      PROVE  /\ credits[k] = 0 /\ debits[k] = 0 /\ refunds[k].state = "absent"
             /\ view[k].status # "processed"
  BY DEF Init, NothingShown, NotShown, Absent
<1>3. ASSUME NEW k \in Keys PROVE BooksOf(k)
  BY <1>2 DEF BooksOf, Sent, FAILED
<1> QED
  BY <1>1, <1>2, <1>3 DEF BooksInv, ShownIsPaid

\* Where nobody is at a refund, its ledger rows are all there.
LEMMA BooksMatch ==
  ASSUME TypeInv, ReportsInv, BooksInv, faults = 0, NEW k \in Keys, ~Marred(refunds[k]), Resting(k)
  PROVE  LedgerMatches(k)
<1>1. ~AboutToDebit(k) /\ ~AboutToCredit(k)
  BY DEF Resting, AboutToDebit, AboutToCredit, Compensating, Mine
<1>2. /\ debits[k] = IF Sent(refunds[k]) THEN 1 ELSE 0
      /\ ~Sent(refunds[k]) => credits[k] = 0
      /\ refunds[k].state = FAILED => credits[k] > 0
      /\ credits[k] \in Nat
      /\ ~Settled(k, "failed") => credits[k] = 0
  BY <1>1 DEF BooksInv, BooksOf, TypeInv, TypeOK
<1>3. Matched(refunds[k], gw[k], channel) /\ gw[k] \in Seq(GatewayStatuses)
  BY DEF ReportsInv, TypeInv, TypeOK
<1>4. refunds[k].state = PROCESSED => ~Settled(k, "failed")
  <2> SUFFICES ASSUME refunds[k].state = PROCESSED, NEW n \in 1..Len(gw[k]), gw[k][n] = "failed"
               PROVE  FALSE
    BY DEF Settled
  <2>1. channel = "razorpay"
    BY <1>3 DEF Matched
  <2>2. Len(gw[k]) = 1 /\ gw[k][1] = "processed"
    BY <1>3, <2>1 DEF Matched, Sent, PROCESSED, INITIATED
  <2>3. n = 1
    BY <2>2
  <2> QED
    BY <2>2, <2>3
<1>5. refunds[k].state = FAILED => Settled(k, "failed")
  <2> SUFFICES ASSUME refunds[k].state = FAILED PROVE Settled(k, "failed")
    OBVIOUS
  <2>1. channel = "razorpay"
    BY <1>3 DEF Matched, FAILED, INITIATED, PROCESSED
  <2>2. Len(gw[k]) = 1 /\ gw[k][1] = "failed"
    BY <1>3, <2>1 DEF Matched, Sent, FAILED, INITIATED
  <2> QED
    BY <2>2 DEF Settled
<1>6. refunds[k].state \in {"absent", INITIATED} => debits[k] = 0 /\ credits[k] = 0
  BY <1>2 DEF Sent
<1>7. refunds[k].state = PROCESSED \/ (refunds[k].state = PENDING /\ ~Settled(k, "failed"))
        => debits[k] - credits[k] = 1
  BY <1>2, <1>4 DEF Sent, PROCESSED, PENDING, INITIATED
<1>8. refunds[k].state = FAILED => debits[k] - credits[k] <= 0
  BY <1>2 DEF Sent, FAILED, INITIATED
<1> QED
  BY <1>5, <1>6, <1>7, <1>8 DEF LedgerMatches

\* A part of a sum is at most the sum.
LEMMA SumOfFewer ==
  ASSUME NEW S, IsFiniteSet(S), NEW T \in SUBSET S, NEW f, \A x \in S : f[x] \in Nat
  PROVE  SumFunctionOnSet(f, T) \in Nat /\ SumFunctionOnSet(f, T) <= SumFunctionOnSet(f, S)
<1> DEFINE g == [x \in S |-> IF x \in T THEN f[x] ELSE 0]
           h == [x \in S |-> IF x \in T THEN 0 ELSE f[x]]
<1>1. \A x \in S : g[x] \in Nat /\ h[x] \in Nat /\ f[x] = g[x] + h[x]
  OBVIOUS
<1>2. SumFunctionOnSet(g, S) = SumFunctionOnSet(f, T)
  <2>1. \A x \in S : g[x] = IF x \in T THEN f[x] ELSE 0
    OBVIOUS
  <2> HIDE DEF g
  <2> QED
    BY <2>1, SumOfPart
<1> HIDE DEF g, h
<1>3. SumFunctionOnSet(f, S) = SumFunctionOnSet(g, S) + SumFunctionOnSet(h, S)
  BY <1>1, SumOfBoth
<1>4. SumFunctionOnSet(g, S) \in Nat /\ SumFunctionOnSet(h, S) \in Nat
  BY <1>1, SumIsNat
<1> QED
  BY <1>2, <1>3, <1>4

\* Refunded in full is only shown when as much was paid.
LEMMA ShownInFull ==
  ASSUME TypeInv, ShownIsPaid(view), \A k \in Keys : ~Marred(refunds[k]), ShownRefundStatus = "processed"
  PROVE  PaidPaise >= Amount
<1> DEFINE P == {k \in Keys : refunds[k].state = PROCESSED}
           Q == {k \in DOMAIN ShownStatus : ShownStatus[k] = "processed"}
<1>1. Q \in SUBSET P /\ P \in SUBSET Keys
  BY DEF ShownStatus, ShownIsPaid
<1>2. RefundedPaise = SumFunctionOnSet(AmountOf, Q) /\ PaidPaise = SumFunctionOnSet(AmountOf, P)
  BY DEF RefundedPaise, PaidPaise, ProcessedPaise, MapThenSumSet, SumFunctionOnSet, FoldFunctionOnSet
<1>3. IsFiniteSet(P) /\ \A k \in P : AmountOf[k] \in Nat
  BY <1>1, KeysAssumption, AmountAssumption, FS_Subset
<1> HIDE DEF P, Q
<1>4. /\ SumFunctionOnSet(AmountOf, Q) <= SumFunctionOnSet(AmountOf, P)
      /\ SumFunctionOnSet(AmountOf, Q) \in Nat
  BY <1>1, <1>3, SumOfFewer
<1>5. SumFunctionOnSet(AmountOf, P) \in Nat
  BY <1>3, SumIsNat
<1>6. RefundedPaise >= Amount
  <2>1. PICK p : p = RefundedPaise
    OBVIOUS
  <2>2. p \in Nat /\ Amount \in Nat
    BY <1>2, <1>4, <2>1, AmountAssumption
  <2>3. ProcessedPaise(ShownStatus, AmountOf) = p
    BY <2>1 DEF RefundedPaise
  <2> QED
    BY <2>1, <2>2, <2>3 DEF ShownRefundStatus, OrderRefundStatus
<1> QED
  BY <1>2, <1>4, <1>5, <1>6, AmountAssumption

LEMMA BooksAgree ==
  ASSUME TypeInv, ReportsInv, BooksInv
  PROVE  RefundsAgree
<1> SUFFICES ASSUME faults = 0 PROVE RefundsAgree
  BY DEF RefundsAgree
<1>1. ASSUME NEW k \in Keys, ~Troubled(k)
      PROVE  /\ Settled(k, "processed") => Live(k)
             /\ view[k].status = "processed" \/ refunds[k].state = PROCESSED =>
                  /\ refunds[k].state = PROCESSED
                  /\ channel = "razorpay" => Settled(k, "processed")
             /\ Resting(k) => LedgerMatches(k)
  <2>1. ~Marred(refunds[k]) /\ Matched(refunds[k], gw[k], channel) /\ gw[k] \in Seq(GatewayStatuses)
        /\ refunds[k].state \in RefundStates \cup {"absent"}
    BY <1>1, MarredIs, TypeFacts DEF ReportsInv, TypeInv, TypeOK, RefundDoc
  <2>2. ASSUME Settled(k, "processed") PROVE Live(k)
    <3>1. PICK n \in 1..Len(gw[k]) : gw[k][n] = "processed"
      BY <2>2 DEF Settled
    <3>2. channel = "razorpay" /\ refunds[k].state # "absent"
      BY <2>1, <3>1 DEF Matched
    <3>3. n = 1
      BY <2>1, <3>1, <3>2 DEF Matched
    <3>4. refunds[k].state # FAILED /\ refunds[k].state # PERMANENTLY_FAILED
      BY <2>1, <3>1, <3>2, <3>3 DEF Matched
    <3> QED
      BY <2>1, <3>2, <3>4 DEF Live, RefundStates
  <2>3. view[k].status = "processed" => refunds[k].state = PROCESSED
    BY <2>1 DEF BooksInv, ShownIsPaid
  <2>4. ASSUME refunds[k].state = PROCESSED, channel = "razorpay" PROVE Settled(k, "processed")
    <3>1. Len(gw[k]) = 1 /\ gw[k][1] = "processed"
      BY <2>1, <2>4 DEF Matched, Sent, PROCESSED, INITIATED
    <3> QED
      BY <3>1 DEF Settled
  <2>5. Resting(k) => LedgerMatches(k)
    BY <2>1, BooksMatch
  <2> QED
    BY <2>2, <2>3, <2>4, <2>5
<1>2. (\A k \in Keys : ~Troubled(k)) /\ ShownRefundStatus = "processed" => PaidPaise >= Amount
  BY MarredIs, ShownInFull DEF BooksInv
<1> QED
  BY <1>1, <1>2 DEF RefundsAgree

\* As long as nothing failed, of every refund whose initiation ran to its end and that was not
\* retried: one that the gateway paid is never given up, one is shown as processed only if it
\* is and was paid, and between handlers the ledger holds one net debit for what is paid and
\* none for what failed; whatever requests, webhooks in any order and number, reconciliations
\* and retries of other refunds run together. Assumed of the constants: a retry is allowed,
\* and bank transfers are settled by one admin at a time (two would book two debits).
THEOREM RecordsAgree == MaxRetries > 0 /\ OneMarker /\ Spec => []RefundsAgree
<1> SUFFICES ASSUME MaxRetries > 0, OneMarker PROVE Spec => []RefundsAgree
  OBVIOUS
<1> DEFINE Inv == TypeInv /\ ReportsInv /\ BooksInv
<1>1. Init => Inv
  BY TypeInit, ReportsInit, BooksInit
<1>2. Inv /\ [Next]_vars => Inv'
  BY TypeNext, ReportsNext, BooksNext
<1>3. Inv => RefundsAgree
  BY BooksAgree
<1> QED
  BY <1>1, <1>2, <1>3, PTL DEF Spec
=============================================================================
