-------------------------- MODULE Backoffice_proofs --------------------------
(***************************************************************************)
(* The shop's back office, for every set of runs, reviews, orders,         *)
(* products and requests, and any number of faults: what the distributed   *)
(* lock gives its jobs (LockedJobs); the verdict of a pricing audit        *)
(* (ShiprocketAudit, MCLockedJobs); what the circuit breaker and the       *)
(* cache's connection give the fit assistant's requests (FitService);      *)
(* rewards that are paid once and cards that count the rows (Moderation),  *)
(* one refund for a dialog (AdminOrders), statuses that are real           *)
(* (ProductList), drafts that outlast a save that failed (Inventory), and  *)
(* measurements that are complete (ProductForm).                           *)
(***************************************************************************)
EXTENDS MCLockedJobs, MCBackoffice, MCAdmin, FitService, Sums

Locals == [stamp : Nat, until : Nat, begun : BOOLEAN, done : 0..Orders,
           tries : 0..ThrottleLimit]

\* A bulk run that is about to verify, or retries an order, has that order left.
OrdersLeft ==
  \A r \in Runs : pc[r] \in {"poll", "verify"} \/ loc[r].tries > 0 => loc[r].done < Orders

\* A run's clock reading is past, and until the expiry it wrote the document is its own.
LeaseKept ==
  \A r \in Runs :
    /\ loc[r].stamp <= now
    /\ now < loc[r].until => lock.owner = r /\ lock.expires = loc[r].until

IInv == TypeOK /\ OrdersLeft /\ LeaseKept

\* The facts a step needs, once.
LEMMA Facts ==
  ASSUME IInv, NEW r \in Runs
  PROVE  /\ now \in Nat /\ lock.owner \in Runs \cup {NoRun} /\ lock.expires \in Nat
         /\ loc[r] \in Locals /\ loc[r].stamp <= now
         /\ Ttl \in Nat /\ Orders \in Nat /\ ThrottleLimit \in Nat
         /\ NoLocals \in Locals /\ loc \in [Runs -> Locals]
BY TimeAssumption, JobBounds DEF IInv, TypeOK, LeaseKept, Locals, NoLocals

\* What every run may rely on after a step in which only run r moved, and lock did not.
LEMMA RunMoves ==
  ASSUME IInv, NEW r \in Runs, NEW label \in Labels, NEW l \in Locals,
         pc' = [pc EXCEPT ![r] = label], loc' = [loc EXCEPT ![r] = l],
         UNCHANGED lockVars,
         l.stamp <= now, l.until = loc[r].until \/ l.until = 0,
         label \in {"poll", "verify"} \/ l.tries > 0 => l.done < Orders
  PROVE  /\ pc' \in [Runs -> Labels] /\ loc' \in [Runs -> Locals]
         /\ OrdersLeft' /\ LeaseKept'
<1>1. pc' \in [Runs -> Labels] /\ loc' \in [Runs -> Locals]
  BY DEF IInv, TypeOK, Locals
<1>2. \A s \in Runs : /\ loc'[s] = IF s = r THEN l ELSE loc[s]
                      /\ pc'[s] = IF s = r THEN label ELSE pc[s]
  BY DEF IInv, TypeOK
<1>3. now' = now /\ lock' = lock /\ now \in Nat
  BY Facts DEF lockVars
<1>4. OrdersLeft'
  BY <1>2 DEF IInv, OrdersLeft
<1>5. LeaseKept'
  BY <1>2, <1>3 DEF IInv, LeaseKept
<1> QED
  BY <1>1, <1>4, <1>5

\* The moves a run makes with the lock as it is.
LEMMA Jumps ==
  ASSUME IInv, NEW r \in Runs, NEW label \in Labels, UNCHANGED <<lockVars, loc>>,
         GoTo(r, label), label \notin {"poll", "verify"} \/ loc[r].done < Orders
  PROVE  pc' \in [Runs -> Labels] /\ loc' \in [Runs -> Locals] /\ OrdersLeft' /\ LeaseKept'
<1>1. loc' = [loc EXCEPT ![r] = loc[r]]
  BY DEF IInv, TypeOK
<1>2. label \in {"poll", "verify"} \/ loc[r].tries > 0 => loc[r].done < Orders
  BY DEF IInv, OrdersLeft
<1> QED
  BY <1>1, <1>2, Facts, RunMoves DEF GoTo

LEMMA Endings ==
  ASSUME IInv, NEW r \in Runs, UNCHANGED lockVars, Ends(r)
  PROVE  pc' \in [Runs -> Labels] /\ loc' \in [Runs -> Locals] /\ OrdersLeft' /\ LeaseKept'
<1>1. /\ NoLocals.stamp = 0 /\ NoLocals.until = 0 /\ NoLocals.tries = 0
      /\ 0 <= now /\ ~(0 > 0) /\ NoLocals \in Locals
  BY Facts DEF NoLocals
<1>2. "done" \in Labels /\ "done" \notin {"poll", "verify"}
  BY DEF Labels
<1>3. pc' = [pc EXCEPT ![r] = "done"] /\ loc' = [loc EXCEPT ![r] = NoLocals]
  BY DEF Ends, GoTo
<1> QED
  BY <1>1, <1>2, <1>3, RunMoves

LEMMA FailedOrders ==
  ASSUME IInv, NEW r \in Runs, UNCHANGED lockVars, OrderFails(r), loc[r].done < Orders
  PROVE  pc' \in [Runs -> Labels] /\ loc' \in [Runs -> Locals] /\ OrdersLeft' /\ LeaseKept'
<1> DEFINE l == [loc[r] EXCEPT !.begun = TRUE, !.done = loc[r].done + 1, !.tries = 0]
<1>1. "beat" \in Labels /\ "beat" \notin {"poll", "verify"}
  BY DEF Labels
<1>2. loc' = [loc EXCEPT ![r] = l] /\ pc' = [pc EXCEPT ![r] = "beat"]
  BY Facts DEF OrderFails, OrderDone, GoTo, IInv, TypeOK
<1>3. loc[r].done \in 0..Orders /\ loc[r].done + 1 \in 0..Orders
  BY Facts DEF Locals
<1>4. l \in Locals /\ l.until = loc[r].until /\ l.tries = 0 /\ l.stamp = loc[r].stamp
  <2>1. loc[r] \in Locals /\ 0 \in 0..ThrottleLimit
    BY Facts
  <2> QED
    BY <1>3, <2>1 DEF Locals
<1>5. l.stamp <= now /\ ~(l.tries > 0)
  BY <1>4, Facts
<1> HIDE DEF l
<1> QED
  BY <1>1, <1>2, <1>4, <1>5, RunMoves

\* An error in the loop: the order fails, or the run does.
LEMMA LoopErrors ==
  ASSUME IInv, NEW r \in Runs, UNCHANGED lockVars, LoopError(r)
  PROVE  pc' \in [Runs -> Labels] /\ loc' \in [Runs -> Locals] /\ OrdersLeft' /\ LeaseKept'
<1>1. CASE loc[r].tries > 0 /\ OrderFails(r)
  BY <1>1, FailedOrders DEF IInv, OrdersLeft
<1>2. CASE GoTo(r, "fail") /\ UNCHANGED loc
  BY <1>2, Jumps DEF Labels
<1> QED
  BY <1>1, <1>2 DEF LoopError

-----------------------------------------------------------------------------
(* The steps that write the lock.                                          *)

\* Run r writes the document when nobody else may count on it.
LEMMA LeaseWritten ==
  ASSUME IInv, NEW r \in Runs, NEW label \in Labels,
         label \notin {"poll", "verify"},
         \A s \in Runs \ {r} : ~(now < loc[s].until),
         lock' = [owner |-> r, expires |-> loc[r].stamp + Ttl], now' = now,
         GoTo(r, label),
         loc' = [loc EXCEPT ![r].until = loc[r].stamp + Ttl, ![r].stamp = 0]
  PROVE  /\ pc' \in [Runs -> Labels] /\ loc' \in [Runs -> Locals]
         /\ lock' \in [owner : Runs \cup {NoRun}, expires : Nat]
         /\ OrdersLeft' /\ LeaseKept'
<1> DEFINE l == [loc[r] EXCEPT !.until = loc[r].stamp + Ttl, !.stamp = 0]
<1>1. loc[r].stamp + Ttl \in Nat /\ loc[r] \in Locals /\ now \in Nat
  BY Facts DEF Locals
<1>2. /\ l \in Locals /\ l.until = loc[r].stamp + Ttl /\ l.stamp = 0
      /\ l.tries = loc[r].tries /\ l.done = loc[r].done
  BY <1>1 DEF Locals
<1>3. loc' = [loc EXCEPT ![r] = l]
  BY <1>1 DEF IInv, TypeOK, Locals
<1> HIDE DEF l
<1>4. \A s \in Runs : /\ loc'[s] = IF s = r THEN l ELSE loc[s]
                      /\ pc'[s] = IF s = r THEN label ELSE pc[s]
  BY <1>3 DEF IInv, TypeOK, GoTo
<1>5. pc' \in [Runs -> Labels] /\ loc' \in [Runs -> Locals]
  <2>1. loc \in [Runs -> Locals] /\ pc \in [Runs -> Labels]
    BY Facts DEF IInv, TypeOK
  <2> QED
    BY <1>2, <1>3, <2>1 DEF GoTo
<1>6. OrdersLeft'
  BY <1>2, <1>4 DEF IInv, OrdersLeft
<1>7. LeaseKept'
  <2> SUFFICES ASSUME NEW s \in Runs
               PROVE  /\ loc'[s].stamp <= now'
                      /\ now' < loc'[s].until => lock'.owner = s /\ lock'.expires = loc'[s].until
    BY DEF LeaseKept
  <2>1. CASE s = r
    <3>1. loc'[s].stamp = 0 /\ loc'[s].until = loc[r].stamp + Ttl
      BY <1>2, <1>4, <2>1
    <3>2. lock'.owner = s /\ lock'.expires = loc[r].stamp + Ttl /\ now' = now
      BY <2>1
    <3> QED
      BY <1>1, <3>1, <3>2
  <2>2. CASE s # r
    <3>1. loc'[s] = loc[s] /\ now' = now /\ ~(now < loc[s].until)
      BY <1>4, <2>2
    <3> QED
      BY <3>1 DEF IInv, LeaseKept
  <2> QED
    BY <2>1, <2>2
<1> QED
  BY <1>1, <1>5, <1>6, <1>7

\* A run whose acquire was granted: whoever counted on the document before has expired.
LEMMA AcquireKeeps ==
  ASSUME IInv, NEW r \in Runs, Acquire(r)
  PROVE  /\ pc' \in [Runs -> Labels] /\ loc' \in [Runs -> Locals]
         /\ lock' \in [owner : Runs \cup {NoRun}, expires : Nat]
         /\ OrdersLeft' /\ LeaseKept'
<1>1. CASE /\ Grantable(loc[r].stamp) /\ Granted(r, loc[r].stamp)
           /\ loc' = [loc EXCEPT ![r].until = loc[r].stamp + Ttl, ![r].stamp = 0]
           /\ GoTo(r, IF kind = "bulk" THEN "select" ELSE "start")
  <2>1. \A s \in Runs \ {r} : ~(now < loc[s].until)
    <3> SUFFICES ASSUME NEW s \in Runs, now < loc[s].until PROVE FALSE
      OBVIOUS
    <3>1. lock.expires = loc[s].until
      BY DEF IInv, LeaseKept
    <3>2. loc[s].until \in Nat /\ loc[r].stamp \in Nat /\ now \in Nat /\ loc[r].stamp <= now
      BY Facts DEF Locals
    <3> QED
      BY <1>1, <3>1, <3>2 DEF Grantable
  <2>2. lock' = [owner |-> r, expires |-> loc[r].stamp + Ttl] /\ now' = now
    BY <1>1 DEF Granted, Acquire
  <2>3. \E label \in Labels : label \notin {"poll", "verify"} /\ GoTo(r, label)
    BY <1>1 DEF Labels
  <2> QED
    BY <1>1, <2>1, <2>2, <2>3, LeaseWritten
<1>2. CASE Refused(r)
  <2>1. UNCHANGED lockVars
    BY <1>2 DEF Refused, Acquire, lockVars
  <2>2. \/ Ends(r)
        \/ UNCHANGED loc /\ (GoTo(r, "skip") \/ GoTo(r, "start"))
    BY <1>2 DEF Refused
  <2>3. lock' \in [owner : Runs \cup {NoRun}, expires : Nat]
    BY <2>1 DEF IInv, TypeOK, lockVars
  <2> QED
    BY <2>1, <2>2, <2>3, Jumps, Endings DEF Labels
<1> QED
  BY <1>1, <1>2 DEF Acquire

LEMMA RefreshKeeps ==
  ASSUME IInv, NEW r \in Runs, Refresh(r)
  PROVE  /\ pc' \in [Runs -> Labels] /\ loc' \in [Runs -> Locals]
         /\ lock' \in [owner : Runs \cup {NoRun}, expires : Nat]
         /\ OrdersLeft' /\ LeaseKept'
<1>1. CASE /\ Owns(r) /\ GoTo(r, "persist")
           /\ lock' = [lock EXCEPT !.expires = loc[r].stamp + Ttl]
           /\ loc' = [loc EXCEPT ![r].until = loc[r].stamp + Ttl, ![r].stamp = 0]
  <2>1. \A s \in Runs \ {r} : ~(now < loc[s].until)
    BY <1>1 DEF IInv, LeaseKept, Owns
  <2>2. lock' = [owner |-> r, expires |-> loc[r].stamp + Ttl] /\ now' = now
    BY <1>1 DEF IInv, TypeOK, Owns, Refresh
  <2>3. "persist" \in Labels /\ "persist" \notin {"poll", "verify"}
    BY DEF Labels
  <2> QED
    BY <1>1, <2>1, <2>2, <2>3, LeaseWritten
<1>2. CASE LoopError(r) /\ UNCHANGED lock
  BY <1>2, LoopErrors DEF Refresh, IInv, TypeOK, lockVars
<1> QED
  BY <1>1, <1>2 DEF Refresh

\* The owner frees the document; anyone else leaves it alone.
LEMMA ReleaseKeeps ==
  ASSUME IInv, NEW r \in Runs, Release(r)
  PROVE  /\ pc' \in [Runs -> Labels] /\ loc' \in [Runs -> Locals]
         /\ lock' \in [owner : Runs \cup {NoRun}, expires : Nat]
         /\ OrdersLeft' /\ LeaseKept'
<1>1. pc' = [pc EXCEPT ![r] = "done"] /\ loc' = [loc EXCEPT ![r] = NoLocals] /\ now' = now
  BY DEF Release, Ends, GoTo
<1>2. /\ NoLocals.stamp = 0 /\ NoLocals.until = 0 /\ ~(NoLocals.tries > 0)
      /\ NoLocals \in Locals /\ now \in Nat
  BY Facts DEF NoLocals
<1>3. \A s \in Runs : /\ loc'[s] = IF s = r THEN NoLocals ELSE loc[s]
                      /\ pc'[s] = IF s = r THEN "done" ELSE pc[s]
  BY <1>1 DEF IInv, TypeOK
<1>4. pc' \in [Runs -> Labels] /\ loc' \in [Runs -> Locals]
  <2>1. loc \in [Runs -> Locals] /\ pc \in [Runs -> Labels] /\ "done" \in Labels
    BY Facts DEF IInv, TypeOK, Labels
  <2> QED
    BY <1>1, <1>2, <2>1
<1>5. lock' \in [owner : Runs \cup {NoRun}, expires : Nat]
  BY DEF Release, Free, IInv, TypeOK
<1>6. OrdersLeft'
  BY <1>2, <1>3 DEF IInv, OrdersLeft
<1>7. LeaseKept'
  <2> SUFFICES ASSUME NEW s \in Runs
               PROVE  /\ loc'[s].stamp <= now'
                      /\ now' < loc'[s].until => lock'.owner = s /\ lock'.expires = loc'[s].until
    BY DEF LeaseKept
  <2>1. CASE s = r
    BY <1>1, <1>2, <1>3, <2>1
  <2>2. CASE s # r
    <3>1. loc'[s] = loc[s] /\ now' = now
      BY <1>1, <1>3, <2>2
    <3>2. now < loc[s].until => lock' = lock
      BY <2>2 DEF IInv, LeaseKept, Owns, Release
    <3> QED
      BY <3>1, <3>2 DEF IInv, LeaseKept
  <2> QED
    BY <2>1, <2>2
<1> QED
  BY <1>4, <1>5, <1>6, <1>7

-----------------------------------------------------------------------------
(* The steps that leave the lock alone.                                    *)

TypesKept == /\ pc' \in [Runs -> Labels] /\ loc' \in [Runs -> Locals]
        /\ OrdersLeft' /\ LeaseKept'

\* Reading the clock, for an acquire or a refresh.
LEMMA StampKeeps ==
  ASSUME IInv, NEW r \in Runs, Call(r) \/ Beat(r)
  PROVE  TypesKept
<1> DEFINE l == [loc[r] EXCEPT !.stamp = now]
<1>1. PICK label \in Labels : label \notin {"poll", "verify"} /\ GoTo(r, label)
  BY DEF Call, Beat, Labels
<1>2. loc' = [loc EXCEPT ![r] = l] /\ UNCHANGED lockVars
  BY Facts DEF Call, Beat, Locals
<1>3. loc[r] \in Locals /\ now \in Nat
  BY Facts
<1>4. /\ l \in Locals /\ l.stamp = now /\ l.until = loc[r].until
      /\ l.tries = loc[r].tries /\ l.done = loc[r].done
  BY <1>3 DEF Locals
<1>5. label \in {"poll", "verify"} \/ l.tries > 0 => l.done < Orders
  BY <1>1, <1>4 DEF IInv, OrdersLeft
<1>6. l.stamp <= now
  BY <1>3, <1>4
<1> HIDE DEF l
<1> QED
  BY <1>1, <1>2, <1>4, <1>5, <1>6, RunMoves DEF GoTo, TypesKept

LEMMA VerifyKeeps ==
  ASSUME IInv, NEW r \in Runs, Verify(r)
  PROVE  TypesKept
<1>1. loc[r].done < Orders /\ UNCHANGED lockVars /\ GoTo(r, "beat")
  BY DEF Verify, IInv, OrdersLeft
<1>2. CASE OrderDone(r)
  BY <1>1, <1>2, FailedOrders DEF OrderFails, TypesKept
<1>3. CASE /\ loc[r].tries < ThrottleLimit
           /\ loc' = [loc EXCEPT ![r].begun = TRUE, ![r].tries = @ + 1]
  <2> DEFINE l == [loc[r] EXCEPT !.begun = TRUE, !.tries = loc[r].tries + 1]
  <2>1. loc[r] \in Locals /\ loc[r].tries + 1 \in 0..ThrottleLimit
    BY <1>3, Facts DEF Locals
  <2>2. loc' = [loc EXCEPT ![r] = l]
    BY <1>3, <2>1, Facts DEF Locals
  <2>3. l \in Locals /\ l.stamp = loc[r].stamp /\ l.until = loc[r].until /\ l.done = loc[r].done
    BY <2>1 DEF Locals
  <2>4. "beat" \in Labels /\ l.stamp <= now
    BY <2>3, Facts DEF Labels
  <2> HIDE DEF l
  <2> QED
    BY <1>1, <2>2, <2>3, <2>4, RunMoves DEF GoTo, TypesKept
<1> QED
  BY <1>2, <1>3 DEF Verify

LEMMA MarksKeep ==
  ASSUME IInv, NEW r \in Runs,
         MarkSkipped(r) \/ MarkStarted(r) \/ MarkEnded(r) \/ Work(r) \/ Select(r)
  PROVE  TypesKept
<1>1. UNCHANGED lockVars
  BY DEF MarkSkipped, MarkStarted, MarkEnded, Work, Select
<1>2. \/ Ends(r)
      \/ UNCHANGED loc /\ \E label \in Labels \ {"poll", "verify"} : GoTo(r, label)
  BY DEF MarkSkipped, MarkStarted, MarkEnded, Work, Select, Labels
<1> QED
  BY <1>1, <1>2, Jumps, Endings DEF TypesKept

LEMMA LoopKeeps ==
  ASSUME IInv, NEW r \in Runs, Poll(r) \/ Persist(r)
  PROVE  TypesKept
<1>1. UNCHANGED <<lockVars, loc>>
  BY DEF Poll, Persist
<1>2. CASE Poll(r)
  <2>1. loc[r].done < Orders
    BY <1>2 DEF Poll, IInv, OrdersLeft
  <2>2. \E label \in Labels : GoTo(r, label)
    BY <1>2 DEF Poll, Labels
  <2> QED
    BY <1>1, <2>1, <2>2, Jumps DEF TypesKept
<1>3. CASE Persist(r)
  <2>1. loc[r].done \in 0..Orders /\ Orders \in Nat
    BY Facts DEF Locals
  <2>2. CASE loc[r].done = Orders
    BY <1>1, <1>3, <2>2, Jumps DEF Persist, Labels, TypesKept
  <2>3. CASE loc[r].done # Orders
    <3>1. GoTo(r, "poll") /\ loc[r].done < Orders /\ "poll" \in Labels
      BY <1>3, <2>1, <2>3 DEF Persist, Labels
    <3> QED
      BY <1>1, <3>1, Jumps DEF TypesKept
  <2> QED
    BY <2>2, <2>3
<1> QED
  BY <1>2, <1>3

LEMMA FaultsKeep ==
  ASSUME IInv, NEW r \in Runs, DatabaseError(r) \/ Crash(r)
  PROVE  TypesKept
<1>1. UNCHANGED lockVars
  BY DEF DatabaseError, Crash
<1>2. \/ Ends(r)
      \/ UNCHANGED loc /\ \E label \in Labels \ {"poll", "verify"} : GoTo(r, label)
      \/ pc[r] = "poll" /\ OrderFails(r)
      \/ LoopError(r)
  BY DEF DatabaseError, Crash, Labels
<1>3. pc[r] = "poll" => loc[r].done < Orders
  BY DEF IInv, OrdersLeft
<1> QED
  BY <1>1, <1>2, <1>3, Jumps, Endings, FailedOrders, LoopErrors DEF TypesKept

\* Time only ends leases, and the index only removes an expired document.
LEMMA ClockKeeps ==
  ASSUME IInv, Clock
  PROVE  TypesKept /\ now' \in 0..MaxTime /\ lock' \in [owner : Runs \cup {NoRun}, expires : Nat]
<1>1. UNCHANGED <<pc, loc>> /\ loc \in [Runs -> Locals]
  BY DEF Clock, IInv, TypeOK, Locals
<1>2. \A s \in Runs : loc[s].until \in Nat /\ loc[s].stamp \in Nat
  BY <1>1 DEF Locals
<1>3. now \in 0..MaxTime /\ MaxTime \in Nat /\ lock \in [owner : Runs \cup {NoRun}, expires : Nat]
  BY TimeAssumption DEF IInv, TypeOK
<1>4. CASE Tick
  <2>1. now' = now + 1 /\ now' \in 0..MaxTime /\ lock' = lock
    BY <1>3, <1>4 DEF Tick
  <2>2. LeaseKept'
    BY <1>1, <1>2, <1>3, <2>1 DEF IInv, LeaseKept
  <2> QED
    BY <1>1, <1>3, <2>1, <2>2 DEF TypesKept, IInv, TypeOK, OrdersLeft
<1>5. CASE ExpireDocument
  <2>1. now' = now /\ lock' = Free /\ lock.expires <= now
    BY <1>5 DEF ExpireDocument, Expired
  <2>2. lock' \in [owner : Runs \cup {NoRun}, expires : Nat]
    BY <2>1 DEF Free
  <2>3. \A s \in Runs : ~(now < loc[s].until)
    BY <1>2, <1>3, <2>1 DEF IInv, LeaseKept
  <2>4. LeaseKept'
    BY <1>1, <2>1, <2>3 DEF IInv, LeaseKept
  <2> QED
    BY <1>1, <1>3, <2>1, <2>2, <2>4 DEF TypesKept, IInv, TypeOK, OrdersLeft
<1> QED
  BY <1>4, <1>5 DEF Clock

LEMMA RunKeeps ==
  ASSUME IInv, NEW r \in Runs, RunStep(r) \/ DatabaseError(r) \/ Crash(r)
  PROVE  IInv'
<1>1. TypesKept /\ lock' \in [owner : Runs \cup {NoRun}, expires : Nat]
  <2>1. CASE Acquire(r) \/ Refresh(r) \/ Release(r)
    BY <2>1, AcquireKeeps, RefreshKeeps, ReleaseKeeps DEF TypesKept
  <2>2. CASE Call(r) \/ Beat(r)
    BY <2>2, StampKeeps DEF Call, Beat, lockVars, IInv, TypeOK
  <2>3. CASE Verify(r)
    BY <2>3, VerifyKeeps DEF Verify, lockVars, IInv, TypeOK
  <2>4. CASE MarkSkipped(r) \/ MarkStarted(r) \/ MarkEnded(r) \/ Work(r) \/ Select(r)
    BY <2>4, MarksKeep DEF MarkSkipped, MarkStarted, MarkEnded, Work, Select, lockVars, IInv, TypeOK
  <2>5. CASE Poll(r) \/ Persist(r)
    BY <2>5, LoopKeeps DEF Poll, Persist, lockVars, IInv, TypeOK
  <2>6. CASE DatabaseError(r) \/ Crash(r)
    BY <2>6, FaultsKeep DEF DatabaseError, Crash, lockVars, IInv, TypeOK
  <2> QED
    BY <2>1, <2>2, <2>3, <2>4, <2>5, <2>6 DEF RunStep
<1>2. UNCHANGED <<now, kind, ask>>
  BY DEF RunStep, Call, Acquire, Release, MarkSkipped, MarkStarted, MarkEnded, Work, Select,
         Poll, Verify, Beat, Refresh, Persist, DatabaseError, Crash, lockVars
<1>3. faults' \in 0..MaxFaults
  BY JobBounds DEF RunStep, Call, Acquire, Release, MarkSkipped, MarkStarted, MarkEnded, Work,
         Select, Poll, Verify, Beat, Refresh, Persist, DatabaseError, Crash, IInv, TypeOK
<1>4. job' \in JobDoc
  <2>1. job \in JobDoc
    BY DEF IInv, TypeOK
  <2>2. CASE MarkSkipped(r)
    <3>1. [Idle EXCEPT !.status = "skipped"] \in JobDoc
      BY DEF Idle, JobDoc
    <3> QED
      BY <2>2, <3>1 DEF MarkSkipped
  <2>3. CASE MarkEnded(r)
    BY <2>3 DEF MarkEnded, JobDoc
  <2>4. CASE Persist(r)
    BY <2>1, <2>4 DEF Persist, JobDoc
  <2>5. CASE job' = job
    BY <2>1, <2>5
  <2>6. CASE MarkStarted(r)
    BY <2>6 DEF MarkStarted, JobDoc
  <2> QED
    BY <2>2, <2>3, <2>4, <2>5, <2>6
    DEF RunStep, Call, Acquire, Release, Work, Select, Poll, Verify, Beat, Refresh,
        DatabaseError, Crash
<1> QED
  BY <1>1, <1>2, <1>3, <1>4 DEF TypesKept, IInv, TypeOK, Locals

LEMMA AdminKeeps ==
  ASSUME IInv, NEW a \in Admins, CancelRead(a) \/ CancelWrite(a)
  PROVE  IInv'
<1>1. UNCHANGED <<lockVars, kind, pc, loc, faults>>
  BY DEF CancelRead, CancelWrite
<1>2. job' \in JobDoc
  <2>1. job \in JobDoc
    BY DEF IInv, TypeOK
  <2>2. [job EXCEPT !.cancel = TRUE] \in JobDoc
    BY <2>1 DEF JobDoc
  <2>3. [status |-> "cancelled", owner |-> NoRun, cancel |-> TRUE] \in JobDoc
    BY DEF JobDoc
  <2>4. job' = job \/ job' = [job EXCEPT !.cancel = TRUE]
        \/ job' = [status |-> "cancelled", owner |-> NoRun, cancel |-> TRUE]
    BY DEF CancelRead, CancelWrite
  <2> QED
    BY <2>1, <2>2, <2>3, <2>4
<1>3. ask' \in [Admins -> [at : {"idle", "job", "lock", "write", "done"},
                          live : BOOLEAN, held : BOOLEAN]]
  <2> DEFINE Request == [at : {"idle", "job", "lock", "write", "done"},
                         live : BOOLEAN, held : BOOLEAN]
  <2>1. ask \in [Admins -> Request]
    BY DEF IInv, TypeOK
  <2>2. CASE CancelWrite(a)
    <3>1. [NotAsked EXCEPT !.at = "done"] \in Request
      BY DEF NotAsked
    <3>2. ask' = [ask EXCEPT ![a] = [NotAsked EXCEPT !.at = "done"]]
      BY <2>2 DEF CancelWrite
    <3> QED
      BY <2>1, <3>1, <3>2
  <2>3. CASE CancelRead(a)
    <3>1. PICK at \in {"job", "lock", "write"}, b \in BOOLEAN :
            \/ ask' = [ask EXCEPT ![a].at = at, ![a].live = b]
            \/ ask' = [ask EXCEPT ![a].at = at, ![a].held = b]
      <4>1. (job.status = "running" /\ ~job.cancel) \in BOOLEAN
            /\ (lock.owner # NoRun) \in BOOLEAN
        OBVIOUS
      <4>2. ask[a].at = "idle" \/ ask[a].at # "idle"
        OBVIOUS
      <4> QED
        BY <2>1, <2>3, <4>1, <4>2 DEF CancelRead
    <3> QED
      BY <2>1, <3>1
  <2> QED
    BY <2>2, <2>3
<1> QED
  BY <1>1, <1>2, <1>3 DEF IInv, TypeOK, OrdersLeft, LeaseKept, lockVars

LEMMA InitInv == Init => IInv
<1> SUFFICES ASSUME Init PROVE IInv
  OBVIOUS
<1>1. NoLocals \in Locals /\ 0 \in 0..MaxTime /\ 0 \in 0..MaxFaults
  BY TimeAssumption, JobBounds DEF NoLocals, Locals
<1>2. TypeOK
  BY <1>1 DEF Init, LockInit, Free, Idle, NotAsked, TypeOK, JobDoc, Labels, Locals
<1>3. \A r \in Runs : loc[r] = NoLocals /\ pc[r] = "idle"
  BY DEF Init
<1>4. NoLocals.stamp = 0 /\ NoLocals.until = 0 /\ NoLocals.tries = 0 /\ now = 0
  BY DEF NoLocals, Init, LockInit
<1>5. OrdersLeft /\ LeaseKept
  BY <1>3, <1>4 DEF OrdersLeft, LeaseKept
<1> QED
  BY <1>2, <1>5 DEF IInv

LEMMA NextInv == IInv /\ [Next]_vars => IInv'
<1> SUFFICES ASSUME IInv, [Next]_vars PROVE IInv'
  OBVIOUS
<1>1. CASE Clock
  BY <1>1, ClockKeeps DEF Clock, TypesKept, IInv, TypeOK, Locals
<1>2. CASE UNCHANGED vars
  BY <1>2 DEF vars, IInv, TypeOK, OrdersLeft, LeaseKept
<1> QED
  BY <1>1, <1>2, RunKeeps, AdminKeeps DEF Next

\* Every variable keeps its type: a run never processes more orders than it selected.
THEOREM TypeCorrect == Spec => []TypeOK
<1>1. IInv => TypeOK
  BY DEF IInv
<1> QED
  BY <1>1, InitInv, NextInv, PTL DEF Spec

\* No two runs have a lease at the same time, whatever the lease length and the delays
\* between reading the clock and writing the lock.
THEOREM LeasesAreExclusive == Spec => []LeasesExclude
<1>1. IInv => LeasesExclude
  BY DEF IInv, LeaseKept, LeasesExclude
<1> QED
  BY <1>1, InitInv, NextInv, PTL DEF Spec

-----------------------------------------------------------------------------
(* The lock implements a lease.                                            *)

\* A step leaves the holder, ends the lease, or grants one that nobody held.
LEMMA HolderStep ==
  ASSUME IInv, [Next]_vars
  PROVE  [L!LeaseNext]_Holder
<1>1. now \in Nat /\ lock \in [owner : Runs \cup {NoRun}, expires : Nat] /\ Ttl \in Nat
  BY TimeAssumption DEF IInv, TypeOK
<1>2. CASE UNCHANGED lockVars
  BY <1>2 DEF Holder, Expired, lockVars
<1>3. ASSUME NEW r \in Runs, Acquire(r), ~UNCHANGED lockVars PROVE [L!LeaseNext]_Holder
  <2>1. Grantable(loc[r].stamp) /\ Granted(r, loc[r].stamp) /\ now' = now
    BY <1>3 DEF Acquire, Refused, lockVars
  <2>2. loc[r].stamp \in Nat /\ loc[r].stamp <= now
    BY Facts DEF Locals
  <2>3. Holder = NoRun
    BY <1>1, <2>1, <2>2 DEF Grantable, Holder, Expired
  <2>4. Holder' = r \/ Holder' = NoRun
    BY <2>1 DEF Granted, Holder, Expired
  <2> QED
    BY <2>3, <2>4 DEF L!LeaseNext, L!Grant, L!End
<1>4. ASSUME NEW r \in Runs, Refresh(r), ~UNCHANGED lockVars PROVE [L!LeaseNext]_Holder
  <2>1. lock.owner = r /\ lock'.owner = r
    BY <1>1, <1>4 DEF Refresh, Owns, lockVars
  <2>2. Holder \in {r, NoRun} /\ Holder' \in {r, NoRun}
    BY <2>1 DEF Holder
  <2> QED
    BY <2>2 DEF L!LeaseNext, L!Grant, L!End
<1>5. ASSUME NEW r \in Runs, Release(r), ~UNCHANGED lockVars PROVE [L!LeaseNext]_Holder
  <2>1. lock' = Free
    BY <1>5 DEF Release, lockVars
  <2> QED
    BY <2>1 DEF Free, Holder, L!LeaseNext, L!End
<1>6. CASE Clock
  <2>1. CASE ExpireDocument
    BY <2>1 DEF ExpireDocument, Free, Holder, L!LeaseNext, L!End
  <2>2. CASE Tick
    <3>1. Holder' = Holder \/ Holder' = NoRun
      BY <1>1, <2>2 DEF Tick, Holder, Expired
    <3> QED
      BY <3>1 DEF L!LeaseNext, L!End
  <2> QED
    BY <1>6, <2>1, <2>2 DEF Clock
<1>7. ASSUME NEW r \in Runs, RunStep(r) \/ DatabaseError(r) \/ Crash(r),
             ~Acquire(r), ~Refresh(r), ~Release(r)
      PROVE  UNCHANGED lockVars
  BY <1>7 DEF RunStep, Call, MarkSkipped, MarkStarted, MarkEnded, Work, Select, Poll, Verify,
              Beat, Persist, DatabaseError, Crash
<1>8. ASSUME NEW a \in Admins, CancelRead(a) \/ CancelWrite(a) PROVE UNCHANGED lockVars
  BY <1>8 DEF CancelRead, CancelWrite
<1>9. UNCHANGED vars => UNCHANGED lockVars
  BY DEF vars, lockVars
<1> QED
  BY <1>2, <1>3, <1>4, <1>5, <1>6, <1>7, <1>8, <1>9 DEF Next

\* The lock document, used by these jobs, implements the lease of module Lease.
THEOREM LockIsLease == Spec => IsLease
<1>1. Init => L!LeaseInit
  BY DEF Init, LockInit, Free, Holder, L!LeaseInit
<1> QED
  BY <1>1, InitInv, NextInv, HolderStep, PTL DEF Spec, IsLease, L!LeaseSpec

-----------------------------------------------------------------------------
(* A job that is over is not shown as running.                             *)

\* Labels of a run that is still to tell how it ended.
Ahead == {"work", "poll", "verify", "beat", "refresh", "persist", "complete", "fail", "cancel"}

\* Without faults a job is shown as running only while some run is to tell how it ended,
\* be it another than the one that was shown.
EndAhead == faults = 0 /\ job.status = "running" => \E r \in Runs : pc[r] \in Ahead

\* A run that goes on to such a label stands for the job; one that was at none is not missed.
LEMMA GoesAhead ==
  ASSUME TypeOK, EndAhead, NEW r \in Runs, NEW label, GoTo(r, label),
         \/ label \in Ahead
         \/ pc[r] \notin Ahead /\ UNCHANGED <<job, faults>>
         \/ job'.status # "running"
         \/ faults' # 0
  PROVE  EndAhead'
<1>1. pc' = [pc EXCEPT ![r] = label] /\ pc \in [Runs -> Labels]
  BY DEF GoTo, TypeOK
<1>2. pc'[r] = label /\ \A s \in Runs \ {r} : pc'[s] = pc[s]
  BY <1>1
<1> QED
  BY <1>2 DEF EndAhead

LEMMA EndAheadStep ==
  ASSUME IInv, EndAhead, [Next]_vars
  PROVE  EndAhead'
<1>1. TypeOK /\ faults \in Nat
  BY JobBounds DEF IInv, TypeOK
<1>2. CASE UNCHANGED vars
  BY <1>2 DEF vars, EndAhead
<1>3. CASE Clock
  BY <1>3 DEF Clock, EndAhead
<1>4. ASSUME NEW a \in Admins, CancelRead(a) PROVE EndAhead'
  BY <1>4 DEF CancelRead, EndAhead
<1>5. ASSUME NEW a \in Admins, CancelWrite(a) PROVE EndAhead'
  <2>1. UNCHANGED <<pc, faults>> /\ (job'.status = "running" => job.status = "running")
    <3>1. job \in JobDoc /\ ask[a].live \in BOOLEAN /\ ask[a].held \in BOOLEAN
      BY <1>1 DEF TypeOK
    <3>2. [job EXCEPT !.cancel = TRUE].status = job.status
      BY <3>1 DEF JobDoc
    <3> QED
      BY <1>5, <3>1, <3>2 DEF CancelWrite
  <2> QED
    BY <2>1 DEF EndAhead
<1>6. ASSUME NEW r \in Runs, Call(r) \/ Acquire(r) \/ Release(r) \/ Select(r) PROVE EndAhead'
  <2>1. pc[r] \notin Ahead /\ UNCHANGED <<job, faults>>
    BY <1>6 DEF Call, Acquire, Release, Select, Ahead
  <2>2. PICK label : GoTo(r, label)
    BY <1>6 DEF Call, Acquire, Refused, Release, Select, Ends
  <2> QED
    BY <1>1, <2>1, <2>2, GoesAhead
<1>7. ASSUME NEW r \in Runs, MarkSkipped(r) PROVE EndAhead'
  <2>1. job'.status # "running"
    BY <1>7 DEF MarkSkipped, Idle
  <2>2. PICK label : GoTo(r, label)
    BY <1>7 DEF MarkSkipped, Ends
  <2> QED
    BY <1>1, <2>1, <2>2, GoesAhead
<1>8. ASSUME NEW r \in Runs, MarkEnded(r) PROVE EndAhead'
  <2>1. job'.status # "running" /\ GoTo(r, "release")
    BY <1>8 DEF MarkEnded
  <2> QED
    BY <1>1, <2>1, GoesAhead
<1>9. ASSUME NEW r \in Runs,
             MarkStarted(r) \/ Work(r) \/ Poll(r) \/ Verify(r) \/ Beat(r) \/ Refresh(r) \/ Persist(r)
      PROVE  EndAhead'
  <2>1. PICK label \in Ahead : GoTo(r, label)
    BY <1>9 DEF MarkStarted, Work, Poll, Verify, Beat, Refresh, LoopError, OrderFails, Persist, Ahead
  <2> QED
    BY <1>1, <2>1, GoesAhead
<1>10. ASSUME NEW r \in Runs, DatabaseError(r) \/ Crash(r) PROVE EndAhead'
  <2>1. faults' # 0
    BY <1>1, <1>10 DEF DatabaseError, Crash
  <2> QED
    BY <2>1 DEF EndAhead
<1> QED
  BY <1>2, <1>3, <1>4, <1>5, <1>6, <1>7, <1>8, <1>9, <1>10 DEF Next, RunStep

\* When every run has ended, and none died or met an error, the job is not shown as running,
\* whatever the lease length: not even if runs overran their lock and overlapped.
THEOREM EndIsShown == Spec => []EndedIsShown
<1>1. Init => EndAhead
  BY DEF Init, Idle, EndAhead
<1>2. EndAhead => EndedIsShown
  BY DEF EndAhead, EndedIsShown, Ahead
<1> QED
  BY <1>1, <1>2, InitInv, NextInv, EndAheadStep, PTL DEF Spec

-----------------------------------------------------------------------------
(* The circuit breaker in front of the ML service, for every threshold and *)
(* every set of requests.  Of all steps of the fit assistant, few touch it.*)

\* The window goes by the count, which stops at the threshold.
GatewayInv ==
  /\ failures \in 0 .. Threshold
  /\ circuit \in {"closed", "open", "lapsed"}
  /\ CircuitMatchesCount

\* What a step may do to the circuit breaker.
GatewayStep ==
  \/ CallSucceeds \/ CallFails \/ WindowEnds
  \/ failures' = 0 /\ circuit' = "closed"
  \/ UNCHANGED gateway

LEMMA GatewayKeeps ==
  ASSUME GatewayInv, GatewayStep
  PROVE  GatewayInv'
<1>1. CASE CallSucceeds \/ (failures' = 0 /\ circuit' = "closed")
  BY <1>1, GatewayAssumption DEF CallSucceeds, GatewayInv, CircuitMatchesCount
<1>2. CASE CallFails
  BY <1>2, GatewayAssumption DEF CallFails, GatewayInv, CircuitMatchesCount
<1>3. CASE WindowEnds
  BY <1>3, GatewayAssumption DEF WindowEnds, GatewayInv, CircuitMatchesCount
<1>4. CASE UNCHANGED gateway
  BY <1>4 DEF gateway, GatewayInv, CircuitMatchesCount
<1> QED
  BY <1>1, <1>2, <1>3, <1>4 DEF GatewayStep

LEMMA NextSteps == [FitNext]_fitVars => GatewayStep
<1> SUFFICES ASSUME [FitNext]_fitVars PROVE GatewayStep
  OBVIOUS
<1>1. UNCHANGED fitVars => UNCHANGED gateway
  BY DEF fitVars
<1>2. \A w \in Workers : AnswersWell(w) => CallSucceeds
  BY DEF AnswersWell
<1>3. \A w \in Workers : AnswersBadly(w) \/ Unreadable(w) => CallFails
  BY DEF AnswersBadly, Unreadable, Failed
<1>4. \A w \in Workers : ReadRedis(w) \/ ReadMemory(w) \/ Ask(w) \/ AnswersNonsense(w) \/ Write(w)
                           \/ WriteRedis(w) \/ WriteMemory(w) \/ Answer(w) => UNCHANGED gateway
  BY DEF ReadRedis, ReadMemory, Ask, AnswersNonsense, Write, WriteRedis, WriteMemory, Answer
<1>5. \A w \in Workers, k \in Keys : Start(w, k) \/ RedisForgets(k) \/ MemoryForgets(k) => UNCHANGED gateway
  BY DEF Start, RedisForgets, MemoryForgets, ForgetsOnly
<1>6. Connection \/ Changes \/ Reachable \/ Disconnected => UNCHANGED gateway
  BY DEF Connection, Changes, Reachable, Disconnected
<1>7. \A k \in Keys : RedisForgets(k) \/ MemoryForgets(k) => UNCHANGED gateway
  BY DEF RedisForgets, MemoryForgets, ForgetsOnly
<1>8. Window => WindowEnds
  BY DEF Window
<1>9. Restart => failures' = 0 /\ circuit' = "closed"
  BY DEF Restart
<1> QED
  BY <1>1, <1>2, <1>3, <1>4, <1>5, <1>6, <1>7, <1>8, <1>9 DEF FitNext, Steps, GatewayStep

\* However late the answers of requests come in, the window that keeps requests away is there
\* exactly when the failures in a row have reached the threshold (mlGatewayService.js).
THEOREM WindowFollowsCount == FitSpec => []CircuitMatchesCount
<1>1. FitInit => GatewayInv
  BY GatewayAssumption DEF FitInit, GatewayInit, GatewayInv, CircuitMatchesCount
<1>2. GatewayInv /\ [FitNext]_fitVars => GatewayInv'
  BY GatewayKeeps, NextSteps
<1>3. GatewayInv => CircuitMatchesCount
  BY DEF GatewayInv
<1> QED
  BY <1>1, <1>2, <1>3, PTL DEF FitSpec

\* A connection that is open is known to the process, which makes none then.
ConnectionInv ==
  /\ client \in {"none", "open"} /\ attempts \in {0, 1}
  /\ opened = IF client = "open" THEN 1 ELSE 0
  /\ client = "open" => attempts = 0

ConnectionKept == UNCHANGED <<client, attempts, opened>>

LEMMA OpensKeeps ==
  ASSUME ConnectionInv, NEW w, NEW op, Opens(w, op)
  PROVE  ConnectionInv'
BY DEF Opens, Connects, Resolved, ConnectionInv

LEMMA ConnectionStep ==
  ASSUME ConnectionInv, [FitNext]_fitVars
  PROVE  ConnectionInv'
<1>1. ConnectionKept => ConnectionInv'
  BY DEF ConnectionKept, ConnectionInv
<1>2. CASE UNCHANGED fitVars
  BY <1>1, <1>2 DEF fitVars, cache, ConnectionKept
<1>3. ASSUME NEW w \in Workers, NEW k \in Keys, Start(w, k) PROVE ConnectionInv'
  BY <1>3, OpensKeeps DEF Start
<1>4. ASSUME NEW w \in Workers, Steps(w) PROVE ConnectionInv'
  <2>1. CASE Write(w)
    BY <2>1, OpensKeeps DEF Write
  <2>2. CASE ~Write(w)
    <3>1. ConnectionKept
      BY <1>4, <2>2 DEF Steps, ReadRedis, ReadMemory, Ask, AnswersWell,
                        AnswersBadly, Unreadable, Failed, AnswersNonsense,
                        WriteRedis, WriteMemory, Answer, cache, ConnectionKept
    <3> QED
      BY <1>1, <3>1
  <2> QED
    BY <2>1, <2>2
<1>5. ASSUME NEW k \in Keys, RedisForgets(k) \/ MemoryForgets(k) PROVE ConnectionInv'
  BY <1>1, <1>5 DEF RedisForgets, MemoryForgets, ForgetsOnly, ConnectionKept
<1>6. CASE Connection
  BY <1>1, <1>6 DEF Connection, Connected, ConnectFails, ConnectionInv
<1>7. CASE Changes \/ Window \/ Reachable
  BY <1>1, <1>7 DEF Changes, Window, Reachable, cache, ConnectionKept
<1>8. CASE Disconnected
  BY <1>8 DEF Disconnected, Disconnects, ConnectionInv
<1>9. CASE Restart
  BY <1>9 DEF Restart, ConnectionInv
<1> QED
  BY <1>2, <1>3, <1>4, <1>5, <1>6, <1>7, <1>8, <1>9 DEF FitNext

\* However many requests find no connection to Redis at once, break or restart, one is made
\* or open at a time: the others wait for it (resolveRedisClient).
THEOREM ConnectionIsOne == FitSpec => []OneConnection
<1>1. FitInit => ConnectionInv
  BY DEF FitInit, CacheInit, ConnectionInv
<1>2. ConnectionInv => OneConnection
  BY DEF ConnectionInv, OneConnection
<1> QED
  BY <1>1, <1>2, ConnectionStep, PTL DEF FitSpec

-----------------------------------------------------------------------------
(* Reviews.                                                                *)

Shown == Statuses \cup {"none"}
Documents == [status : Shown, granted : BOOLEAN]
Requests == [n : Nat, r : Reviews, from : {"status", "bulk", "other"}, status : Statuses,
             prev : Shown, at : {"sent", "read", "paid", "saved", "failed"},
             copy : Documents, overlaps : BOOLEAN]

ReviewsTypeOK ==
  /\ review \in [Reviews -> Documents] /\ paid \in [Reviews -> Nat]
  /\ requests \subseteq Requests /\ sent \in Nat
  /\ reads \subseteq [Reviews -> Shown] /\ rows \in [Reviews -> Shown]
  /\ cards \in [Statuses -> Nat]
  /\ crossed \in BOOLEAN /\ excused \in [Reviews -> Nat]

\* A request is told by its number and its review.
OneByOne ==
  /\ \A q \in requests : q.n <= sent
  /\ \A p, q \in requests : p.n = q.n /\ p.r = q.r => p = q

\* q is between reading its review and saving it, and found nobody there.
Alone(q) == q.at \in {"read", "paid"} /\ ~q.overlaps

OneAlone == \A p, q \in requests : Alone(p) /\ Alone(q) /\ p.r = q.r => p = q

\* A reward that nothing excuses is stored as granted, or its request is about to; a request
\* that is alone at a review not granted finds none paid.
RewardIsGranted ==
  /\ \A r \in Reviews :
       paid[r] > excused[r] =>
         \/ review[r].granted
         \/ \E q \in requests : q.r = r /\ q.at = "paid" /\ Alone(q)
  /\ \A q \in requests :
       q.at = "read" /\ Alone(q) /\ ~q.copy.granted => paid[q.r] <= excused[q.r]

RewardInv == ReviewsTypeOK /\ OneByOne /\ OneAlone /\ RewardIsGranted /\ RewardOnce

\* Without a crossing the cards count the rows as they were before the changes under way.
Before(base) ==
  /\ cards = Count(base)
  /\ \A r \in Reviews : (\A q \in Changing : q.r # r) => base[r] = rows[r]
  /\ \A q \in Changing : base[q.r] = q.prev

CardsInv ==
  /\ \A q \in Changing : q.prev \in Statuses /\ q.prev # q.status
  /\ ~crossed =>
       /\ reads = {} \/ Changing = {}
       /\ \A p, q \in Changing : p.r = q.r => p = q
       /\ \A q \in Changing : rows[q.r] = q.status
       /\ \E base \in [Reviews -> Shown] : Before(base)

ReviewsInv == RewardInv /\ CardsInv

-----------------------------------------------------------------------------
(* Requests that come, move on and go.                                     *)

LEMMA RequestTypes ==
  ASSUME ReviewsTypeOK, NEW q \in requests
  PROVE  /\ q \in Requests /\ q.n \in Nat /\ q.r \in Reviews /\ q.status \in Statuses
         /\ q.from \in {"status", "bulk", "other"} /\ q.prev \in Shown
         /\ q.at \in {"sent", "read", "paid", "saved", "failed"}
         /\ q.copy \in Documents /\ q.copy.granted \in BOOLEAN /\ q.overlaps \in BOOLEAN
         /\ paid[q.r] \in Nat /\ excused[q.r] \in Nat /\ review[q.r] \in Documents
BY DEF ReviewsTypeOK, Requests, Documents

\* One request moves on.
LEMMA Replaced ==
  ASSUME RewardInv, NEW q \in requests, NEW p \in Requests, p.n = q.n, p.r = q.r,
         requests' = (requests \ {q}) \cup {p}, UNCHANGED sent
  PROVE  /\ requests' \subseteq Requests /\ OneByOne'
         /\ \A o \in requests \ {q} : o \in requests'
         /\ p \in requests'
<1>1. requests' \subseteq Requests /\ p \in requests' /\ \A o \in requests \ {q} : o \in requests'
  BY DEF RewardInv, ReviewsTypeOK
<1>2. \A o \in requests' : o.n <= sent'
  BY DEF RewardInv, OneByOne
<1>3. \A o1, o2 \in requests' : o1.n = o2.n /\ o1.r = o2.r => o1 = o2
  BY DEF RewardInv, OneByOne
<1> QED
  BY <1>1, <1>2, <1>3 DEF OneByOne

\* Requests that nobody waits for, or that are answered, go.
LEMMA Removed ==
  ASSUME RewardInv, requests' \subseteq requests, UNCHANGED <<sent, serverVars, excused>>,
         \A q \in requests \ requests' : q.at \notin {"read", "paid"}
  PROVE  /\ requests' \subseteq Requests /\ OneByOne' /\ OneAlone' /\ RewardIsGranted' /\ RewardOnce'
<1>1. review' = review /\ paid' = paid /\ excused' = excused /\ sent' = sent
  BY DEF serverVars
<1>2. requests' \subseteq Requests /\ OneByOne' /\ OneAlone'
  BY <1>1 DEF RewardInv, ReviewsTypeOK, OneByOne, OneAlone, Alone
<1>3. RewardIsGranted'
  <2>1. \A q \in requests : q.at = "paid" => q \in requests'
    OBVIOUS
  <2>2. \A r \in Reviews :
          paid[r] > excused[r] =>
            \/ review[r].granted
            \/ \E q \in requests' : q.r = r /\ q.at = "paid" /\ Alone(q)
    BY <2>1 DEF RewardInv, RewardIsGranted
  <2>3. \A q \in requests' :
          q.at = "read" /\ Alone(q) /\ ~q.copy.granted => paid[q.r] <= excused[q.r]
    BY DEF RewardInv, RewardIsGranted
  <2> QED
    BY <1>1, <2>2, <2>3 DEF RewardIsGranted, Alone
<1>4. RewardOnce'
  BY <1>1 DEF RewardInv, RewardOnce
<1> QED
  BY <1>2, <1>3, <1>4

\* New requests come, each for a review of its own.
LEMMA Added ==
  ASSUME RewardInv, requests \subseteq requests', sent' = sent + 1,
         UNCHANGED <<serverVars, excused>>,
         \A q \in requests' \ requests : q \in Requests /\ q.n = sent + 1 /\ q.at = "sent",
         \A p, q \in requests' \ requests : p.r = q.r => p = q
  PROVE  /\ requests' \subseteq Requests /\ sent' \in Nat
         /\ OneByOne' /\ OneAlone' /\ RewardIsGranted' /\ RewardOnce'
<1>1. /\ review' = review /\ paid' = paid /\ excused' = excused
      /\ sent \in Nat /\ sent' = sent + 1 /\ sent' \in Nat
  BY DEF serverVars, RewardInv, ReviewsTypeOK
<1>2. requests' \subseteq Requests
  BY DEF RewardInv, ReviewsTypeOK
<1>3. OneByOne'
  <2>1. \A q \in requests : q.n \in Nat /\ q.n <= sent
    BY DEF RewardInv, ReviewsTypeOK, OneByOne, Requests
  <2>2. \A q \in requests' : q.n <= sent'
    BY <1>1, <2>1
  <2>3. ASSUME NEW p \in requests', NEW q \in requests', p.n = q.n, p.r = q.r
        PROVE  p = q
    <3>1. CASE p \in requests /\ q \in requests
      BY <2>3, <3>1 DEF RewardInv, OneByOne
    <3>2. CASE p \notin requests /\ q \notin requests
      BY <2>3, <3>2
    <3>3. CASE p \in requests /\ q \notin requests
      BY <1>1, <2>1, <2>3, <3>3
    <3>4. CASE p \notin requests /\ q \in requests
      BY <1>1, <2>1, <2>3, <3>4
    <3> QED
      BY <3>1, <3>2, <3>3, <3>4
  <2> QED
    BY <2>2, <2>3 DEF OneByOne
<1>4. OneAlone'
  BY DEF RewardInv, OneAlone, Alone
<1>5. RewardIsGranted'
  <2>1. \A r \in Reviews :
          paid[r] > excused[r] =>
            \/ review[r].granted
            \/ \E q \in requests' : q.r = r /\ q.at = "paid" /\ Alone(q)
    BY DEF RewardInv, RewardIsGranted
  <2>2. \A q \in requests' :
          q.at = "read" /\ Alone(q) /\ ~q.copy.granted => paid[q.r] <= excused[q.r]
    BY DEF RewardInv, RewardIsGranted
  <2> QED
    BY <1>1, <2>1, <2>2 DEF RewardIsGranted, Alone
<1>6. RewardOnce'
  BY <1>1 DEF RewardInv, RewardOnce
<1> QED
  BY <1>1, <1>2, <1>3, <1>4, <1>5, <1>6

-----------------------------------------------------------------------------
(* The cards while rows and cards stay.                                    *)

LEMMA CardsStay ==
  ASSUME CardsInv, Changing' = Changing, UNCHANGED <<reads, rows, cards, crossed>>
  PROVE  CardsInv'
BY DEF CardsInv, Before, Count

LEMMA CardsFollow ==
  ASSUME CardsInv, NEW q \in requests, NEW p,
         p.r = q.r, p.from = q.from, p.status = q.status, p.prev = q.prev,
         requests' = (requests \ {q}) \cup {p},
         UNCHANGED <<reads, rows, cards, crossed>>
  PROVE  CardsInv'
<1>1. CASE q.from # "status"
  <2>1. Changing' = Changing
    BY <1>1 DEF Changing, Of
  <2> QED
    BY <2>1, CardsStay
<1>2. CASE q.from = "status"
  <2>1. Changing' = (Changing \ {q}) \cup {p} /\ q \in Changing
    BY <1>2 DEF Changing, Of
  <2>2. \A o \in Changing' : o.prev \in Statuses /\ o.prev # o.status
    BY <2>1 DEF CardsInv
  <2>3. ASSUME ~crossed'
        PROVE  /\ reads' = {} \/ Changing' = {}
               /\ \A o1, o2 \in Changing' : o1.r = o2.r => o1 = o2
               /\ \A o \in Changing' : rows'[o.r] = o.status
               /\ \E base \in [Reviews -> Shown] : Before(base)'
    <3>1. PICK base \in [Reviews -> Shown] : Before(base)
      BY <2>3 DEF CardsInv
    <3>2. Before(base)'
      <4>1. cards' = Count(base)
        BY <3>1 DEF Before
      <4>2. \A r \in Reviews : (\A o \in Changing' : o.r # r) => base[r] = rows'[r]
        BY <2>1, <3>1 DEF Before
      <4>3. \A o \in Changing' : base[o.r] = o.prev
        BY <2>1, <3>1 DEF Before
      <4> QED
        BY <4>1, <4>2, <4>3 DEF Before, Count
    <3>3. reads' = {}
      BY <2>1, <2>3 DEF CardsInv
    <3>4. \A o1, o2 \in Changing' : o1.r = o2.r => o1 = o2
      BY <2>1, <2>3 DEF CardsInv
    <3>5. \A o \in Changing' : rows'[o.r] = o.status
      BY <2>1, <2>3 DEF CardsInv
    <3> QED
      BY <3>2, <3>3, <3>4, <3>5
  <2> QED
    BY <2>2, <2>3 DEF CardsInv
<1> QED
  BY <1>1, <1>2

-----------------------------------------------------------------------------
(* The server's steps.                                                     *)

LEMMA Reading ==
  ASSUME ReviewsInv, NEW q \in requests, Read(q) PROVE ReviewsInv'
<1> DEFINE overlaps == \E o \in requests : o.r = q.r /\ o.at \in {"read", "paid"}
           p == [q EXCEPT !.at = "read", !.copy = review[q.r], !.overlaps = overlaps]
<1>1. /\ requests' = (requests \ {q}) \cup {p} /\ q.at = "sent"
      /\ UNCHANGED <<serverVars, sent, reads, pageVars, crossed, excused, losses>>
  BY DEF Read
<1>2. RewardInv /\ CardsInv /\ ReviewsTypeOK
  BY DEF ReviewsInv, RewardInv
<1>3. overlaps \in BOOLEAN /\ review[q.r] \in Documents
  BY <1>2, RequestTypes
<1>4. /\ p \in Requests /\ p.n = q.n /\ p.r = q.r /\ p.at = "read" /\ p.copy = review[q.r]
      /\ p.from = q.from /\ p.status = q.status /\ p.prev = q.prev /\ p.overlaps = overlaps
  BY <1>2, <1>3, RequestTypes DEF Requests
<1>5. /\ review' = review /\ paid' = paid /\ excused' = excused /\ sent' = sent
      /\ UNCHANGED <<reads, rows, cards, crossed>>
  BY <1>1 DEF serverVars, pageVars
<1> HIDE DEF p
<1>6. requests' \subseteq Requests /\ OneByOne' /\ \A o \in requests \ {q} : o \in requests'
  BY <1>1, <1>2, <1>4, <1>5, Replaced
<1>7. CardsInv'
  BY <1>1, <1>2, <1>4, <1>5, CardsFollow
<1>8. OneAlone'
  <2>1. \A o \in requests : Alone(o) /\ o.r = q.r => overlaps
    BY DEF Alone
  <2>2. \A o \in requests : Alone(p) /\ Alone(o) => o.r # p.r
    BY <1>4, <2>1 DEF Alone
  <2>3. \A o1, o2 \in requests : Alone(o1) /\ Alone(o2) /\ o1.r = o2.r => o1 = o2
    BY <1>2 DEF RewardInv, OneAlone
  <2>4. \A o1, o2 \in requests' : Alone(o1) /\ Alone(o2) /\ o1.r = o2.r => o1 = o2
    BY <1>1, <2>2, <2>3
  <2> QED
    BY <2>4 DEF OneAlone, Alone
<1>9. RewardIsGranted'
  <2>1. \A r \in Reviews :
          paid[r] > excused[r] =>
            \/ review[r].granted
            \/ \E o \in requests' : o.r = r /\ o.at = "paid" /\ Alone(o)
    BY <1>1, <1>2, <1>6 DEF RewardInv, RewardIsGranted
  <2>2. Alone(p) /\ ~p.copy.granted => paid[p.r] <= excused[p.r]
    <3> SUFFICES ASSUME ~overlaps, ~review[q.r].granted PROVE paid[q.r] <= excused[q.r]
      BY <1>4 DEF Alone
    <3>1. ~ (paid[q.r] > excused[q.r])
      BY <1>2, RequestTypes DEF RewardInv, RewardIsGranted
    <3> QED
      BY <1>2, <3>1, RequestTypes
  <2>3. \A o \in requests' :
          o.at = "read" /\ Alone(o) /\ ~o.copy.granted => paid[o.r] <= excused[o.r]
    BY <1>1, <1>2, <2>2 DEF RewardInv, RewardIsGranted
  <2> QED
    BY <1>5, <2>1, <2>3 DEF RewardIsGranted, Alone
<1>10. ReviewsTypeOK' /\ RewardOnce'
  BY <1>2, <1>5, <1>6 DEF RewardInv, ReviewsTypeOK, RewardOnce
<1> QED
  BY <1>6, <1>7, <1>8, <1>9, <1>10 DEF ReviewsInv, RewardInv

LEMMA Awarding ==
  ASSUME ReviewsInv, NEW q \in requests, Award(q) PROVE ReviewsInv'
<1> DEFINE p == [q EXCEPT !.at = "paid"]
<1>1. /\ requests' = (requests \ {q}) \cup {p} /\ q.at = "read" /\ ~q.copy.granted
      /\ paid' = [paid EXCEPT ![q.r] = paid[q.r] + 1]
      /\ excused' = IF q.overlaps THEN [excused EXCEPT ![q.r] = excused[q.r] + 1] ELSE excused
      /\ UNCHANGED <<review, sent, reads, rows, cards, crossed>>
  BY DEF Award, Rewards, pageVars
<1>2. RewardInv /\ CardsInv /\ ReviewsTypeOK
  BY DEF ReviewsInv, RewardInv
<1>3. /\ p \in Requests /\ p.n = q.n /\ p.r = q.r /\ p.at = "paid" /\ p.overlaps = q.overlaps
      /\ p.from = q.from /\ p.status = q.status /\ p.prev = q.prev
  BY <1>2, RequestTypes DEF Requests
<1> HIDE DEF p
<1>4. /\ requests' \subseteq Requests /\ OneByOne' /\ p \in requests'
      /\ \A o \in requests \ {q} : o \in requests'
  BY <1>1, <1>2, <1>3, Replaced
<1>5. CardsInv'
  BY <1>1, <1>2, <1>3, CardsFollow
<1>6. OneAlone'
  BY <1>1, <1>2, <1>3 DEF RewardInv, OneAlone, Alone
<1>7. /\ q.r \in Reviews /\ q.overlaps \in BOOLEAN
      /\ \A r \in Reviews :
           /\ paid[r] \in Nat /\ excused[r] \in Nat /\ paid'[r] \in Nat /\ excused'[r] \in Nat
           /\ r # q.r => paid'[r] = paid[r] /\ excused'[r] = excused[r]
      /\ paid'[q.r] = paid[q.r] + 1
      /\ q.overlaps => excused'[q.r] = excused[q.r] + 1
      /\ ~q.overlaps => excused'[q.r] = excused[q.r] /\ paid[q.r] <= excused[q.r]
  <2>1. q.r \in Reviews /\ q.overlaps \in BOOLEAN
    BY <1>2, RequestTypes
  <2>2. paid \in [Reviews -> Nat] /\ excused \in [Reviews -> Nat]
    BY <1>2 DEF ReviewsTypeOK
  <2>3. ~q.overlaps => paid[q.r] <= excused[q.r]
    BY <1>1, <1>2 DEF RewardInv, RewardIsGranted, Alone
  <2> QED
    BY <1>1, <2>1, <2>2, <2>3
<1>8. RewardIsGranted'
  <2>1. ASSUME NEW r \in Reviews, paid'[r] > excused'[r]
        PROVE  review[r].granted \/ \E o \in requests' : o.r = r /\ o.at = "paid" /\ Alone(o)
    <3>1. CASE r = q.r /\ ~q.overlaps
      BY <1>3, <1>4, <3>1 DEF Alone
    <3>2. CASE r # q.r \/ q.overlaps
      <4>1. paid[r] > excused[r]
        BY <1>7, <2>1, <3>2
      <4>2. \A o \in requests : o.at = "paid" => o \in requests'
        BY <1>1, <1>4
      <4> QED
        BY <1>2, <4>1, <4>2 DEF RewardInv, RewardIsGranted
    <3> QED
      BY <1>7, <3>1, <3>2
  <2>2. ASSUME NEW o \in requests', o.at = "read", Alone(o), ~o.copy.granted
        PROVE  paid'[o.r] <= excused'[o.r]
    <3>1. o \in requests /\ o # q
      BY <1>1, <1>3, <2>2
    <3>2. paid[o.r] <= excused[o.r] /\ o.r \in Reviews
      BY <1>2, <2>2, <3>1, RequestTypes DEF RewardInv, RewardIsGranted
    <3>3. o.r = q.r => q.overlaps
      BY <1>1, <1>2, <1>7, <2>2, <3>1 DEF RewardInv, OneAlone, Alone
    <3> QED
      BY <1>7, <3>2, <3>3
  <2> QED
    BY <1>1, <2>1, <2>2 DEF RewardIsGranted, Alone
<1>9. RewardOnce'
  <2> SUFFICES ASSUME NEW r \in Reviews PROVE paid'[r] <= 1 + excused'[r]
    BY DEF RewardOnce
  <2>1. paid[r] <= 1 + excused[r]
    BY <1>2 DEF RewardInv, RewardOnce
  <2> QED
    BY <1>7, <2>1
<1>10. ReviewsTypeOK'
  <2>1. paid' \in [Reviews -> Nat] /\ excused' \in [Reviews -> Nat]
    BY <1>1, <1>2, <1>7 DEF ReviewsTypeOK
  <2> QED
    BY <1>1, <1>2, <1>4, <2>1 DEF ReviewsTypeOK
<1> QED
  BY <1>4, <1>5, <1>6, <1>8, <1>9, <1>10 DEF ReviewsInv, RewardInv

\* A request is over.
LEMMA Over ==
  ASSUME ReviewsInv, NEW q \in requests, NEW at \in {"saved", "failed"}, Settles(q, at),
         UNCHANGED <<sent, reads, rows, cards, crossed>>
  PROVE  /\ requests' \subseteq Requests /\ OneByOne' /\ OneAlone' /\ CardsInv'
         /\ \A o \in requests \ {q} : o \in requests'
         /\ \A o \in requests' : o \in requests \ {q} \/ o.at = at
<1> DEFINE p == [q EXCEPT !.at = at, !.copy = NoReview, !.overlaps = FALSE]
<1>1. RewardInv /\ CardsInv /\ ReviewsTypeOK
  BY DEF ReviewsInv, RewardInv
<1>2. NoReview \in Documents
  BY DEF NoReview, Documents, Shown
<1>3. /\ p \in Requests /\ p.n = q.n /\ p.r = q.r /\ p.at = at /\ ~Alone(p)
      /\ p.from = q.from /\ p.status = q.status /\ p.prev = q.prev
  BY <1>1, <1>2, RequestTypes DEF Requests, Alone
<1> HIDE DEF p
<1>4. CASE q.from = "other"
  <2>1. requests' = requests \ {q}
    BY <1>4 DEF Settles
  <2>2. Changing' = Changing
    BY <1>4, <2>1 DEF Changing, Of
  <2>3. CardsInv'
    BY <1>1, <2>2, CardsStay
  <2>4. requests' \subseteq Requests /\ OneByOne' /\ OneAlone'
    BY <1>1, <2>1 DEF RewardInv, ReviewsTypeOK, OneByOne, OneAlone, Alone
  <2> QED
    BY <2>1, <2>3, <2>4
<1>5. CASE q.from # "other"
  <2>1. requests' = (requests \ {q}) \cup {p}
    BY <1>5 DEF Settles, p
  <2>2. CardsInv'
    BY <1>1, <1>3, <2>1, CardsFollow
  <2>3. requests' \subseteq Requests /\ OneByOne' /\ \A o \in requests \ {q} : o \in requests'
    BY <1>1, <1>3, <2>1, Replaced
  <2>4. OneAlone'
    BY <1>1, <1>3, <2>1 DEF RewardInv, OneAlone, Alone
  <2> QED
    BY <1>3, <2>1, <2>2, <2>3, <2>4
<1> QED
  BY <1>4, <1>5

LEMMA Saving ==
  ASSUME ReviewsInv, NEW q \in requests, Save(q) PROVE ReviewsInv'
<1>1. /\ Settles(q, "saved")
      /\ paid' = paid /\ excused' = excused
      /\ review' = [review EXCEPT ![q.r].status = IF q.status # q.copy.status THEN q.status ELSE @,
                                  ![q.r].granted = @ \/ q.at = "paid"]
      /\ UNCHANGED <<sent, reads, rows, cards, crossed>>
  BY DEF Save, pageVars
<1>2. RewardInv /\ CardsInv /\ ReviewsTypeOK
  BY DEF ReviewsInv, RewardInv
<1>3. /\ requests' \subseteq Requests /\ OneByOne' /\ OneAlone' /\ CardsInv'
      /\ \A o \in requests \ {q} : o \in requests'
      /\ \A o \in requests' : o \in requests \ {q} \/ o.at = "saved"
  BY <1>1, Over
<1>4. review' \in [Reviews -> Documents]
  <2>1. /\ review \in [Reviews -> Documents] /\ q.r \in Reviews /\ q.status \in Shown
        /\ review[q.r].status \in Shown /\ review[q.r].granted \in BOOLEAN
    BY <1>2, RequestTypes DEF ReviewsTypeOK, Shown, Documents
  <2> QED
    BY <1>1, <2>1 DEF Documents
<1>5. \A r \in Reviews : /\ review[r].granted => review'[r].granted
                         /\ r = q.r /\ q.at = "paid" => review'[r].granted
  <2>1. review \in [Reviews -> Documents]
    BY <1>2 DEF ReviewsTypeOK
  <2> QED
    BY <1>1, <2>1 DEF Documents
<1>6. RewardIsGranted'
  <2>1. ASSUME NEW r \in Reviews, paid[r] > excused[r]
        PROVE  review'[r].granted \/ \E o \in requests' : o.r = r /\ o.at = "paid" /\ Alone(o)
    <3>1. review[r].granted \/ \E o \in requests : o.r = r /\ o.at = "paid" /\ Alone(o)
      BY <1>2, <2>1 DEF RewardInv, RewardIsGranted
    <3> QED
      BY <1>3, <1>5, <3>1
  <2>2. \A o \in requests' :
          o.at = "read" /\ Alone(o) /\ ~o.copy.granted => paid[o.r] <= excused[o.r]
    BY <1>2, <1>3 DEF RewardInv, RewardIsGranted
  <2> QED
    BY <1>1, <2>1, <2>2 DEF RewardIsGranted, Alone
<1>7. ReviewsTypeOK' /\ RewardOnce'
  BY <1>1, <1>2, <1>3, <1>4 DEF RewardInv, ReviewsTypeOK, RewardOnce
<1> QED
  BY <1>3, <1>6, <1>7 DEF ReviewsInv, RewardInv

LEMMA Failing ==
  ASSUME ReviewsInv, NEW q \in requests, ChangeFails(q) PROVE ReviewsInv'
<1>1. /\ Settles(q, "failed") /\ review' = review /\ paid' = paid
      /\ excused' = IF q.at = "paid" /\ ~q.overlaps
                    THEN [excused EXCEPT ![q.r] = excused[q.r] + 1] ELSE excused
      /\ UNCHANGED <<sent, reads, rows, cards, crossed>>
  BY DEF ChangeFails, pageVars, serverVars
<1>2. RewardInv /\ CardsInv /\ ReviewsTypeOK
  BY DEF ReviewsInv, RewardInv
<1>3. /\ requests' \subseteq Requests /\ OneByOne' /\ OneAlone' /\ CardsInv'
      /\ \A o \in requests \ {q} : o \in requests'
      /\ \A o \in requests' : o \in requests \ {q} \/ o.at = "failed"
  BY <1>1, Over
<1>4. /\ excused' \in [Reviews -> Nat]
      /\ \A r \in Reviews : /\ paid[r] \in Nat /\ excused[r] \in Nat /\ excused'[r] \in Nat
                            /\ excused[r] <= excused'[r]
                            /\ r = q.r /\ q.at = "paid" /\ Alone(q) => excused'[r] = excused[r] + 1
  <2>1. /\ excused \in [Reviews -> Nat] /\ paid \in [Reviews -> Nat] /\ q.r \in Reviews
        /\ q.overlaps \in BOOLEAN
    BY <1>2, RequestTypes DEF ReviewsTypeOK
  <2> QED
    BY <1>1, <2>1 DEF Alone
<1>5. RewardOnce'
  <2> SUFFICES ASSUME NEW r \in Reviews PROVE paid'[r] <= 1 + excused'[r]
    BY DEF RewardOnce
  <2>1. paid[r] <= 1 + excused[r]
    BY <1>2 DEF RewardInv, RewardOnce
  <2> QED
    BY <1>1, <1>4, <2>1
<1>6. RewardIsGranted'
  <2>1. ASSUME NEW r \in Reviews, paid[r] > excused'[r]
        PROVE  review[r].granted \/ \E o \in requests' : o.r = r /\ o.at = "paid" /\ Alone(o)
    <3>1. paid[r] > excused[r]
      BY <1>4, <2>1
    <3>2. ~(r = q.r /\ q.at = "paid" /\ Alone(q))
      <4>1. paid[r] <= 1 + excused[r]
        BY <1>2 DEF RewardInv, RewardOnce
      <4> QED
        BY <1>4, <2>1, <4>1
    <3>3. review[r].granted \/ \E o \in requests : o.r = r /\ o.at = "paid" /\ Alone(o)
      BY <1>2, <3>1 DEF RewardInv, RewardIsGranted
    <3> QED
      BY <1>3, <3>2, <3>3
  <2>2. ASSUME NEW o \in requests', o.at = "read", Alone(o), ~o.copy.granted
        PROVE  paid[o.r] <= excused'[o.r]
    <3>1. o \in requests
      BY <1>3, <2>2
    <3>2. paid[o.r] <= excused[o.r] /\ o.r \in Reviews
      BY <1>2, <2>2, <3>1, RequestTypes DEF RewardInv, RewardIsGranted
    <3> QED
      BY <1>4, <3>2
  <2> QED
    BY <1>1, <2>1, <2>2 DEF RewardIsGranted, Alone
<1>7. ReviewsTypeOK'
  BY <1>1, <1>2, <1>3, <1>4 DEF ReviewsTypeOK
<1> QED
  BY <1>3, <1>5, <1>6, <1>7 DEF ReviewsInv, RewardInv

\* A step with which nothing changes for the rewards but that some requests go.
LEMMA RewardsStay ==
  ASSUME RewardInv, requests' \subseteq requests, UNCHANGED <<sent, serverVars, excused>>,
         \A q \in requests \ requests' : q.at \notin {"read", "paid"},
         reads' \subseteq [Reviews -> Shown], rows' \in [Reviews -> Shown],
         cards' \in [Statuses -> Nat], crossed' \in BOOLEAN
  PROVE  RewardInv'
<1>1. /\ requests' \subseteq Requests /\ OneByOne' /\ OneAlone' /\ RewardIsGranted' /\ RewardOnce'
  BY Removed
<1>2. ReviewsTypeOK'
  BY <1>1 DEF RewardInv, ReviewsTypeOK, serverVars
<1> QED
  BY <1>1, <1>2 DEF RewardInv

LEMMA Losing ==
  ASSUME ReviewsInv, NEW q \in requests, AnswerLost(q) PROVE ReviewsInv'
<1>1. /\ Settles(q, "failed") /\ q.at = "saved" /\ review' = review /\ paid' = paid
      /\ excused' = excused /\ UNCHANGED <<sent, reads, rows, cards, crossed>>
  BY DEF AnswerLost, pageVars, serverVars
<1>2. RewardInv /\ CardsInv /\ ReviewsTypeOK
  BY DEF ReviewsInv, RewardInv
<1>3. /\ requests' \subseteq Requests /\ OneByOne' /\ OneAlone' /\ CardsInv'
      /\ \A o \in requests \ {q} : o \in requests'
      /\ \A o \in requests' : o \in requests \ {q} \/ o.at = "failed"
  BY <1>1, Over
<1>4. RewardIsGranted'
  <2>1. \A r \in Reviews :
          paid[r] > excused[r] =>
            \/ review[r].granted
            \/ \E o \in requests' : o.r = r /\ o.at = "paid" /\ Alone(o)
    BY <1>1, <1>2, <1>3 DEF RewardInv, RewardIsGranted
  <2>2. \A o \in requests' :
          o.at = "read" /\ Alone(o) /\ ~o.copy.granted => paid[o.r] <= excused[o.r]
    BY <1>2, <1>3 DEF RewardInv, RewardIsGranted
  <2> QED
    BY <1>1, <2>1, <2>2 DEF RewardIsGranted, Alone
<1>5. ReviewsTypeOK' /\ RewardOnce'
  BY <1>1, <1>2, <1>3 DEF RewardInv, ReviewsTypeOK, RewardOnce
<1> QED
  BY <1>3, <1>4, <1>5 DEF ReviewsInv, RewardInv

LEMMA Creating ==
  ASSUME ReviewsInv, NEW r \in Reviews, CreateReview(r) PROVE ReviewsInv'
<1>1. /\ review[r] = NoReview /\ review' = [review EXCEPT ![r].status = "pending"]
      /\ paid' = paid /\ excused' = excused
      /\ UNCHANGED <<requests, sent, reads, rows, cards, crossed>>
  BY DEF CreateReview, pageVars
<1>2. RewardInv /\ CardsInv /\ ReviewsTypeOK
  BY DEF ReviewsInv, RewardInv
<1>3. /\ review' \in [Reviews -> Documents]
      /\ \A p \in Reviews : review'[p].granted = review[p].granted
  <2>1. review \in [Reviews -> Documents] /\ "pending" \in Shown
    BY <1>2 DEF ReviewsTypeOK, Shown, Statuses
  <2> QED
    BY <1>1, <2>1 DEF Documents
<1>4. RewardInv'
  BY <1>1, <1>2, <1>3 DEF RewardInv, ReviewsTypeOK, OneByOne, OneAlone, Alone, RewardIsGranted, RewardOnce
<1>5. CardsInv'
  <2>1. Changing' = Changing
    BY <1>1 DEF Changing, Of
  <2> QED
    BY <1>1, <1>2, <2>1, CardsStay
<1> QED
  BY <1>4, <1>5 DEF ReviewsInv

-----------------------------------------------------------------------------
(* The page's requests.                                                    *)

\* The request for review r that a call makes.
Made(r, from, status) ==
  [n |-> sent + 1, r |-> r, from |-> from, status |-> status, prev |-> rows[r],
   at |-> "sent", copy |-> NoReview, overlaps |-> FALSE]

LEMMA Mades ==
  ASSUME ReviewsTypeOK, NEW r \in Reviews, NEW from \in {"status", "bulk", "other"}, NEW s \in Statuses
  PROVE  /\ Made(r, from, s) \in Requests /\ Made(r, from, s).n = sent + 1
         /\ Made(r, from, s).at = "sent" /\ Made(r, from, s).r = r
         /\ Made(r, from, s).from = from /\ Made(r, from, s).status = s
         /\ Made(r, from, s).prev = rows[r]
<1>1. NoReview \in Documents /\ sent + 1 \in Nat /\ rows[r] \in Shown
  BY DEF NoReview, Documents, Shown, ReviewsTypeOK
<1> QED
  BY <1>1 DEF Made, Requests

\* Requests whose answers change neither rows nor cards.
LEMMA Posted ==
  ASSUME ReviewsInv, NEW ids \in SUBSET Reviews, NEW from \in {"bulk", "other"}, NEW Asked \in [ids -> Statuses],
         requests' = requests \cup {Made(r, from, Asked[r]) : r \in ids}, sent' = sent + 1,
         UNCHANGED <<serverVars, reads, rows, cards, crossed, excused>>
  PROVE  ReviewsInv'
<1> DEFINE new == {Made(r, from, Asked[r]) : r \in ids}
<1>1. RewardInv /\ CardsInv /\ ReviewsTypeOK
  BY DEF ReviewsInv, RewardInv
<1>2. \A r \in ids : /\ Made(r, from, Asked[r]) \in Requests
                     /\ Made(r, from, Asked[r]).n = sent + 1
                     /\ Made(r, from, Asked[r]).at = "sent" /\ Made(r, from, Asked[r]).r = r
                     /\ Made(r, from, Asked[r]).from = from
  BY <1>1, Mades
<1>3. /\ \A q \in new : q \in Requests /\ q.n = sent + 1 /\ q.at = "sent" /\ q.from = from
      /\ \A p, q \in new : p.r = q.r => p = q
  BY <1>2
<1>4. \A q \in requests' \ requests : q \in new
  OBVIOUS
<1> HIDE DEF new
<1>5. /\ requests' \subseteq Requests /\ sent' \in Nat
      /\ OneByOne' /\ OneAlone' /\ RewardIsGranted' /\ RewardOnce'
  BY <1>1, <1>3, <1>4, Added
<1>6. ReviewsTypeOK'
  BY <1>1, <1>5 DEF ReviewsTypeOK, serverVars
<1>7. Changing' = Changing
  BY <1>3, <1>4 DEF Changing, Of
<1>8. CardsInv'
  BY <1>1, <1>7, CardsStay
<1> QED
  BY <1>5, <1>6, <1>8 DEF ReviewsInv, RewardInv

LEMMA Replying ==
  ASSUME ReviewsInv, NEW r \in Reviews, SaveAdminReply(r) PROVE ReviewsInv'
<1>1. /\ rows[r] \in Statuses /\ sent' = sent + 1
      /\ requests' = requests \cup {Made(x, "other", rows[x]) : x \in {r}}
      /\ UNCHANGED <<serverVars, reads, rows, cards, crossed, excused>>
  BY DEF SaveAdminReply, Submit, Made, Listed, ReviewsInv, RewardInv, ReviewsTypeOK, Shown
<1> DEFINE Asked == [x \in {r} |-> rows[x]]
<1>2. Asked \in [{r} -> Statuses]
  BY <1>1
<1>3. {Made(x, "other", rows[x]) : x \in {r}} = {Made(x, "other", Asked[x]) : x \in {r}}
  OBVIOUS
<1> HIDE DEF Asked
<1> QED
  BY <1>1, <1>2, <1>3, Posted

LEMMA Others ==
  ASSUME ReviewsInv, NEW r \in Reviews, NEW s \in Verdicts, OtherModerates(r, s) PROVE ReviewsInv'
<1>1. /\ s \in Statuses /\ sent' = sent + 1
      /\ requests' = requests \cup {Made(x, "other", s) : x \in {r}}
      /\ UNCHANGED <<serverVars, reads, rows, cards, crossed, excused>>
  BY DEF OtherModerates, Submit, Made, Verdicts
<1> DEFINE Asked == [x \in {r} |-> s]
<1>2. Asked \in [{r} -> Statuses]
  BY <1>1
<1>3. {Made(x, "other", s) : x \in {r}} = {Made(x, "other", Asked[x]) : x \in {r}}
  OBVIOUS
<1> HIDE DEF Asked
<1> QED
  BY <1>1, <1>2, <1>3, Posted

LEMMA Bulks ==
  ASSUME ReviewsInv, NEW ids \in SUBSET Reviews, NEW s \in Verdicts, PerformBulk(ids, s) PROVE ReviewsInv'
<1>1. /\ s \in Statuses /\ sent' = sent + 1
      /\ requests' = requests \cup {Made(x, "bulk", s) : x \in ids}
      /\ UNCHANGED <<serverVars, reads, rows, cards, crossed, excused>>
  BY DEF PerformBulk, Submit, Made, Verdicts
<1> DEFINE Asked == [x \in ids |-> s]
<1>2. Asked \in [ids -> Statuses]
  BY <1>1
<1>3. {Made(x, "bulk", s) : x \in ids} = {Made(x, "bulk", Asked[x]) : x \in ids}
  OBVIOUS
<1> HIDE DEF Asked
<1> QED
  BY <1>1, <1>2, <1>3, Posted

\* A change of status is shown before it is made.
LEMMA StatusChanges ==
  ASSUME ReviewsInv, NEW r \in Reviews, NEW s \in Statuses, SetReviewStatus(r, s) PROVE ReviewsInv'
<1> DEFINE new == Made(r, "status", s)
<1>1. RewardInv /\ CardsInv /\ ReviewsTypeOK
  BY DEF ReviewsInv, RewardInv
<1>2. /\ rows[r] \in Statuses /\ rows[r] # s /\ sent' = sent + 1
      /\ requests' = requests \cup {new}
      /\ rows' = [rows EXCEPT ![r] = s]
      /\ crossed' = (crossed \/ reads # {} \/ \E q \in Changing : q.r = r)
      /\ UNCHANGED <<serverVars, reads, cards, excused>>
  <2>1. {Made(x, "status", s) : x \in {r}} = {new}
    OBVIOUS
  <2>2. requests' = requests \cup {Made(x, "status", s) : x \in {r}}
    BY DEF SetReviewStatus, Submit, Made
  <2>3. rows[r] \in Statuses
    BY <1>1 DEF SetReviewStatus, Listed, ReviewsTypeOK, Shown
  <2> QED
    BY <2>1, <2>2, <2>3 DEF SetReviewStatus, Submit
<1>3. /\ new \in Requests /\ new.n = sent + 1 /\ new.at = "sent" /\ new.r = r
      /\ new.from = "status" /\ new.status = s /\ new.prev = rows[r]
  BY <1>1, Mades
<1> HIDE DEF new
<1>4. /\ requests' \subseteq Requests /\ sent' \in Nat
      /\ OneByOne' /\ OneAlone' /\ RewardIsGranted' /\ RewardOnce'
  BY <1>1, <1>2, <1>3, Added
<1>5. ReviewsTypeOK'
  <2>1. rows' \in [Reviews -> Shown] /\ crossed' \in BOOLEAN
    BY <1>1, <1>2 DEF ReviewsTypeOK, Shown
  <2> QED
    BY <1>1, <1>2, <1>4, <2>1 DEF ReviewsTypeOK, serverVars
<1>6. Changing' = Changing \cup {new}
  BY <1>2, <1>3 DEF Changing, Of
<1>7. CardsInv'
  <2>1. \A q \in Changing' : q.prev \in Statuses /\ q.prev # q.status
    BY <1>1, <1>2, <1>3, <1>6 DEF CardsInv
  <2>2. ASSUME ~crossed'
        PROVE  /\ reads' = {} \/ Changing' = {}
               /\ \A p, q \in Changing' : p.r = q.r => p = q
               /\ \A q \in Changing' : rows'[q.r] = q.status
               /\ \E base \in [Reviews -> Shown] : Before(base)'
    <3>1. ~crossed /\ reads = {} /\ \A q \in Changing : q.r # r
      BY <1>2, <2>2
    <3>2. PICK base \in [Reviews -> Shown] : Before(base)
      BY <1>1, <3>1 DEF CardsInv
    <3>3. \A p \in Reviews : rows'[p] = IF p = r THEN s ELSE rows[p]
      BY <1>1, <1>2 DEF ReviewsTypeOK
    <3>4. \A p, q \in Changing' : p.r = q.r => p = q
      BY <1>1, <1>3, <1>6, <3>1 DEF CardsInv
    <3>5. \A q \in Changing' : rows'[q.r] = q.status
      <4>1. \A q \in Changing : q.r \in Reviews /\ q.r # r /\ rows[q.r] = q.status
        BY <1>1, <3>1, RequestTypes DEF CardsInv, Changing, Of
      <4> QED
        BY <1>3, <1>6, <3>3, <4>1
    <3>6. Before(base)'
      <4>1. cards' = Count(base)
        BY <1>2, <3>2 DEF Before
      <4>2. \A p \in Reviews : (\A q \in Changing' : q.r # p) => base[p] = rows'[p]
        BY <1>3, <1>6, <3>2, <3>3 DEF Before
      <4>3. \A q \in Changing' : base[q.r] = q.prev
        BY <1>3, <1>6, <3>1, <3>2 DEF Before
      <4> QED
        BY <4>1, <4>2, <4>3 DEF Before, Count
    <3> QED
      BY <1>2, <3>1, <3>4, <3>5, <3>6
  <2> QED
    BY <2>1, <2>2 DEF CardsInv
<1> QED
  BY <1>4, <1>5, <1>7 DEF ReviewsInv, RewardInv

-----------------------------------------------------------------------------
(* The cards.                                                              *)

Having(base, s) == {r \in Reviews : base[r] = s}

LEMMA CountType ==
  ASSUME NEW base PROVE /\ Count(base) \in [Statuses -> Nat]
                        /\ \A s \in Statuses : /\ Count(base)[s] = Cardinality(Having(base, s))
                                               /\ IsFiniteSet(Having(base, s))
<1>1. \A s \in Statuses : /\ IsFiniteSet(Having(base, s)) /\ Cardinality(Having(base, s)) \in Nat
  BY ReviewsAreFinite, FS_Subset, FS_CardinalityType DEF Having
<1> QED
  BY <1>1 DEF Count, Having

\* One review changes its status: one card less, another one more.
LEMMA CountMoves ==
  ASSUME NEW base \in [Reviews -> Shown], NEW r \in Reviews, NEW s \in Statuses,
         base[r] \in Statuses, base[r] # s
  PROVE  Count([base EXCEPT ![r] = s]) =
           [Count(base) EXCEPT ![base[r]] = IF @ > 0 THEN @ - 1 ELSE 0, ![s] = @ + 1]
<1> DEFINE new == [base EXCEPT ![r] = s]
           p == base[r]
           left == Count(new)
           right == [Count(base) EXCEPT ![p] = IF @ > 0 THEN @ - 1 ELSE 0, ![s] = @ + 1]
<1>1. /\ Having(new, p) = Having(base, p) \ {r} /\ r \in Having(base, p)
      /\ Having(new, s) = Having(base, s) \cup {r} /\ r \notin Having(base, s)
      /\ \A t \in Statuses \ {p, s} : Having(new, t) = Having(base, t)
  BY DEF Having
<1>2. /\ left \in [Statuses -> Nat] /\ Count(base) \in [Statuses -> Nat]
      /\ \A t \in Statuses : /\ left[t] = Cardinality(Having(new, t))
                             /\ Count(base)[t] = Cardinality(Having(base, t))
                             /\ IsFiniteSet(Having(base, t))
  BY CountType
<1>3. Cardinality(Having(new, p)) = Cardinality(Having(base, p)) - 1
  BY <1>1, <1>2, FS_RemoveElement, ZenonT(30)
<1>4. Cardinality(Having(new, s)) = Cardinality(Having(base, s)) + 1
  BY <1>1, <1>2, FS_AddElement, ZenonT(30)
<1>5. left[p] = Count(base)[p] - 1 /\ left[s] = Count(base)[s] + 1
      /\ \A t \in Statuses \ {p, s} : left[t] = Count(base)[t]
  BY <1>1, <1>2, <1>3, <1>4
<1>6. left[p] \in Nat /\ Count(base)[p] \in Nat
  BY <1>2
<1> HIDE DEF left, new
<1>7. Count(base)[p] > 0
  BY <1>5, <1>6
<1>8. right \in [Statuses -> Nat]
  <2>1. Count(base)[p] - 1 \in Nat /\ Count(base)[s] + 1 \in Nat
    BY <1>2, <1>5, <1>6
  <2> QED
    BY <1>2, <1>7, <2>1
<1>9. \A t \in Statuses : right[t] = left[t]
  BY <1>2, <1>5, <1>7
<1>10. left = right
  <2> HIDE DEF right
  <2> QED
    BY <1>2, <1>8, <1>9
<1> QED
  BY <1>10 DEF left, new

\* The answer of a change of status.
LEMMA Answering ==
  ASSUME ReviewsInv, NEW q \in requests, Answered(q) PROVE ReviewsInv'
<1>1. RewardInv /\ CardsInv /\ ReviewsTypeOK
  BY DEF ReviewsInv, RewardInv
<1>2. /\ q \in Changing /\ q.at \in {"saved", "failed"} /\ requests' = requests \ {q}
      /\ cards' = IF q.at = "saved" THEN Adjust(q) ELSE cards
      /\ rows' = IF q.at = "failed" THEN [rows EXCEPT ![q.r] = q.prev] ELSE rows
      /\ UNCHANGED <<serverVars, sent, reads, crossed, excused>>
  BY DEF Answered
<1>3. q.r \in Reviews /\ q.status \in Statuses /\ q.prev \in Statuses /\ q.prev # q.status
  BY <1>1, <1>2, RequestTypes DEF CardsInv
<1>4. rows' \in [Reviews -> Shown] /\ cards' \in [Statuses -> Nat]
  <2>1. rows \in [Reviews -> Shown] /\ cards \in [Statuses -> Nat] /\ q.prev \in Shown
    BY <1>1, <1>3 DEF ReviewsTypeOK, Shown
  <2>2. Adjust(q) \in [Statuses -> Nat]
    <3>1. cards[q.prev] \in Nat /\ cards[q.status] \in Nat
      BY <1>3, <2>1
    <3> QED
      BY <1>3, <2>1, <3>1 DEF Adjust
  <2> QED
    BY <1>2, <2>1, <2>2
<1>5. RewardInv'
  BY <1>1, <1>2, <1>4, RewardsStay DEF RewardInv, ReviewsTypeOK
<1>6. Changing' = Changing \ {q}
  BY <1>2 DEF Changing, Of
<1>7. CardsInv'
  <2>1. \A o \in Changing' : o.prev \in Statuses /\ o.prev # o.status
    BY <1>1, <1>6 DEF CardsInv
  <2>2. ASSUME ~crossed'
        PROVE  /\ reads' = {} \/ Changing' = {}
               /\ \A o1, o2 \in Changing' : o1.r = o2.r => o1 = o2
               /\ \A o \in Changing' : rows'[o.r] = o.status
               /\ \E base \in [Reviews -> Shown] : Before(base)'
    <3>1. /\ ~crossed /\ reads' = {} /\ rows[q.r] = q.status
          /\ \A o1, o2 \in Changing : o1.r = o2.r => o1 = o2
          /\ \A o \in Changing : rows[o.r] = o.status /\ o.r \in Reviews
      BY <1>1, <1>2, <2>2, RequestTypes DEF CardsInv, Changing, Of
    <3>2. PICK base \in [Reviews -> Shown] : Before(base)
      BY <1>1, <3>1 DEF CardsInv
    <3>3. \A o1, o2 \in Changing' : o1.r = o2.r => o1 = o2
      BY <1>6, <3>1
    <3>4. \A o \in Changing' : o \in Changing /\ o.r # q.r
      BY <1>2, <1>6, <3>1
    <3>5. \A r \in Reviews : r # q.r => rows'[r] = rows[r]
      BY <1>1, <1>2 DEF ReviewsTypeOK
    <3>6. \A o \in Changing' : rows'[o.r] = o.status
      BY <3>1, <3>4, <3>5
    <3>7. /\ cards = Count(base) /\ base[q.r] = q.prev
          /\ \A r \in Reviews : r # q.r /\ (\A o \in Changing' : o.r # r) => base[r] = rows[r]
          /\ \A o \in Changing : base[o.r] = o.prev
      BY <1>2, <1>6, <3>2 DEF Before
    <3>8. CASE q.at = "failed"
      <4>1. cards' = Count(base)
        BY <1>2, <3>7, <3>8
      <4>2. rows'[q.r] = q.prev
        BY <1>1, <1>2, <1>3, <3>8 DEF ReviewsTypeOK
      <4>3. \A r \in Reviews : (\A o \in Changing' : o.r # r) => base[r] = rows'[r]
        BY <3>5, <3>7, <4>2
      <4>4. \A o \in Changing' : base[o.r] = o.prev
        BY <3>4, <3>7
      <4>5. Before(base)'
        BY <4>1, <4>3, <4>4 DEF Before, Count
      <4> QED
        BY <3>1, <3>3, <3>6, <4>5
    <3>9. CASE q.at = "saved"
      <4> DEFINE new == [base EXCEPT ![q.r] = q.status]
      <4>1. Count(new) = [Count(base) EXCEPT ![base[q.r]] = IF @ > 0 THEN @ - 1 ELSE 0,
                                             ![q.status] = @ + 1]
        <5>1. base[q.r] \in Statuses /\ base[q.r] # q.status
          BY <1>3, <3>7
        <5> QED
          BY <1>3, <5>1, CountMoves
      <4>2. cards' = Count(new)
        BY <1>2, <3>7, <3>9, <4>1 DEF Adjust
      <4>3. new \in [Reviews -> Shown] /\ new[q.r] = q.status
            /\ \A r \in Reviews : r # q.r => new[r] = base[r]
        BY <1>3 DEF Shown
      <4> HIDE DEF new
      <4>4. rows' = rows
        BY <1>2, <3>9
      <4>5. \A r \in Reviews : (\A o \in Changing' : o.r # r) => new[r] = rows'[r]
        BY <3>1, <3>7, <4>3, <4>4
      <4>6. \A o \in Changing' : new[o.r] = o.prev
        BY <3>1, <3>4, <3>7, <4>3
      <4>7. Before(new)'
        BY <4>2, <4>5, <4>6 DEF Before, Count
      <4> QED
        BY <3>1, <3>3, <3>6, <4>3, <4>7
    <3> QED
      BY <1>2, <3>8, <3>9
  <2> QED
    BY <2>1, <2>2 DEF CardsInv
<1> QED
  BY <1>5, <1>7 DEF ReviewsInv

LEMMA Listing ==
  ASSUME NEW list \in [Reviews -> Shown]
  PROVE  Count(list) \in [Statuses -> Nat]
BY CountType

\* Nobody changes a status: the cards count the rows.
LEMMA Settled ==
  ASSUME ~crossed => Changing = {} /\ cards = Count(rows), rows \in [Reviews -> Shown],
         \A q \in Changing : q.prev \in Statuses /\ q.prev # q.status
  PROVE  CardsInv
<1>1. Changing = {} /\ cards = Count(rows) => Before(rows)
  BY DEF Before
<1> QED
  BY <1>1 DEF CardsInv

\* The list is asked for: no change of status is under way, or this crosses one.
LEMMA ListAsked ==
  ASSUME ReviewsInv, reads' \in SUBSET [Reviews -> Shown],
         crossed' = (crossed \/ Changing # {}),
         requests' \subseteq requests, Changing' = Changing,
         \A q \in requests \ requests' : q.at \notin {"read", "paid"},
         UNCHANGED <<serverVars, sent, rows, cards, excused>>
  PROVE  ReviewsInv'
<1>1. RewardInv /\ CardsInv /\ ReviewsTypeOK
  BY DEF ReviewsInv, RewardInv
<1>2. RewardInv'
  BY <1>1, RewardsStay DEF ReviewsTypeOK
<1>3. \A q \in Changing' : q.prev \in Statuses /\ q.prev # q.status
  BY <1>1 DEF CardsInv
<1>4. ASSUME ~crossed'
      PROVE  Changing' = {} /\ \E base \in [Reviews -> Shown] : Before(base)'
  <2>1. Changing = {} /\ ~crossed
    BY <1>4
  <2>2. PICK base \in [Reviews -> Shown] : Before(base)
    BY <1>1, <2>1 DEF CardsInv
  <2>3. Before(base)'
    BY <2>1, <2>2 DEF Before, Count
  <2> QED
    BY <2>1, <2>3
<1>5. CardsInv'
  BY <1>3, <1>4 DEF CardsInv
<1> QED
  BY <1>2, <1>5 DEF ReviewsInv

LEMMA Fetching == ASSUME ReviewsInv, FetchReviews PROVE ReviewsInv'
<1>1. Stored \in [Reviews -> Shown]
  BY DEF Stored, ReviewsInv, RewardInv, ReviewsTypeOK, Documents
<1>2. Changing' = Changing
  BY DEF FetchReviews, Changing, Of
<1> QED
  BY <1>1, <1>2, ListAsked DEF FetchReviews, pageVars

LEMMA BulkAnswers == ASSUME ReviewsInv, BulkEnds PROVE ReviewsInv'
<1>1. Stored \in [Reviews -> Shown] /\ reads \subseteq [Reviews -> Shown]
  BY DEF Stored, ReviewsInv, RewardInv, ReviewsTypeOK, Documents
<1>2. Changing' = Changing
  BY DEF BulkEnds, Changing, Of
<1>3. \A q \in requests \ requests' : q.at \notin {"read", "paid"}
  BY DEF BulkEnds, Of
<1>4. requests' \subseteq requests /\ reads' \in SUBSET [Reviews -> Shown]
  BY <1>1 DEF BulkEnds
<1> QED
  BY <1>2, <1>3, <1>4, ListAsked DEF BulkEnds

LEMMA ListAnswers == ASSUME ReviewsInv, NEW list \in reads, ReviewsAnswer(list) PROVE ReviewsInv'
<1>1. RewardInv /\ CardsInv /\ ReviewsTypeOK
  BY DEF ReviewsInv, RewardInv
<1>2. /\ list \in [Reviews -> Shown] /\ reads' \subseteq [Reviews -> Shown]
      /\ rows' = list /\ cards' = Count(list) /\ requests' = requests /\ crossed' = crossed
      /\ UNCHANGED <<serverVars, sent, excused>>
  BY <1>1 DEF ReviewsAnswer, ReviewsTypeOK
<1>3. cards' \in [Statuses -> Nat]
  BY <1>2, Listing
<1>4. RewardInv'
  BY <1>1, <1>2, <1>3, RewardsStay DEF ReviewsTypeOK
<1>5. Changing' = Changing
  BY <1>2 DEF Changing, Of
<1>6. CardsInv'
  <2>1. \A q \in Changing' : q.prev \in Statuses /\ q.prev # q.status
    BY <1>1, <1>5 DEF CardsInv
  <2>2. ~crossed' => Changing' = {}
    BY <1>1, <1>2, <1>5 DEF CardsInv
  <2>3. Changing' = {} => Before(list)'
    BY <1>2 DEF Before, Count
  <2> QED
    BY <1>2, <2>1, <2>2, <2>3 DEF CardsInv
<1> QED
  BY <1>4, <1>6 DEF ReviewsInv

LEMMA ListErrors == ASSUME ReviewsInv, NEW list \in reads, ReviewsFail(list) PROVE ReviewsInv'
<1>1. RewardInv /\ CardsInv /\ ReviewsTypeOK
  BY DEF ReviewsInv, RewardInv
<1>2. /\ reads' = reads \ {list} /\ rows' = rows /\ cards' = cards /\ requests' = requests
      /\ crossed' = crossed /\ UNCHANGED <<serverVars, sent, excused>>
  BY DEF ReviewsFail, pageVars
<1>3. RewardInv'
  BY <1>1, <1>2, RewardsStay DEF ReviewsTypeOK
<1>4. Changing' = Changing
  BY <1>2 DEF Changing, Of
<1>5. CardsInv'
  BY <1>1, <1>2, <1>4 DEF CardsInv, Before, Count
<1> QED
  BY <1>3, <1>5 DEF ReviewsInv

-----------------------------------------------------------------------------
(* The theorems.                                                           *)

LEMMA AtStart == ReviewsInit => ReviewsInv
<1> SUFFICES ASSUME ReviewsInit PROVE ReviewsInv
  OBVIOUS
<1>1. NoReview \in Documents /\ Rewarded \in Documents
  BY DEF NoReview, Rewarded, Documents, Shown, Statuses
<1>2. /\ review \in [Reviews -> Documents] /\ requests = {} /\ sent = 0 /\ crossed = FALSE
      /\ rows \in [Reviews -> Shown] /\ cards = Count(rows)
      /\ paid = [r \in Reviews |-> IF review[r].granted THEN 1 ELSE 0]
      /\ excused = [r \in Reviews |-> 0]
  BY <1>1 DEF ReviewsInit, Shown
<1>3. reads \subseteq [Reviews -> Shown]
  BY <1>2 DEF ReviewsInit, Stored, Documents
<1>4. cards \in [Statuses -> Nat]
  BY <1>2, Listing
<1>5. ReviewsTypeOK
  BY <1>2, <1>3, <1>4 DEF ReviewsTypeOK
<1>6. OneByOne /\ OneAlone /\ RewardIsGranted /\ RewardOnce
  BY <1>2 DEF OneByOne, OneAlone, RewardIsGranted, RewardOnce
<1>7. CardsInv
  <2>1. Changing = {}
    BY <1>2 DEF Changing, Of
  <2> QED
    BY <1>2, <2>1, Settled
<1> QED
  BY <1>5, <1>6, <1>7 DEF ReviewsInv, RewardInv

LEMMA Stutters == ASSUME ReviewsInv, UNCHANGED reviewVars PROVE ReviewsInv'
<1>1. RewardInv /\ CardsInv /\ ReviewsTypeOK
  BY DEF ReviewsInv, RewardInv
<1>2. /\ requests' = requests /\ UNCHANGED <<reads, rows, cards, crossed>>
      /\ UNCHANGED <<sent, serverVars, excused>>
  BY DEF reviewVars, pageVars
<1>3. RewardInv'
  BY <1>1, <1>2, RewardsStay DEF ReviewsTypeOK
<1>4. Changing' = Changing
  BY <1>2 DEF Changing, Of
<1> QED
  BY <1>1, <1>2, <1>3, <1>4, CardsStay DEF ReviewsInv

LEMMA ReviewSteps == ReviewsInv /\ [ReviewsNext]_reviewVars => ReviewsInv'
<1> SUFFICES ASSUME ReviewsInv, [ReviewsNext]_reviewVars PROVE ReviewsInv'
  OBVIOUS
<1>1. ASSUME NEW r \in Reviews, CreateReview(r) \/ SaveAdminReply(r) PROVE ReviewsInv'
  BY <1>1, Creating, Replying
<1>2. ASSUME NEW r \in Reviews, NEW s \in Statuses, SetReviewStatus(r, s) PROVE ReviewsInv'
  BY <1>2, StatusChanges
<1>3. ASSUME NEW r \in Reviews, NEW s \in Verdicts, OtherModerates(r, s) PROVE ReviewsInv'
  BY <1>3, Others
<1>4. ASSUME NEW ids \in SUBSET Reviews, NEW s \in Verdicts, PerformBulk(ids, s) PROVE ReviewsInv'
  BY <1>4, Bulks
<1>5. ASSUME NEW q \in requests,
             Read(q) \/ Award(q) \/ Save(q) \/ ChangeFails(q) \/ AnswerLost(q) \/ Answered(q)
      PROVE  ReviewsInv'
  BY <1>5, Reading, Awarding, Saving, Failing, Losing, Answering
<1>6. CASE BulkEnds
  BY <1>6, BulkAnswers
<1>7. CASE FetchReviews
  BY <1>7, Fetching
<1>8. ASSUME NEW list \in reads, ReviewsAnswer(list) \/ ReviewsFail(list) PROVE ReviewsInv'
  BY <1>8, ListAnswers, ListErrors
<1>9. CASE UNCHANGED reviewVars
  BY <1>9, Stutters
<1> QED
  BY <1>1, <1>2, <1>3, <1>4, <1>5, <1>6, <1>7, <1>8, <1>9 DEF ReviewsNext

LEMMA Invariance == ReviewsSpec => []ReviewsInv
BY AtStart, ReviewSteps, PTL DEF ReviewsSpec

\* However many moderators publish, reject and reply at once and whatever fails, a review's
\* reward is paid once, and once more only for each request that overlapped another or failed
\* after it had paid (updateReviewStatus, awardLoyaltyPoints).
THEOREM RewardPaidOnce == ReviewsSpec => []RewardOnce
<1>1. ReviewsInv => RewardOnce
  BY DEF ReviewsInv, RewardInv
<1> QED
  BY <1>1, Invariance, PTL

\* For every number of reviews the cards count the rows between changes of status, unless
\* one was crossed (setReviewStatus, fetchReviews).
THEOREM CardsAreRight == ReviewsSpec => []CardsCountRows
<1>1. ReviewsInv => CardsCountRows
  <2> SUFFICES ASSUME ReviewsInv, ~crossed, Changing = {} PROVE cards = Count(rows)
    BY DEF CardsCountRows
  <2>1. PICK base \in [Reviews -> Shown] : Before(base)
    BY DEF ReviewsInv, CardsInv
  <2>2. rows \in [Reviews -> Shown] /\ \A r \in Reviews : base[r] = rows[r]
    BY <2>1 DEF Before, ReviewsInv, RewardInv, ReviewsTypeOK
  <2>3. base = rows
    BY <2>2
  <2> QED
    BY <2>1, <2>3 DEF Before
<1> QED
  BY <1>1, Invariance, PTL

-----------------------------------------------------------------------------
(* The orders page, for all orders and amounts and any number of writes    *)
(* and losses.                                                             *)

Refunds == {p \in posts : p.kind = "refund"}

\* While a refund is under way its dialog is open, and there is one request; one that was
\* accepted and not yet answered is the one more that was refunded.
DialogInv ==
  /\ processing => dialog # None
  /\ \A p \in Refunds : processing /\ p.o = dialog
  /\ \A p, q \in Refunds : p = q
  /\ refunded <= 1 + unanswered
  /\ dialog # None => refunded <= unanswered \/ \E p \in Refunds : p.copy # NoCopy

PageInv == OrdersTypeOK /\ DialogInv

LEMMA PageInit == OrdersInit => PageInv
<1> SUFFICES ASSUME OrdersInit PROVE PageInv
  OBVIOUS
<1>1. Amount \in Nat /\ MaxWrites \in Nat /\ MaxMisses \in Nat
  BY AdminOrdersAssumption DEF ConstantsOK
<1>2. [writes |-> 0, left |-> Amount] \in Copies
  BY <1>1 DEF Copies
<1>3. OrdersTypeOK
  <2>1. saved \in Snapshots /\ shown \in [PageOrders -> Copies \cup {NoCopy}]
    BY <1>2 DEF OrdersInit, Snapshots
  <2>2. /\ events = {} /\ lists = {} /\ posts = {} /\ applied = {}
        /\ dialog = None /\ processing = FALSE /\ refunded = 0 /\ unanswered = 0 /\ misses = 0
    BY DEF OrdersInit
  <2>3. /\ events \subseteq [o : PageOrders, copy : Copies] /\ lists \subseteq Snapshots
        /\ posts \subseteq [kind : PostKinds, o : PageOrders, copy : Copies \cup {NoCopy}]
        /\ applied \subseteq [o : PageOrders, copy : Copies]
    BY <2>2
  <2>4. dialog \in PageOrders \cup {None} /\ processing \in BOOLEAN
    BY <2>2
  <2>5. refunded \in Nat /\ unanswered \in Nat /\ misses \in 0..MaxMisses
    BY <1>1, <2>2
  <2> QED
    BY <2>1, <2>3, <2>4, <2>5 DEF OrdersTypeOK
<1>4. Refunds = {}
  BY DEF OrdersInit, Refunds
<1> QED
  BY <1>3, <1>4 DEF OrdersInit, PageInv, DialogInv

LEMMA CopyFacts ==
  ASSUME NEW c \in Copies
  PROVE  /\ c.writes \in Nat /\ c.left \in Nat /\ c.left <= Amount /\ c # NoCopy
         /\ c.writes <= MaxWrites
BY AdminOrdersAssumption DEF ConstantsOK, Copies, NoCopy

\* A write within its bounds makes another copy.
LEMMA WrittenFacts ==
  ASSUME OrdersTypeOK, NEW o \in PageOrders, NEW n \in Nat, n <= saved[o].left,
         saved[o].writes < MaxWrites
  PROVE  Written(o, n) \in Copies
<1>1. saved[o] \in Copies
  BY DEF OrdersTypeOK, Snapshots
<1> QED
  BY <1>1, CopyFacts, AdminOrdersAssumption DEF ConstantsOK, Written, Copies

\* The requests of the dialog stay as they are.
LEMMA SameDialog ==
  ASSUME DialogInv, Refunds' = Refunds, UNCHANGED dialogVars
  PROVE  DialogInv'
<1>1. processing' = processing /\ dialog' = dialog /\ refunded' = refunded /\ unanswered' = unanswered
  BY DEF dialogVars
<1> QED
  BY <1>1 DEF DialogInv

LEMMA PostFacts ==
  ASSUME OrdersTypeOK, NEW p \in posts
  PROVE  /\ p \in [kind : PostKinds, o : PageOrders, copy : Copies \cup {NoCopy}]
         /\ p.o \in PageOrders /\ p.kind \in PostKinds /\ p.copy \in Copies \cup {NoCopy}
BY DEF OrdersTypeOK

LEMMA PageNext == PageInv /\ [OrdersNext]_orderVars => PageInv'
<1> SUFFICES ASSUME PageInv, [OrdersNext]_orderVars PROVE PageInv'
  OBVIOUS
<1> USE DEF PageInv
<1>0. Amount \in Nat \ {0} /\ MaxWrites \in Nat /\ MaxMisses \in Nat /\ None \notin PageOrders
  BY AdminOrdersAssumption DEF ConstantsOK, None
<1>1. CASE UNCHANGED orderVars
  <2>1. OrdersTypeOK' BY <1>1 DEF orderVars, wireVars, listVars, dialogVars, OrdersTypeOK
  <2>2. Refunds' = Refunds /\ UNCHANGED dialogVars
    BY <1>1 DEF orderVars, wireVars, Refunds
  <2> QED BY <2>1, <2>2, SameDialog
<1>2. ASSUME NEW o \in PageOrders, OtherWrite(o) PROVE PageInv'
  <2>1. PICK n \in {0} \cup (IF saved[o].left > 0 THEN {1} ELSE {}) :
          /\ saved' = [saved EXCEPT ![o] = Written(o, n)]
          /\ Publish(o, Written(o, n))
    BY <1>2 DEF OtherWrite
  <2>2. saved[o] \in Copies
    BY DEF OrdersTypeOK, Snapshots
  <2>3. n \in Nat /\ n <= saved[o].left
    BY <2>2, CopyFacts
  <2>4. Written(o, n) \in Copies
    BY <1>2, <2>3, WrittenFacts DEF OtherWrite
  <2>5. OrdersTypeOK'
    BY <1>2, <2>1, <2>4 DEF OtherWrite, Publish, OrdersTypeOK, Snapshots, listVars, dialogVars
  <2>6. Refunds' = Refunds /\ UNCHANGED dialogVars
    BY <1>2 DEF OtherWrite, Refunds
  <2> QED BY <2>5, <2>6, SameDialog
<1>3. ASSUME NEW o \in PageOrders, ApplyStatusUpdate(o) \/ VerifyLive(o) PROVE PageInv'
  <2>1. PICK kindOf \in {"status", "verify"} : Send(kindOf, o)
    BY <1>3 DEF ApplyStatusUpdate, VerifyLive
  <2>2. UNCHANGED <<saved, events, lists, listVars, dialogVars, misses>>
    BY <1>3 DEF ApplyStatusUpdate, VerifyLive
  <2>3. OrdersTypeOK'
    BY <2>1, <2>2 DEF Send, OrdersTypeOK, PostKinds, listVars, dialogVars
  <2>4. Refunds' = Refunds
    BY <2>1 DEF Send, Refunds
  <2> QED BY <2>2, <2>3, <2>4, SameDialog
<1>4. ASSUME NEW o \in PageOrders, OpenRefundDialog(o) PROVE PageInv'
  <2>1. OrdersTypeOK'
    BY <1>4 DEF OpenRefundDialog, OrdersTypeOK, wireVars, listVars
  <2>2. Refunds' = Refunds /\ dialog = None /\ ~processing /\ processing' = processing
    BY <1>4 DEF OpenRefundDialog, Refunds, wireVars, DialogInv
  <2>3. Refunds' = {}
    BY <2>2 DEF DialogInv
  <2> QED BY <1>0, <1>4, <2>1, <2>2, <2>3 DEF OpenRefundDialog, DialogInv
<1>5. CASE AllOrders
  <2>1. OrdersTypeOK'
    BY <1>5 DEF AllOrders, OrdersTypeOK, listVars, dialogVars
  <2>2. Refunds' = Refunds /\ UNCHANGED dialogVars
    BY <1>5 DEF AllOrders, Refunds
  <2> QED BY <2>1, <2>2, SameDialog
<1>6. ASSUME NEW list \in lists, ListAnswer(list) \/ ListLost(list) PROVE PageInv'
  <2>1. OrdersTypeOK'
    <3>1. list \in Snapshots
      BY DEF OrdersTypeOK
    <3>2. MergeSnapshot(list) \in [PageOrders -> Copies]
      BY <3>1 DEF MergeSnapshot, Snapshots
    <3> QED
      BY <1>6, <1>0, <3>2 DEF ListAnswer, ListLost, Miss, OrdersTypeOK, listVars, dialogVars
  <2>2. Refunds' = Refunds /\ UNCHANGED dialogVars
    BY <1>6 DEF ListAnswer, ListLost, Refunds
  <2> QED BY <2>1, <2>2, SameDialog
<1>7. ASSUME NEW e \in events, OrderUpsert(e) \/ EventGone(e) PROVE PageInv'
  <2>1. OrdersTypeOK'
    BY <1>7 DEF OrderUpsert, EventGone, Upsert, OrdersTypeOK, wireVars, listVars, dialogVars
  <2>2. Refunds' = Refunds /\ UNCHANGED dialogVars
    BY <1>7 DEF OrderUpsert, EventGone, Refunds, wireVars
  <2> QED BY <2>1, <2>2, SameDialog
<1>8. ASSUME NEW p \in posts, TakePost(p) \/ AnswerDetails(p) PROVE PageInv'
  <2>1. p.kind \in {"status", "verify"} /\ p.o \in PageOrders /\ saved[p.o] \in Copies
    BY <1>8, PostFacts DEF TakePost, AnswerDetails, OrdersTypeOK, Snapshots
  <2>2. PICK copy \in Copies : posts' = (posts \ {p}) \cup {[p EXCEPT !.copy = copy]}
    BY <1>8, <2>1, CopyFacts, WrittenFacts DEF TakePost, AnswerDetails
  <2>3. [p EXCEPT !.copy = copy] \in [kind : PostKinds, o : PageOrders, copy : Copies \cup {NoCopy}]
        /\ [p EXCEPT !.copy = copy].kind = p.kind
    BY PostFacts
  <2>4. OrdersTypeOK'
    <3>1. CASE TakePost(p)
      <4>1. Written(p.o, 0) \in Copies
        BY <2>1, <3>1, CopyFacts, WrittenFacts DEF TakePost
      <4> QED
        BY <2>1, <2>2, <2>3, <3>1, <4>1 DEF TakePost, Publish, OrdersTypeOK, Snapshots, listVars, dialogVars
    <3>2. CASE AnswerDetails(p)
      BY <2>2, <2>3, <3>2 DEF AnswerDetails, OrdersTypeOK, listVars, dialogVars
    <3> QED BY <1>8, <3>1, <3>2
  <2>5. Refunds' = Refunds
    BY <2>1, <2>2, <2>3 DEF Refunds
  <2>6. UNCHANGED dialogVars
    BY <1>8 DEF TakePost, AnswerDetails
  <2> QED BY <2>4, <2>5, <2>6, SameDialog
<1>9. ASSUME NEW p \in posts, StatusAnswer(p) \/ VerifyAnswer(p) \/ PostFails(p) PROVE PageInv'
  <2>1. p.kind \in {"status", "verify"} /\ posts' = posts \ {p} /\ UNCHANGED dialogVars
    BY <1>9 DEF StatusAnswer, VerifyAnswer, PostFails
  <2>2. OrdersTypeOK'
    BY <1>9, <1>0, PostFacts DEF StatusAnswer, VerifyAnswer, PostFails, Miss, Upsert, OrdersTypeOK, listVars, dialogVars
  <2>3. Refunds' = Refunds
    BY <2>1 DEF Refunds
  <2> QED BY <2>1, <2>2, <2>3, SameDialog
<1>10. ASSUME NEW p \in posts, NEW n \in 1..Amount, TakeRefund(p, n) PROVE PageInv'
  <2>1. p.kind = "refund" /\ p.o \in PageOrders /\ saved[p.o] \in Copies /\ p.copy = NoCopy /\ p \in Refunds
    BY <1>10, PostFacts DEF TakeRefund, OrdersTypeOK, Snapshots, Refunds
  <2>2. n \in Nat /\ n <= saved[p.o].left
    BY <1>0, <1>10, <2>1, CopyFacts DEF TakeRefund
  <2>3. Written(p.o, n) \in Copies
    BY <1>10, <2>1, <2>2, WrittenFacts DEF TakeRefund
  <2> DEFINE q == [p EXCEPT !.copy = Written(p.o, n)]
  <2>4. /\ q \in [kind : PostKinds, o : PageOrders, copy : Copies \cup {NoCopy}]
        /\ q.kind = "refund" /\ q.o = p.o /\ q.copy = Written(p.o, n)
    BY <2>1, <2>3, PostFacts
  <2>5. posts' = (posts \ {p}) \cup {q}
    BY <1>10 DEF TakeRefund
  <2>6. OrdersTypeOK'
    BY <1>10, <2>1, <2>3, <2>4, <2>5 DEF TakeRefund, Publish, OrdersTypeOK, Snapshots, listVars
  <2>7. Refunds = {p}
    BY <2>1 DEF DialogInv
  <2>8. Refunds' = {q}
    BY <2>4, <2>5, <2>7 DEF Refunds
  <2>9. q.copy # NoCopy
    BY <2>3, <2>4, CopyFacts
  <2>10. processing /\ p.o = dialog /\ dialog # None /\ refunded <= unanswered
    BY <2>1, <2>7 DEF DialogInv
  <2>11. processing' /\ q.o = dialog' /\ dialog' # None /\ refunded' = refunded + 1 /\ unanswered' = unanswered
    BY <1>10, <2>4, <2>10 DEF TakeRefund
  <2> HIDE DEF q
  <2>12. DialogInv'
    BY <2>8, <2>9, <2>10, <2>11 DEF DialogInv, OrdersTypeOK
  <2> QED BY <2>6, <2>12
<1>11. ASSUME NEW p \in posts, RefundAnswer(p) \/ RefundRefused(p) \/ RefundUnanswered(p) PROVE PageInv'
  <2>1. p \in Refunds /\ posts' = posts \ {p} /\ processing' = FALSE
    BY <1>11 DEF RefundAnswer, RefundRefused, RefundUnanswered, Refunds
  <2>2. OrdersTypeOK'
    <3>1. CASE RefundAnswer(p)
      BY <3>1, PostFacts DEF RefundAnswer, Upsert, OrdersTypeOK
    <3>2. CASE RefundRefused(p)
      BY <3>2 DEF RefundRefused, OrdersTypeOK, listVars
    <3>3. CASE RefundUnanswered(p)
      <4>1. unanswered' \in Nat /\ misses' \in 0..MaxMisses
        BY <1>0, <3>3 DEF RefundUnanswered, Miss, OrdersTypeOK
      <4>2. /\ UNCHANGED <<saved, events, lists, shown, applied, dialog, refunded>>
            /\ posts' \subseteq posts /\ processing' = FALSE
        BY <3>3 DEF RefundUnanswered, listVars
      <4> QED
        BY <4>1, <4>2 DEF OrdersTypeOK
    <3> QED
      BY <1>11, <3>1, <3>2, <3>3
  <2>3. Refunds = {p} /\ Refunds' = {}
    BY <2>1 DEF DialogInv, Refunds
  <2>4. refunded \in Nat /\ unanswered \in Nat /\ refunded' = refunded /\ refunded <= 1 + unanswered
    BY <1>11 DEF RefundAnswer, RefundRefused, RefundUnanswered, OrdersTypeOK, DialogInv
  <2>5. CASE RefundAnswer(p)
    BY <2>1, <2>2, <2>3, <2>4, <2>5 DEF RefundAnswer, DialogInv
  <2>6. CASE RefundRefused(p)
    <3>1. refunded <= unanswered \/ dialog = None
      BY <2>3, <2>6 DEF RefundRefused, DialogInv
    <3> QED
      BY <2>1, <2>2, <2>3, <2>4, <2>6, <3>1 DEF RefundRefused, DialogInv
  <2>7. CASE RefundUnanswered(p)
    BY <2>1, <2>2, <2>3, <2>4, <2>7 DEF RefundUnanswered, DialogInv
  <2> QED BY <1>11, <2>5, <2>6, <2>7
<1>12. CASE CloseRefundDialog
  <2>1. OrdersTypeOK'
    BY <1>12 DEF CloseRefundDialog, OrdersTypeOK, wireVars, listVars
  <2>2. Refunds' = Refunds /\ Refunds = {}
    BY <1>12 DEF CloseRefundDialog, wireVars, Refunds, DialogInv
  <2> QED BY <1>12, <2>1, <2>2 DEF CloseRefundDialog, DialogInv
<1>13. CASE SubmitRefund
  <2> DEFINE q == [kind |-> "refund", o |-> dialog, copy |-> NoCopy]
  <2>1. dialog \in PageOrders /\ posts' = posts \cup {q}
    BY <1>13 DEF SubmitRefund, Send, OrdersTypeOK
  <2>2. OrdersTypeOK'
    BY <1>13, <2>1 DEF SubmitRefund, OrdersTypeOK, PostKinds, listVars
  <2>3. Refunds = {}
    BY <1>13 DEF SubmitRefund, DialogInv
  <2>4. Refunds' = {q}
    BY <2>1, <2>3 DEF Refunds
  <2>5. refunded <= unanswered
    BY <1>13, <2>3 DEF SubmitRefund, DialogInv
  <2> QED BY <1>13, <2>2, <2>4, <2>5 DEF SubmitRefund, DialogInv
<1> QED
  BY <1>1, <1>2, <1>3, <1>4, <1>5, <1>6, <1>7, <1>8, <1>9, <1>10, <1>11, <1>12, <1>13 DEF OrdersNext

\* A refund dialog refunds once, whatever is clicked, unless an answer was lost (submitRefund).
THEOREM DialogRefundsOnce == OrdersSpec => []OneRefundPerDialog
<1>1. PageInv => OneRefundPerDialog
  BY DEF PageInv, DialogInv, OneRefundPerDialog
<1> QED
  BY <1>1, PageInit, PageNext, PTL DEF OrdersSpec

-----------------------------------------------------------------------------
(* The list of products, for all products and statuses and any number of   *)
(* changes and removals.                                                   *)

ListTypes ==
  /\ there \in [ListedProducts -> [there : BOOLEAN, status : ListStatuses]]
  /\ had \in [ListedProducts -> SUBSET ListStatuses]
  /\ \A list \in listReads : list \in [ListedProducts -> [there : BOOLEAN, status : ListStatuses]]
  /\ listRows \in [ListedProducts -> [listed : BOOLEAN, status : ListStatuses \cup {"none"}, hidden : BOOLEAN]]
  /\ bulk = List!NoBulk \/
       /\ bulk \in [ids : (SUBSET ListedProducts) \ {{}}, next : ListStatuses, previous : {bulk.previous},
                    left : SUBSET ListedProducts, failed : SUBSET ListedProducts]
       /\ bulk.left \cup bulk.failed \subseteq bulk.ids

\* Every status known to somebody was one of the product.
KnownIsReal ==
  \A p \in ListedProducts :
    /\ there[p].status \in had[p]
    /\ \A list \in listReads : list[p].status \in had[p]
    /\ p \in bulk.ids => bulk.previous[p] \in had[p]

\* A status shown and not real is the one of the bulk change under way, which is to be
\* made yet or has failed.
ShownIsReal ==
  \A p \in ListedProducts :
    listRows[p].listed =>
      listRows[p].status \in had[p] \/ (listRows[p].status = bulk.next /\ p \in bulk.left \cup bulk.failed)

ListInv == ListTypes /\ KnownIsReal /\ ShownIsReal

LEMMA NoBulkFacts == List!NoBulk.ids = {} /\ List!NoBulk.left = {} /\ List!NoBulk.failed = {} /\ List!NoBulk.next = "none"
BY DEF List!NoBulk

LEMMA NoRowFacts == List!NoRow \in [listed : BOOLEAN, status : ListStatuses \cup {"none"}, hidden : BOOLEAN]
                    /\ ~List!NoRow.listed
BY DEF List!NoRow

LEMMA ListInit == List!Init => ListInv
<1> SUFFICES ASSUME List!Init PROVE ListInv
  OBVIOUS
<1>1. there \in [ListedProducts -> [there : {TRUE}, status : ListStatuses]]
  BY DEF List!Init
<1>2. \A p \in ListedProducts : there[p] \in [there : BOOLEAN, status : ListStatuses]
  BY <1>1
<1>3. there \in [ListedProducts -> [there : BOOLEAN, status : ListStatuses]]
  BY <1>1, <1>2
<1>4. had \in [ListedProducts -> SUBSET ListStatuses] /\ \A p \in ListedProducts : there[p].status \in had[p]
  BY <1>2 DEF List!Init
<1>5. listRows \in [ListedProducts -> [listed : BOOLEAN, status : ListStatuses \cup {"none"}, hidden : BOOLEAN]]
      /\ \A p \in ListedProducts : ~listRows[p].listed
  BY NoRowFacts DEF List!Init
<1>6. listReads = {there} /\ bulk = List!NoBulk
  BY DEF List!Init
<1> QED
  BY <1>3, <1>4, <1>5, <1>6, NoBulkFacts DEF ListInv, ListTypes, KnownIsReal, ShownIsReal

\* The rows change in what is listed with a status that is real, or not in their status.
LEMMA RowsChange ==
  ASSUME ListInv, UNCHANGED <<List!netVars, bulk>>,
         listRows' \in [ListedProducts -> [listed : BOOLEAN, status : ListStatuses \cup {"none"}, hidden : BOOLEAN]],
         \A p \in ListedProducts : listRows'[p].listed =>
           listRows'[p].status \in had[p] \/ (listRows[p].listed /\ listRows'[p].status = listRows[p].status)
  PROVE  ListInv'
<1>1. there' = there /\ listReads' = listReads /\ had' = had /\ bulk' = bulk
  BY DEF List!netVars
<1>2. ListTypes'
  BY <1>1 DEF ListInv, ListTypes
<1>3. KnownIsReal'
  BY <1>1 DEF ListInv, KnownIsReal
<1>4. ShownIsReal'
  BY <1>1 DEF ListInv, ShownIsReal
<1> QED
  BY <1>2, <1>3, <1>4 DEF ListInv

LEMMA HideRows ==
  ASSUME ListInv, NEW ids, NEW h \in BOOLEAN, List!Hide(ids, h)
  PROVE  /\ listRows' \in [ListedProducts -> [listed : BOOLEAN, status : ListStatuses \cup {"none"}, hidden : BOOLEAN]]
         /\ \A p \in ListedProducts : listRows'[p].listed => listRows[p].listed /\ listRows'[p].status = listRows[p].status
<1>1. \A p \in ListedProducts :
        /\ listRows[p] \in [listed : BOOLEAN, status : ListStatuses \cup {"none"}, hidden : BOOLEAN]
        /\ [listRows[p] EXCEPT !.hidden = h] \in [listed : BOOLEAN, status : ListStatuses \cup {"none"}, hidden : BOOLEAN]
        /\ [listRows[p] EXCEPT !.hidden = h].status = listRows[p].status
        /\ [listRows[p] EXCEPT !.hidden = h].listed = listRows[p].listed
  BY DEF ListInv, ListTypes
<1> QED
  BY <1>1 DEF List!Hide

LEMMA BulkFacts ==
  ASSUME ListInv, bulk # List!NoBulk
  PROVE  /\ bulk \in [ids : (SUBSET ListedProducts) \ {{}}, next : ListStatuses, previous : {bulk.previous},
                      left : SUBSET ListedProducts, failed : SUBSET ListedProducts]
         /\ bulk.next \in ListStatuses /\ bulk.left \cup bulk.failed \subseteq bulk.ids
BY DEF ListInv, ListTypes

\* A product gets a status.
LEMMA StatusSet ==
  ASSUME ListInv, NEW p \in ListedProducts, NEW s \in ListStatuses, List!SetStatus(p, s)
  PROVE  /\ there' \in [ListedProducts -> [there : BOOLEAN, status : ListStatuses]]
         /\ had' \in [ListedProducts -> SUBSET ListStatuses]
         /\ \A q \in ListedProducts : had[q] \subseteq had'[q] /\ there'[q].status \in had'[q]
         /\ s \in had'[p]
<1>1. /\ there \in [ListedProducts -> [there : BOOLEAN, status : ListStatuses]]
      /\ had \in [ListedProducts -> SUBSET ListStatuses]
      /\ there' = [there EXCEPT ![p].status = s] /\ had' = [had EXCEPT ![p] = @ \cup {s}]
  BY DEF List!SetStatus, ListInv, ListTypes
<1>2. /\ \A q \in ListedProducts \ {p} : had'[q] = had[q] /\ there'[q] = there[q]
      /\ had'[p] = had[p] \cup {s}
      /\ there'[p] = [there[p] EXCEPT !.status = s]
  BY <1>1
<1>3. there'[p].status = s /\ there'[p] \in [there : BOOLEAN, status : ListStatuses]
  BY <1>1, <1>2
<1>4. \A q \in ListedProducts : there[q].status \in had[q]
  BY DEF ListInv, KnownIsReal
<1> QED
  BY <1>1, <1>2, <1>3, <1>4

\* Whatever is known stays real when more was had.
LEMMA StillReal ==
  ASSUME ListInv, UNCHANGED <<listReads, listRows, bulk>>,
         there' \in [ListedProducts -> [there : BOOLEAN, status : ListStatuses]],
         had' \in [ListedProducts -> SUBSET ListStatuses],
         \A q \in ListedProducts : had[q] \subseteq had'[q] /\ there'[q].status \in had'[q]
  PROVE  ListInv'
<1>1. ListTypes'
  BY DEF ListInv, ListTypes
<1>2. KnownIsReal'
  BY DEF ListInv, KnownIsReal
<1>3. ShownIsReal'
  BY DEF ListInv, ShownIsReal
<1> QED
  BY <1>1, <1>2, <1>3 DEF ListInv

LEMMA ListNext == ListInv /\ [List!Next]_(List!vars) => ListInv'
<1> SUFFICES ASSUME ListInv, [List!Next]_(List!vars) PROVE ListInv'
  OBVIOUS
<1>0. listRows \in [ListedProducts -> [listed : BOOLEAN, status : ListStatuses \cup {"none"}, hidden : BOOLEAN]]
  BY DEF ListInv, ListTypes
<1>1. CASE UNCHANGED List!vars
  BY <1>0, <1>1, RowsChange DEF List!vars, List!undoVars
<1>2. ASSUME NEW p \in ListedProducts, NEW s \in ListStatuses, List!OtherSaves(p, s) PROVE ListInv'
  <2>1. List!SetStatus(p, s) /\ UNCHANGED <<listReads, listRows, bulk>>
    BY <1>2 DEF List!OtherSaves, List!undoVars
  <2> QED
    BY <2>1, StatusSet, StillReal
<1>3. CASE List!FetchList \/ \E list \in listReads : List!ListFails(list)
  <2>1. /\ UNCHANGED <<there, had, listRows, bulk>>
        /\ listReads' \subseteq listReads \cup {there}
    BY <1>3 DEF List!FetchList, List!ListFails, List!undoVars
  <2>2. ListTypes'
    BY <2>1 DEF ListInv, ListTypes
  <2>3. KnownIsReal' /\ ShownIsReal'
    BY <2>1 DEF ListInv, KnownIsReal, ShownIsReal
  <2> QED
    BY <2>2, <2>3 DEF ListInv
<1>4. ASSUME NEW list \in listReads, List!ListAnswer(list) PROVE ListInv'
  <2>1. /\ UNCHANGED <<there, had, bulk>>
        /\ listReads' \subseteq listReads
    BY <1>4 DEF List!ListAnswer, List!undoVars
  <2>2. /\ list \in [ListedProducts -> [there : BOOLEAN, status : ListStatuses]]
        /\ \A p \in ListedProducts : list[p].status \in had[p] /\ list[p].status \in ListStatuses
    BY DEF ListInv, ListTypes, KnownIsReal
  <2>3. /\ listRows' \in [ListedProducts -> [listed : BOOLEAN, status : ListStatuses \cup {"none"}, hidden : BOOLEAN]]
        /\ \A p \in ListedProducts : listRows'[p].listed => listRows'[p].status \in had[p]
    BY <1>4, <2>2, NoRowFacts DEF List!ListAnswer
  <2>4. ListTypes'
    BY <2>1, <2>3 DEF ListInv, ListTypes
  <2>5. KnownIsReal'
    BY <2>1 DEF ListInv, KnownIsReal
  <2>6. ShownIsReal'
    BY <2>1, <2>3 DEF ShownIsReal
  <2> QED
    BY <2>4, <2>5, <2>6 DEF ListInv
<1>5. ASSUME NEW ids \in SUBSET ListedProducts, List!ScheduleDelete(ids) PROVE ListInv'
  BY <1>0, <1>5, HideRows, RowsChange DEF List!ScheduleDelete
<1>6. ASSUME NEW t \in toasts, List!Undo(t[1], t[2]) \/ List!ToastCloses(t[1], t[2]) PROVE ListInv'
  <2>1. CASE List!Undo(t[1], t[2])
    BY <1>0, <2>1, HideRows, RowsChange DEF List!Undo
  <2>2. CASE List!ToastCloses(t[1], t[2])
    BY <1>0, <2>2, RowsChange DEF List!ToastCloses
  <2> QED
    BY <1>6, <2>1, <2>2
<1>7. ASSUME NEW t \in timers, List!TimerFires(t[1], t[2]) PROVE ListInv'
  BY <1>0, <1>7, RowsChange DEF List!TimerFires
<1>8. ASSUME NEW r \in removals, List!RemoveProduct(r) PROVE ListInv'
  <2>1. /\ there' = [there EXCEPT ![r.p].there = FALSE]
        /\ UNCHANGED <<listReads, had, listRows, bulk>>
    BY <1>8 DEF List!RemoveProduct
  <2>2. there \in [ListedProducts -> [there : BOOLEAN, status : ListStatuses]]
        /\ had \in [ListedProducts -> SUBSET ListStatuses]
        /\ \A q \in ListedProducts : there[q].status \in had[q]
    BY DEF ListInv, ListTypes, KnownIsReal
  <2>3. \A q \in ListedProducts : /\ there'[q] \in [there : BOOLEAN, status : ListStatuses]
                            /\ there'[q].status = there[q].status
    BY <2>1, <2>2
  <2> QED
    BY <2>1, <2>2, <2>3, StillReal
<1>9. ASSUME NEW r \in removals, List!RemovalLost(r) \/ List!Removed(r) \/ List!NotRemoved(r) PROVE ListInv'
  <2>1. CASE List!RemovalLost(r)
    <3>1. UNCHANGED <<there, listReads, had, listRows, bulk>>
      BY <2>1 DEF List!RemovalLost
    <3> QED
      BY <3>1 DEF ListInv, ListTypes, KnownIsReal, ShownIsReal
  <2>2. CASE List!Removed(r)
    <3>1. listRows' = [listRows EXCEPT ![r.p] = List!NoRow] /\ UNCHANGED <<List!netVars, bulk>>
      BY <2>2 DEF List!Removed
    <3> QED
      BY <1>0, <3>1, NoRowFacts, RowsChange
  <2>3. CASE List!NotRemoved(r)
    BY <1>0, <2>3, HideRows, RowsChange DEF List!NotRemoved
  <2> QED
    BY <1>9, <2>1, <2>2, <2>3
<1>10. ASSUME NEW ids \in SUBSET ListedProducts, NEW s \in ListStatuses, List!BulkStatus(ids, s) PROVE ListInv'
  <2> DEFINE previous == [p \in ids |-> listRows[p].status]
  <2>1. /\ bulk = List!NoBulk /\ ids # {} /\ ids \subseteq List!Visible /\ UNCHANGED <<there, listReads, had>>
        /\ bulk' = [ids |-> ids, next |-> s, previous |-> previous,
                    left |-> ids, failed |-> {}]
        /\ listRows' = [p \in ListedProducts |-> IF p \in ids THEN [listRows[p] EXCEPT !.status = s] ELSE listRows[p]]
    BY <1>10 DEF List!BulkStatus, List!netVars
  <2> HIDE DEF previous
  <2>2. \A p \in ListedProducts : listRows[p].listed => listRows[p].status \in had[p]
    BY <2>1, NoBulkFacts DEF ListInv, ShownIsReal
  <2>3. /\ listRows' \in [ListedProducts -> [listed : BOOLEAN, status : ListStatuses \cup {"none"}, hidden : BOOLEAN]]
        /\ \A p \in ListedProducts : listRows'[p].listed = listRows[p].listed
        /\ \A p \in ids : listRows'[p].status = s
        /\ \A p \in ListedProducts \ ids : listRows'[p] = listRows[p]
    <3>1. \A p \in ListedProducts :
            /\ [listRows[p] EXCEPT !.status = s] \in [listed : BOOLEAN, status : ListStatuses \cup {"none"}, hidden : BOOLEAN]
            /\ [listRows[p] EXCEPT !.status = s].status = s
            /\ [listRows[p] EXCEPT !.status = s].listed = listRows[p].listed
      BY <1>0
    <3> QED
      BY <1>0, <2>1, <3>1
  <2>4. /\ bulk'.ids = ids /\ bulk'.next = s /\ bulk'.left = ids /\ bulk'.failed = {}
        /\ bulk'.previous = previous
        /\ bulk' \in [ids : (SUBSET ListedProducts) \ {{}}, next : ListStatuses, previous : {bulk'.previous},
                      left : SUBSET ListedProducts, failed : SUBSET ListedProducts]
    <3>1. bulk' = [ids |-> ids, next |-> s, previous |-> previous, left |-> ids, failed |-> {}]
      BY <2>1
    <3>2. /\ bulk'.ids = ids /\ bulk'.next = s /\ bulk'.left = ids /\ bulk'.failed = {}
          /\ bulk'.previous = previous
      BY <3>1
    <3>3. ids \in (SUBSET ListedProducts) \ {{}}
      <4>1. ids \in SUBSET ListedProducts /\ ids # {}
        BY <2>1
      <4> QED
        BY <4>1
    <3>4. bulk' \in [ids : (SUBSET ListedProducts) \ {{}}, next : ListStatuses, previous : {bulk'.previous},
                      left : SUBSET ListedProducts, failed : SUBSET ListedProducts]
      BY <3>1, <3>2, <3>3
    <3> QED
      BY <3>2, <3>4
  <2>5. ListTypes'
    BY <2>1, <2>3, <2>4 DEF ListInv, ListTypes
  <2>6. KnownIsReal'
    <3>1. \A p \in ids : bulk'.previous[p] \in had[p]
      BY <2>1, <2>2, <2>4 DEF List!Visible, previous
    <3> QED
      BY <2>1, <2>4, <3>1 DEF ListInv, KnownIsReal
  <2>7. ShownIsReal'
    BY <2>1, <2>2, <2>3, <2>4 DEF ShownIsReal
  <2> QED
    BY <2>5, <2>6, <2>7 DEF ListInv
<1>11. ASSUME NEW p \in bulk.left, List!Patch(p) PROVE ListInv'
  <2> DEFINE valid == List!Required \subseteq List!BulkBody /\ there[p].there
  <2>1. /\ p \in bulk.left /\ UNCHANGED <<listReads, listRows>>
        /\ IF valid THEN List!SetStatus(p, bulk.next) ELSE UNCHANGED <<there, had>>
        /\ bulk' = [bulk EXCEPT !.left = @ \ {p}, !.failed = IF valid THEN @ ELSE @ \cup {p}]
    BY <1>11 DEF List!Patch
  <2>2. bulk # List!NoBulk
    BY <2>1, NoBulkFacts
  <2>3. p \in ListedProducts /\ bulk.next \in ListStatuses /\ p \in bulk.ids
    BY <2>1, <2>2, BulkFacts
  <2>4. /\ bulk'.ids = bulk.ids /\ bulk'.next = bulk.next /\ bulk'.previous = bulk.previous
        /\ bulk'.left = bulk.left \ {p}
        /\ bulk'.failed = IF valid THEN bulk.failed ELSE bulk.failed \cup {p}
        /\ bulk' \in [ids : (SUBSET ListedProducts) \ {{}}, next : ListStatuses, previous : {bulk'.previous},
                      left : SUBSET ListedProducts, failed : SUBSET ListedProducts]
    <3>1. (IF valid THEN bulk.failed ELSE bulk.failed \cup {p}) \in SUBSET ListedProducts
      BY <2>2, <2>3, BulkFacts
    <3> HIDE DEF valid
    <3> QED
      BY <2>1, <2>2, <3>1, BulkFacts
  <2>5. /\ there' \in [ListedProducts -> [there : BOOLEAN, status : ListStatuses]]
        /\ had' \in [ListedProducts -> SUBSET ListStatuses]
        /\ \A q \in ListedProducts : had[q] \subseteq had'[q] /\ there'[q].status \in had'[q]
        /\ valid => bulk.next \in had'[p]
    <3>1. CASE valid
      BY <2>1, <2>3, <3>1, StatusSet
    <3>2. CASE ~valid
      BY <2>1, <3>2 DEF ListInv, ListTypes, KnownIsReal
    <3> QED
      BY <3>1, <3>2
  <2> HIDE DEF valid
  <2>6. ListTypes'
    BY <2>1, <2>2, <2>3, <2>4, <2>5, BulkFacts DEF ListInv, ListTypes
  <2>7. KnownIsReal'
    BY <2>1, <2>4, <2>5 DEF ListInv, KnownIsReal
  <2>8. ShownIsReal'
    BY <2>1, <2>4, <2>5 DEF ListInv, ShownIsReal
  <2> QED
    BY <2>6, <2>7, <2>8 DEF ListInv
<1>12. CASE List!BulkEnds
  <2>1. /\ bulk # List!NoBulk /\ bulk.left = {} /\ bulk' = List!NoBulk /\ UNCHANGED <<there, listReads, had>>
        /\ listRows' = [p \in ListedProducts |-> IF p \in bulk.failed /\ listRows[p].listed
                                       THEN [listRows[p] EXCEPT !.status = bulk.previous[p]] ELSE listRows[p]]
    BY <1>12 DEF List!BulkEnds, List!netVars
  <2>2. \A p \in bulk.failed : p \in ListedProducts /\ bulk.previous[p] \in had[p] /\ bulk.previous[p] \in ListStatuses
    BY <2>1, BulkFacts DEF ListInv, KnownIsReal, ListTypes
  <2>3. /\ listRows' \in [ListedProducts -> [listed : BOOLEAN, status : ListStatuses \cup {"none"}, hidden : BOOLEAN]]
        /\ \A p \in ListedProducts : listRows'[p].listed => listRows'[p].status \in had[p]
    <3>1. \A p \in bulk.failed :
            /\ [listRows[p] EXCEPT !.status = bulk.previous[p]]
                 \in [listed : BOOLEAN, status : ListStatuses \cup {"none"}, hidden : BOOLEAN]
            /\ [listRows[p] EXCEPT !.status = bulk.previous[p]].status = bulk.previous[p]
      BY <1>0, <2>2
    <3>2. \A p \in ListedProducts \ bulk.failed : listRows[p].listed => listRows[p].status \in had[p]
      BY <2>1 DEF ListInv, ShownIsReal
    <3> QED
      BY <1>0, <2>1, <2>2, <3>1, <3>2
  <2>4. ListTypes'
    BY <2>1, <2>3 DEF ListInv, ListTypes
  <2>5. KnownIsReal'
    BY <2>1, NoBulkFacts DEF ListInv, KnownIsReal
  <2>6. ShownIsReal'
    BY <2>1, <2>3 DEF ShownIsReal
  <2> QED
    BY <2>4, <2>5, <2>6 DEF ListInv
<1>13. CASE List!LeavePage
  <2>1. /\ listRows' = [p \in ListedProducts |-> List!NoRow] /\ bulk' = List!NoBulk
        /\ listReads' = {there} /\ UNCHANGED <<there, had>>
    BY <1>13 DEF List!LeavePage
  <2>2. /\ listRows' \in [ListedProducts -> [listed : BOOLEAN, status : ListStatuses \cup {"none"}, hidden : BOOLEAN]]
        /\ \A p \in ListedProducts : ~listRows'[p].listed
    BY <2>1, NoRowFacts
  <2>3. ListTypes'
    BY <2>1, <2>2 DEF ListInv, ListTypes
  <2>4. KnownIsReal' /\ ShownIsReal'
    BY <2>1, <2>2, NoBulkFacts DEF ListInv, KnownIsReal, ShownIsReal
  <2> QED
    BY <2>3, <2>4 DEF ListInv
<1> QED
  BY <1>1, <1>2, <1>3, <1>4, <1>5, <1>6, <1>7, <1>8, <1>9, <1>10, <1>11, <1>12, <1>13 DEF List!Next

\* When no bulk change is under way, every status shown is one the product had, whatever was
\* read, changed or refused meanwhile (performBulkStatus).
THEOREM StatusesAreReal == AdminSpec => []RowsAreReal
<1>1. AdminInit => ListInv
  BY ListInit DEF AdminInit
<1>2. ListInv /\ [AdminNext]_adminVars => ListInv'
  <2> SUFFICES ASSUME ListInv, [AdminNext]_adminVars PROVE ListInv'
    OBVIOUS
  <2>1. [List!Next]_(List!vars)
    BY DEF AdminNext, adminVars, productVars, List!vars, List!netVars, List!undoVars
  <2> QED
    BY <2>1, ListNext
<1>3. ListInv => RowsAreReal
  BY NoBulkFacts DEF ListInv, ShownIsReal, List!RowsAreReal, RowsAreReal
<1> QED
  BY <1>1, <1>2, <1>3, PTL DEF AdminSpec

-----------------------------------------------------------------------------
(* The inventory page, for all products and stocks and any number of saves *)
(* and faults.                                                             *)

SaveRequests == [p : Products, n : Nat, units : Int, at : {"sent", "saved"}]
Stocks == [Products -> Int]

InventoryTypes ==
  /\ stock \in Stocks /\ stockShown \in Stocks /\ draft \in Stocks /\ unsaved \in Stocks
  /\ stockReads \subseteq Stocks
  /\ saves \subseteq SaveRequests
  /\ count \in [Products -> Nat]

\* What a save under way asks for is what the row still says, unless that was crossed.
SavesAreDrafts ==
  \A r \in saves : r.p \notin overtyped => r.units = draft[r.p]

InventoryInv == InventoryTypes /\ SavesAreDrafts /\ Stock!FailedIsKept

LEMMA InventoryInit == Stock!Init => InventoryInv
BY MCBackofficeAssumption DEF Stock!Init, InventoryInv, InventoryTypes, Stocks, SavesAreDrafts, Stock!FailedIsKept, Stock!Nothing

LEMMA Redrafts ==
  ASSUME InventoryInv, NEW ids \in SUBSET Products, Stock!Redrafted(ids), draft' \in Stocks,
         \A p \in Products \ ids : draft'[p] = draft[p],
         saves' \subseteq saves
  PROVE  SavesAreDrafts' /\ Stock!FailedIsKept' /\ unsaved' \in Stocks
BY DEF InventoryInv, InventoryTypes, SavesAreDrafts, Stock!FailedIsKept, Stock!Redrafted, Stock!UnderWay, Stock!Nothing, Stocks, SaveRequests

LEMMA RowsTyped ==
  ASSUME InventoryInv
  PROVE  /\ stock \in Stocks /\ stockShown \in Stocks /\ draft \in Stocks /\ unsaved \in Stocks
         /\ \A r \in saves : r \in SaveRequests /\ r.p \in Products /\ r.units \in Int /\ r.n \in Nat
BY DEF InventoryInv, InventoryTypes, SaveRequests

LEMMA DraftsSet ==
  ASSUME InventoryInv, NEW ids \in SUBSET Products, Stock!Redrafted(ids), draft' \in Stocks,
         \A p \in Products \ ids : draft'[p] = draft[p],
         UNCHANGED <<stock, stockReads, stockShown, saves, count, savingAll, lost>>
  PROVE  InventoryInv'
<1>1. SavesAreDrafts' /\ Stock!FailedIsKept' /\ unsaved' \in Stocks
  BY Redrafts
<1> QED
  BY <1>1 DEF InventoryInv, InventoryTypes

LEMMA PersistKeeps ==
  ASSUME InventoryInv, NEW ids \in SUBSET Products, Stock!Persist(ids)
  PROVE  InventoryInv'
<1>1. \A p \in ids : Stock!Request(p) \in SaveRequests /\ Stock!Request(p).p = p /\ Stock!Request(p).units = draft[p]
  BY DEF InventoryInv, InventoryTypes, Stocks, SaveRequests, Stock!Request
<1>2. InventoryTypes'
  BY <1>1 DEF Stock!Persist, InventoryInv, InventoryTypes
<1>3. SavesAreDrafts'
  BY <1>1 DEF Stock!Persist, InventoryInv, SavesAreDrafts
<1>4. Stock!FailedIsKept'
  BY DEF Stock!Persist, InventoryInv, Stock!FailedIsKept
<1> QED
  BY <1>2, <1>3, <1>4 DEF InventoryInv

LEMMA InventoryNext == InventoryInv /\ [Stock!Next]_(Stock!vars) => InventoryInv'
<1> SUFFICES ASSUME InventoryInv, [Stock!Next]_(Stock!vars) PROVE InventoryInv'
  OBVIOUS
<1>1. CASE UNCHANGED Stock!vars
  BY <1>1 DEF Stock!vars, Stock!historyVars, InventoryInv, InventoryTypes, SavesAreDrafts, Stock!FailedIsKept
<1>2. ASSUME NEW p \in Products, Stock!Reserve(p) \/ Stock!Release(p) PROVE InventoryInv'
  <2>1. stock' \in Stocks
    BY <1>2, RowsTyped DEF Stock!Reserve, Stock!Release, Stocks
  <2>2. UNCHANGED <<stockReads, stockShown, draft, saves, count, Stock!historyVars>>
    BY <1>2 DEF Stock!Reserve, Stock!Release
  <2> QED
    BY <2>1, <2>2 DEF Stock!historyVars, InventoryInv, InventoryTypes, SavesAreDrafts, Stock!FailedIsKept
<1>3. ASSUME NEW p \in Products, NEW u \in Stock!Units, Stock!UpdateDraft(p, u) PROVE InventoryInv'
  <2>1. /\ draft' = [q \in Products |-> IF q \in {p} THEN u ELSE draft[q]]
        /\ Stock!Redrafted({p})
        /\ UNCHANGED <<stock, stockReads, stockShown, saves, count, savingAll, lost>>
    BY <1>3 DEF Stock!UpdateDraft, Stock!SetDrafts
  <2>2. draft' \in Stocks /\ \A q \in Products \ {p} : draft'[q] = draft[q]
    BY <2>1, RowsTyped DEF Stocks, Stock!Units, InventoryInv
  <2> QED
    BY <2>1, <2>2, DraftsSet
<1>4. ASSUME NEW ids \in SUBSET Products, Stock!Discard(ids) PROVE InventoryInv'
  <2>1. /\ draft' = [q \in Products |-> IF q \in ids THEN stockShown[q] ELSE draft[q]]
        /\ Stock!Redrafted(ids)
        /\ UNCHANGED <<stock, stockReads, stockShown, saves, count, savingAll, lost>>
    BY <1>4 DEF Stock!Discard, Stock!SetDrafts
  <2>2. draft' \in Stocks /\ \A q \in Products \ ids : draft'[q] = draft[q]
    BY <2>1, RowsTyped DEF Stocks
  <2> QED
    BY <2>1, <2>2, DraftsSet
<1>5. ASSUME NEW ids \in SUBSET Products, NEW u \in {-1, 1}, Stock!StageRestock(ids, u) PROVE InventoryInv'
  <2>1. /\ draft' = [q \in Products |-> IF q \in ids THEN (IF draft[q] + u < 0 THEN 0 ELSE draft[q] + u)
                                                     ELSE draft[q]]
        /\ Stock!Redrafted(ids)
        /\ UNCHANGED <<stock, stockReads, stockShown, saves, count, savingAll, lost>>
    BY <1>5 DEF Stock!StageRestock, Stock!SetDrafts
  <2>2. draft' \in Stocks /\ \A q \in Products \ ids : draft'[q] = draft[q]
    BY <2>1, RowsTyped DEF Stocks
  <2> QED
    BY <2>1, <2>2, DraftsSet
<1>6. CASE Stock!FetchInventory \/ \E list \in stockReads : Stock!InventoryFails(list)
  <2>1. /\ stockReads' \subseteq {stock} /\ UNCHANGED <<stock, stockShown, draft, saves, count, Stock!historyVars>>
    BY <1>6 DEF Stock!FetchInventory, Stock!InventoryFails
  <2> QED
    BY <2>1 DEF Stock!historyVars, InventoryInv, InventoryTypes, SavesAreDrafts, Stock!FailedIsKept
<1>7. ASSUME NEW list \in stockReads, Stock!InventoryAnswer(list) PROVE InventoryInv'
  <2>1. /\ stockReads' = {} /\ stockShown' = list /\ draft' = list /\ Stock!Redrafted(Products)
        /\ UNCHANGED <<stock, saves, count>> /\ list \in Stocks
    BY <1>7 DEF Stock!InventoryAnswer, InventoryInv, InventoryTypes
  <2>2. SavesAreDrafts' /\ Stock!FailedIsKept' /\ unsaved' \in Stocks
    BY <2>1, Redrafts
  <2> QED
    BY <2>1, <2>2 DEF InventoryInv, InventoryTypes
<1>8. ASSUME NEW p \in Products, Stock!SaveOne(p) PROVE InventoryInv'
  BY <1>8, PersistKeeps DEF Stock!SaveOne
<1>9. CASE Stock!SaveAll
  BY <1>9, PersistKeeps DEF Stock!SaveAll, Stock!Dirty
<1>10. ASSUME NEW r \in saves, Stock!TakeSave(r) PROVE InventoryInv'
  <2>1. /\ [r EXCEPT !.at = "saved"] \in SaveRequests
        /\ [r EXCEPT !.at = "saved"].p = r.p /\ [r EXCEPT !.at = "saved"].units = r.units
        /\ r.p \in Products /\ r.units \in Int
    BY RowsTyped DEF SaveRequests
  <2>2. /\ stock' = [stock EXCEPT ![r.p] = r.units]
        /\ saves' = (saves \ {r}) \cup {[r EXCEPT !.at = "saved"]}
        /\ UNCHANGED <<stockReads, stockShown, draft, count, Stock!historyVars>>
    BY <1>10 DEF Stock!TakeSave
  <2>3. InventoryTypes'
    BY <2>1, <2>2 DEF InventoryInv, InventoryTypes, Stocks, Stock!historyVars
  <2>4. SavesAreDrafts' /\ Stock!FailedIsKept'
    BY <2>1, <2>2 DEF InventoryInv, SavesAreDrafts, Stock!FailedIsKept, Stock!historyVars
  <2> QED
    BY <2>3, <2>4 DEF InventoryInv
<1>11. ASSUME NEW r \in saves, Stock!Saved(r) \/ Stock!NotSaved(r) PROVE InventoryInv'
  <2>1. /\ saves' = saves \ {r} /\ UNCHANGED <<stock, stockReads, count, overtyped>>
        /\ stockShown' = stockShown \/ stockShown' = [stockShown EXCEPT ![r.p] = r.units]
        /\ draft' = draft \/ draft' = [draft EXCEPT ![r.p] = r.units]
        /\ unsaved' = [unsaved EXCEPT ![r.p] = Stock!Nothing]
           \/ (draft' = draft /\ unsaved' = [unsaved EXCEPT ![r.p] = r.units])
    BY <1>11 DEF Stock!Saved, Stock!NotSaved, Stock!Settles
  <2>2. r.p \in Products /\ r.units \in Int /\ r.p \notin overtyped => r.units = draft[r.p]
    BY RowsTyped DEF InventoryInv, SavesAreDrafts
  <2>3. InventoryTypes'
    BY <2>1, RowsTyped DEF InventoryInv, InventoryTypes, Stocks, Stock!Nothing
  <2>4. SavesAreDrafts'
    BY <2>1, RowsTyped DEF InventoryInv, SavesAreDrafts, Stocks
  <2>5. Stock!FailedIsKept'
    BY <2>1, RowsTyped DEF InventoryInv, SavesAreDrafts, Stock!FailedIsKept, Stocks
  <2> QED
    BY <2>3, <2>4, <2>5 DEF InventoryInv
<1> QED
  BY <1>1, <1>2, <1>3, <1>4, <1>5, <1>6, <1>7, <1>8, <1>9, <1>10, <1>11 DEF Stock!Next

-----------------------------------------------------------------------------
(* The product form, for all images, sizes and measurement templates.      *)

\* Sequences of one length with the same elements are the same.
LEMMA SameSequence ==
  ASSUME NEW p \in Seq(Int), NEW q \in Seq(Int), Len(p) = Len(q),
         \A i \in 1..Len(q) : p[i] = q[i]
  PROVE  p = q
OBVIOUS

\* What has been picked of the first n elements of s.
PickStep(f, s, X, n) == IF n = 0 THEN <<>>
                        ELSE IF s[n] \in X THEN Append(f[n - 1], s[n]) ELSE f[n - 1]
IsPick(f, s, X, N) == f = [n \in 0..N |-> PickStep(f, s, X, n)]

\* There is such a function, since each value follows from the one before.
LEMMA PickExists ==
  ASSUME NEW s, NEW X, NEW N \in Nat
  PROVE  \E f : IsPick(f, s, X, N)
<1> DEFINE G == {n \in Nat : \E f : IsPick(f, s, X, n)}
<1>1. 0 \in G
  <2>1. PICK f : f = [n \in 0..0 |-> <<>>]
    OBVIOUS
  <2>2. f = [n \in 0..0 |-> PickStep(f, s, X, n)]
    BY <2>1 DEF PickStep
  <2> QED
    BY <2>2 DEF IsPick
<1>2. ASSUME NEW n \in Nat, n \in G PROVE n + 1 \in G
  <2>1. PICK f : f = [m \in 0..n |-> PickStep(f, s, X, m)]
    BY <1>2 DEF IsPick
  <2>2. PICK g : g = [m \in 0..(n + 1) |-> PickStep(f, s, X, m)]
    OBVIOUS
  <2>3. \A m \in 0..n : g[m] = f[m]
    BY <2>1, <2>2
  <2>4. ASSUME NEW m \in 0..(n + 1) PROVE PickStep(f, s, X, m) = PickStep(g, s, X, m)
    <3>1. m # 0 => m - 1 \in 0..n
      OBVIOUS
    <3> QED
      BY <2>3, <3>1 DEF PickStep
  <2>5. IsPick(g, s, X, n + 1)
    BY <2>2, <2>4 DEF IsPick
  <2> QED
    BY <2>5
<1>3. Nat \subseteq G
  <2> HIDE DEF G
  <2> QED
    BY <1>1, <1>2, NatsFrom
<1> QED
  BY <1>3

\* Picked is its last value.
LEMMA PickedUpTo ==
  ASSUME NEW s, NEW X, Len(s) \in Nat
  PROVE  \E f : IsPick(f, s, X, Len(s)) /\ Form!Picked(s, X) = f[Len(s)]
<1> DEFINE f == CHOOSE f : IsPick(f, s, X, Len(s))
<1>1. IsPick(f, s, X, Len(s))
  BY PickExists
<1>2. Form!Picked(s, X) = f[Len(s)]
  BY DEF Form!Picked, IsPick, PickStep
<1> QED
  BY <1>1, <1>2

\* What PickStep says of the elements in turn.
LEMMA PickSteps ==
  ASSUME NEW s, NEW X, NEW N \in Nat, NEW f, IsPick(f, s, X, N)
  PROVE  /\ f[0] = <<>>
         /\ \A n \in 0..N : n < N => f[n + 1] = IF s[n + 1] \in X THEN Append(f[n], s[n + 1]) ELSE f[n]
<1>1. \A n \in 0..N : f[n] = PickStep(f, s, X, n)
  BY DEF IsPick
<1>2. f[0] = <<>>
  BY <1>1 DEF PickStep
<1>3. ASSUME NEW n \in 0..N, n < N
      PROVE  f[n + 1] = IF s[n + 1] \in X THEN Append(f[n], s[n + 1]) ELSE f[n]
  <2>1. n + 1 \in 0..N /\ n + 1 # 0 /\ (n + 1) - 1 = n
    BY <1>3
  <2> QED
    BY <1>1, <2>1 DEF PickStep
<1> QED
  BY <1>2, <1>3

\* The elements of q are those of the first n of s that are in X, and there is none twice.
Picks(q, s, X, n) ==
  /\ q \in Seq(Int) /\ Len(q) \in Nat /\ Len(q) <= n
  /\ \A i \in 1..Len(q) : \E j \in 1..n : s[j] \in X /\ q[i] = s[j]
  /\ \A j \in 1..n : s[j] \in X => \E i \in 1..Len(q) : q[i] = s[j]
NoneTwice(q) == \A i, j \in 1..Len(q) : i # j => q[i] # q[j]
ApartIn(s, X, N) == \A j, k \in 1..N : j # k /\ s[j] \in X /\ s[k] \in X => s[j] # s[k]

\* The elements picked are those of the set, none of them twice unless it is there twice.
LEMMA PickFacts ==
  ASSUME NEW s, NEW X, NEW N \in Nat, \A i \in 1..N : s[i] \in Int, NEW f, IsPick(f, s, X, N)
  PROVE  \A n \in 0..N : Picks(f[n], s, X, n) /\ (ApartIn(s, X, N) => NoneTwice(f[n]))
<1> DEFINE Apart == ApartIn(s, X, N)
           Fine(n) == Picks(f[n], s, X, n) /\ (Apart => NoneTwice(f[n]))
           G == {n \in Nat : n <= N => Fine(n)}
<1>0. /\ f[0] = <<>>
      /\ \A n \in 0..N : n < N => f[n + 1] = IF s[n + 1] \in X THEN Append(f[n], s[n + 1]) ELSE f[n]
  <2> HIDE DEF Apart, Fine, G
  <2> QED
    BY PickSteps
<1>1. 0 \in G
  <2>1. f[0] \in Seq(Int) /\ Len(f[0]) = 0
    BY <1>0
  <2>2. Fine(0)
    BY <2>1 DEF Picks, NoneTwice
  <2> HIDE DEF Fine
  <2> QED
    BY <2>2
<1>2. ASSUME NEW n \in Nat, n \in G PROVE n + 1 \in G
  <2> SUFFICES ASSUME n + 1 <= N PROVE Fine(n + 1)
    <3> HIDE DEF Fine
    <3> QED
      OBVIOUS
  <2>1. Fine(n) /\ n \in 0..N /\ n < N /\ n + 1 \in 1..N
    <3> HIDE DEF Fine
    <3> QED
      BY <1>2
  <2>2. f[n + 1] = IF s[n + 1] \in X THEN Append(f[n], s[n + 1]) ELSE f[n]
    BY <1>0, <2>1
  <2>3. CASE s[n + 1] \notin X
    <3>1. f[n + 1] = f[n]
      BY <2>2, <2>3
    <3>2. \A j \in 1..(n + 1) : s[j] \in X => j \in 1..n
      BY <2>3
    <3> QED
      BY <2>1, <3>1, <3>2 DEF Picks, NoneTwice
  <2>4. CASE s[n + 1] \in X
    <3> DEFINE p == f[n]
               q == f[n + 1]
               x == s[n + 1]
    <3>1. /\ p \in Seq(Int) /\ x \in Int /\ q = Append(p, x) /\ Len(p) \in Nat
      BY <2>1, <2>2, <2>4 DEF Picks
    <3>2. /\ q \in Seq(Int) /\ Len(q) = Len(p) + 1 /\ q[Len(q)] = x
          /\ \A i \in 1..Len(p) : q[i] = p[i]
      BY <3>1
    <3>3. \A i \in 1..Len(q) : i = Len(q) \/ i \in 1..Len(p)
      BY <3>1, <3>2
    <3>4. \A i \in 1..Len(q) : \E j \in 1..(n + 1) : s[j] \in X /\ q[i] = s[j]
      <4>1. ASSUME NEW i \in 1..Len(p) PROVE \E j \in 1..(n + 1) : s[j] \in X /\ q[i] = s[j]
        BY <2>1, <3>2 DEF Picks
      <4>2. n + 1 \in 1..(n + 1) /\ s[n + 1] \in X /\ q[Len(q)] = s[n + 1]
        BY <2>4, <3>2
      <4> QED
        BY <3>3, <4>1, <4>2
    <3>5. \A j \in 1..(n + 1) : s[j] \in X => \E i \in 1..Len(q) : q[i] = s[j]
      <4>1. ASSUME NEW j \in 1..n, s[j] \in X PROVE \E i \in 1..Len(q) : q[i] = s[j]
        <5>1. PICK i \in 1..Len(p) : p[i] = s[j]
          BY <2>1, <4>1 DEF Picks
        <5>2. i \in 1..Len(q) /\ q[i] = s[j]
          BY <3>1, <3>2, <5>1
        <5> QED
          BY <5>2
      <4>2. Len(q) \in 1..Len(q) /\ q[Len(q)] = s[n + 1]
        BY <3>1, <3>2
      <4> QED
        BY <4>1, <4>2
    <3>6. ASSUME Apart, NEW i \in 1..Len(q), NEW j \in 1..Len(q), i # j PROVE q[i] # q[j]
      <4>1. ASSUME NEW k \in 1..Len(p) PROVE q[k] # x
        <5>1. PICK m \in 1..n : s[m] \in X /\ p[k] = s[m]
          BY <2>1 DEF Picks
        <5> QED
          BY <2>1, <2>4, <3>1, <3>6, <5>1 DEF ApartIn
      <4>2. i \in 1..Len(p) /\ j \in 1..Len(p) => q[i] # q[j]
        BY <2>1, <3>2, <3>6 DEF NoneTwice
      <4> HIDE DEF p, q, x
      <4> QED
        BY <3>2, <3>3, <3>6, <4>1, <4>2
    <3>7. Len(q) <= n + 1
      BY <2>1, <3>1, <3>2 DEF Picks
    <3>8. Picks(q, s, X, n + 1)
      <4>1. Len(q) \in Nat
        BY <3>1, <3>2
      <4> HIDE DEF p, q, x
      <4> QED
        BY <3>2, <3>4, <3>5, <3>7, <4>1 DEF Picks
    <3>9. Apart => NoneTwice(q)
      <4> HIDE DEF Apart, q
      <4> QED
        BY <3>6 DEF NoneTwice
    <3> QED
      BY <3>8, <3>9
  <2> QED
    BY <2>3, <2>4
<1>3. Nat \subseteq G
  <2> HIDE DEF G
  <2> QED
    BY <1>1, <1>2, NatsFrom
<1>4. \A n \in 0..N : Fine(n)
  <2> HIDE DEF Fine
  <2> QED
    BY <1>3
<1> QED
  BY <1>4

\* Where nothing more of the set comes, everything is picked already.
LEMMA NothingLeft ==
  ASSUME NEW s, NEW X, NEW N \in Nat, NEW f, IsPick(f, s, X, N)
  PROVE  \A n \in 0..N : (\A k \in (n + 1)..N : s[k] \notin X) => f[n] = f[N]
<1> DEFINE Done(n) == (\A k \in (n + 1)..N : s[k] \notin X) => f[n] = f[N]
           G == {m \in Nat : m <= N => Done(N - m)}
<1>1. 0 \in G
  OBVIOUS
<1>2. ASSUME NEW m \in Nat, m \in G PROVE m + 1 \in G
  <2> SUFFICES ASSUME m + 1 <= N, \A k \in (N - (m + 1) + 1)..N : s[k] \notin X
               PROVE  f[N - (m + 1)] = f[N]
    OBVIOUS
  <2> DEFINE n == N - (m + 1)
  <2>1. n \in 0..N /\ n < N /\ n + 1 = N - m /\ m <= N
    OBVIOUS
  <2>2. n + 1 \in (n + 1)..N /\ (\A k \in (N - m + 1)..N : k \in (n + 1)..N)
    BY <2>1
  <2>3. s[n + 1] \notin X /\ \A k \in (N - m + 1)..N : s[k] \notin X
    BY <2>2
  <2>4. f[n + 1] = f[n]
    <3> HIDE DEF n
    <3> QED
      BY <2>1, <2>3, PickSteps
  <2>5. f[N - m] = f[N]
    BY <1>2, <2>1, <2>3
  <2> QED
    BY <2>1, <2>4, <2>5
<1>3. Nat \subseteq G
  <2> HIDE DEF G
  <2> QED
    BY <1>1, <1>2, NatsFrom
<1>4. ASSUME NEW n \in 0..N PROVE Done(n)
  <2>1. N - n \in Nat /\ N - n <= N /\ N - (N - n) = n
    OBVIOUS
  <2> QED
    BY <1>3, <2>1
<1> QED
  BY <1>4

\* A slot is empty, or has its own file, or an image no other slot has.
Slotted(s) ==
  /\ DOMAIN s = 1..Slots /\ Len(s) = Slots
  /\ \A i \in 1..Slots : s[i] \in Images \cup {0, -i}
  /\ \A i, j \in 1..Slots : i # j /\ s[i] > 0 => s[i] # s[j]
SlotsOK == Slotted(slots)

\* What is put into slot i: nothing, or its file.
LEMMA SlotSet ==
  ASSUME SlotsOK, NEW i \in 1..Slots, NEW x \in {0, -i}
  PROVE  Slotted([slots EXCEPT ![i] = x])
<1> DEFINE s == [j \in 1..Slots |-> IF j = i THEN x ELSE slots[j]]
<1>1. Slots \in Nat \ {0} /\ Images \subseteq Nat \ {0} /\ x <= 0
  BY MCBackofficeAssumption
<1>2. [slots EXCEPT ![i] = x] = s
  BY DEF SlotsOK, Slotted
<1>3. DOMAIN s = 1..Slots /\ Len(s) = Slots
  BY <1>1
<1>4. \A j \in 1..Slots : s[j] \in Images \cup {0, -j}
  BY DEF SlotsOK, Slotted
<1>5. ASSUME NEW j \in 1..Slots, NEW k \in 1..Slots, j # k, s[j] > 0 PROVE s[j] # s[k]
  <2>1. j # i /\ s[j] = slots[j] /\ (k # i => s[k] = slots[k]) /\ (k = i => s[k] = x)
    BY <1>1, <1>5
  <2> QED
    BY <1>1, <1>5, <2>1 DEF SlotsOK, Slotted
<1> HIDE DEF s
<1> QED
  BY <1>2, <1>3, <1>4, <1>5 DEF Slotted

\* What becomes of the slots has their files, and the images kept, none twice.
LEMMA ListOfSlots ==
  ASSUME SlotsOK
  PROVE  LET list == Form!ImageList
             pictured == Form!Filled(slots)
             behind == \E i, j \in 1..Slots : i < j /\ Form!IsFile(slots[i]) /\ Form!Kept(slots[j])
         IN /\ ~behind => list = pictured
            /\ \A i, j \in DOMAIN list : i # j => list[i] # list[j]
            /\ Form!ToSet(list) \subseteq Form!ToSet(pictured)
            /\ \A x \in Form!ToSet(pictured) : Form!IsFile(x) => x \in Form!ToSet(list)
<1> DEFINE N == Slots
           All == Int \ {0}
           image == [i \in 1..N |-> Form!ImageAt(i)]
<1>1. /\ N \in Nat \ {0} /\ Images \subseteq Nat \ {0}
      /\ \A i \in 1..N : /\ slots[i] \in Int
                         /\ slots[i] \in Images \/ slots[i] = 0 \/ slots[i] = -i
                         /\ Form!IsFile(slots[i]) <=> slots[i] = -i
                         /\ slots[i] \in Images <=> slots[i] > 0
  <2>1. N \in Nat \ {0} /\ Images \subseteq Nat \ {0}
    BY MCBackofficeAssumption
  <2>2. \A i \in 1..N : slots[i] \in Images \/ slots[i] = 0 \/ slots[i] = -i
    BY DEF SlotsOK, Slotted
  <2>3. ASSUME NEW i \in 1..N
        PROVE  /\ slots[i] \in Int
               /\ Form!IsFile(slots[i]) <=> slots[i] = -i
               /\ slots[i] \in Images <=> slots[i] > 0
    <3>1. i \in Nat \ {0}
      BY <2>1
    <3>2. CASE slots[i] \in Images
      <4>1. slots[i] \in Nat \ {0}
        BY <2>1, <3>2
      <4> HIDE DEF N
      <4> QED
        BY <3>1, <3>2, <4>1 DEF Form!IsFile
    <3>3. CASE slots[i] = 0 \/ slots[i] = -i
      <4>1. slots[i] \notin Images
        BY <2>1, <3>1, <3>3
      <4> HIDE DEF N
      <4> QED
        BY <3>1, <3>3, <4>1 DEF Form!IsFile
    <3> QED
      BY <2>2, <3>2, <3>3
  <2> QED
    BY <2>1, <2>2, <2>3
<1>2. Len(image) = N /\ Len(slots) = N
  BY <1>1 DEF SlotsOK, Slotted
<1>3. PICK e : IsPick(e, slots, Images, N) /\ Form!Existing = e[N]
  BY <1>1, <1>2, PickedUpTo DEF Form!Existing
<1>4. PICK f : IsPick(f, slots, All, N) /\ Form!Filled(slots) = f[N]
  BY <1>1, <1>2, PickedUpTo DEF Form!Filled, Form!Empty
<1>5. PICK g : IsPick(g, image, All, N) /\ Form!ImageList = g[N]
  <2> HIDE DEF N
  <2>1. Form!ImageList = Form!Picked(image, All)
    BY DEF Form!ImageList, Form!Filled, Form!Empty, N
  <2> HIDE DEF image, All
  <2> QED
    BY <1>1, <1>2, <2>1, PickedUpTo
<1> DEFINE E == e[N]
<1>6. /\ E \in Seq(Int) /\ Len(E) <= N /\ Len(E) \in Nat
      /\ \A i \in 1..Len(E) : \E j \in 1..N : slots[j] \in Images /\ E[i] = slots[j]
      /\ \A i, j \in 1..Len(E) : i # j => E[i] # E[j]
      /\ \A n \in 0..N : e[n] \in Seq(Int) /\ Len(e[n]) \in Nat /\ Len(e[n]) <= n
  <2>1. \A n \in 0..N : Picks(e[n], slots, Images, n) /\ (ApartIn(slots, Images, N) => NoneTwice(e[n]))
    BY <1>1, <1>3, PickFacts
  <2>2. ApartIn(slots, Images, N)
    BY <1>1 DEF SlotsOK, Slotted, ApartIn
  <2> QED
    BY <1>1, <2>1, <2>2 DEF Picks, NoneTwice
<1>7. \A i \in 1..N : image[i] = IF slots[i] = -i THEN -i ELSE IF i <= Len(E) THEN E[i] ELSE 0
  BY <1>1, <1>3 DEF Form!ImageAt, Form!Empty
<1> HIDE DEF image
<1>8. \A i \in 1..Len(E) : E[i] \in Images
  BY <1>6
<1>9. \A i \in 1..N : image[i] \in Int /\ (image[i] # 0 => image[i] = -i \/ (i <= Len(E) /\ image[i] = E[i] /\ E[i] \in Images))
  <2> SUFFICES ASSUME NEW i \in 1..N
               PROVE  /\ image[i] \in Int
                      /\ image[i] # 0 => image[i] = -i \/ (i <= Len(E) /\ image[i] = E[i] /\ E[i] \in Images)
    OBVIOUS
  <2>1. i \in 1..N /\ N \in Nat /\ Len(E) \in Nat
    BY <1>1, <1>6
  <2>4. Images \subseteq Int
    BY <1>1
  <2> HIDE DEF E, N
  <2>2. CASE i <= Len(E)
    <3>1. E[i] \in Images /\ E[i] \in Int
      <4>1. i \in 1..Len(E)
        BY <2>1, <2>2
      <4>2. E[i] \in Images
        BY <1>8, <4>1
      <4> QED
        BY <2>4, <4>2
    <3> QED
      BY <1>7, <2>1, <2>2, <3>1
  <2>3. CASE ~(i <= Len(E))
    BY <1>7, <2>1, <2>3
  <2> QED
    BY <2>2, <2>3
<1>10. \A i, j \in 1..N : i # j /\ image[i] \in All /\ image[j] \in All => image[i] # image[j]
  <2> SUFFICES ASSUME NEW i \in 1..N, NEW j \in 1..N, i # j, image[i] # 0, image[j] # 0
               PROVE  image[i] # image[j]
    OBVIOUS
  <2>1. CASE image[i] = -i \/ image[j] = -j
    BY <1>1, <1>9, <2>1
  <2>2. CASE i <= Len(E) /\ image[i] = E[i] /\ j <= Len(E) /\ image[j] = E[j]
    BY <1>6, <2>2
  <2> QED
    BY <1>9, <2>1, <2>2
<1>11. /\ g[N] \in Seq(Int) /\ f[N] \in Seq(Int)
       /\ \A i, j \in 1..Len(g[N]) : i # j => g[N][i] # g[N][j]
       /\ \A i \in 1..Len(g[N]) : \E j \in 1..N : image[j] \in All /\ g[N][i] = image[j]
       /\ \A j \in 1..N : image[j] \in All => \E i \in 1..Len(g[N]) : g[N][i] = image[j]
       /\ \A i \in 1..Len(f[N]) : \E j \in 1..N : slots[j] \in All /\ f[N][i] = slots[j]
       /\ \A j \in 1..N : slots[j] \in All => \E i \in 1..Len(f[N]) : f[N][i] = slots[j]
  <2>1. \A i \in 1..N : image[i] \in Int /\ slots[i] \in Int
    BY <1>1, <1>9
  <2>2. ApartIn(image, All, N)
    BY <1>10 DEF ApartIn
  <2>3. N \in 0..N
    BY <1>1
  <2> HIDE DEF All, N
  <2>4. Picks(g[N], image, All, N) /\ NoneTwice(g[N])
    BY <1>1, <1>5, <2>1, <2>2, <2>3, PickFacts
  <2>5. Picks(f[N], slots, All, N)
    BY <1>1, <1>4, <2>1, <2>3, PickFacts
  <2> QED
    BY <2>4, <2>5 DEF Picks, NoneTwice
<1>12. DOMAIN g[N] = 1..Len(g[N]) /\ DOMAIN f[N] = 1..Len(f[N])
  BY <1>11
<1>13. Form!ToSet(g[N]) = {image[j] : j \in {j \in 1..N : image[j] \in All}}
       /\ Form!ToSet(f[N]) = {slots[j] : j \in {j \in 1..N : slots[j] \in All}}
  <2> DEFINE p == g[N]
             q == f[N]
  <2>1. Form!ToSet(p) = {p[i] : i \in 1..Len(p)} /\ Form!ToSet(q) = {q[i] : i \in 1..Len(q)}
    BY <1>12 DEF Form!ToSet
  <2>2. {p[i] : i \in 1..Len(p)} = {image[j] : j \in {j \in 1..N : image[j] \in All}}
    <3>1. /\ \A i \in 1..Len(p) : \E j \in 1..N : image[j] \in All /\ p[i] = image[j]
          /\ \A j \in 1..N : image[j] \in All => \E i \in 1..Len(p) : p[i] = image[j]
      BY <1>11
    <3> HIDE DEF All, p, N
    <3>2. ASSUME NEW x \in {p[i] : i \in 1..Len(p)}
          PROVE  x \in {image[j] : j \in {j \in 1..N : image[j] \in All}}
      BY <3>1
    <3>3. ASSUME NEW x \in {image[j] : j \in {j \in 1..N : image[j] \in All}}
          PROVE  x \in {p[i] : i \in 1..Len(p)}
      BY <3>1
    <3> QED
      BY <3>2, <3>3
  <2>3. {q[i] : i \in 1..Len(q)} = {slots[j] : j \in {j \in 1..N : slots[j] \in All}}
    <3>1. /\ \A i \in 1..Len(q) : \E j \in 1..N : slots[j] \in All /\ q[i] = slots[j]
          /\ \A j \in 1..N : slots[j] \in All => \E i \in 1..Len(q) : q[i] = slots[j]
      BY <1>11
    <3> HIDE DEF All, q, N
    <3>2. ASSUME NEW x \in {q[i] : i \in 1..Len(q)}
          PROVE  x \in {slots[j] : j \in {j \in 1..N : slots[j] \in All}}
      BY <3>1
    <3>3. ASSUME NEW x \in {slots[j] : j \in {j \in 1..N : slots[j] \in All}}
          PROVE  x \in {q[i] : i \in 1..Len(q)}
      BY <3>1
    <3> QED
      BY <3>2, <3>3
  <2> QED
    BY <2>1, <2>2, <2>3
<1>14. \A j \in 1..N : image[j] \in All => \E k \in 1..N : slots[k] \in All /\ image[j] = slots[k]
  <2> SUFFICES ASSUME NEW j \in 1..N, image[j] # 0 PROVE \E k \in 1..N : slots[k] \in All /\ image[j] = slots[k]
    OBVIOUS
  <2>1. CASE slots[j] = -j
    BY <1>1, <1>7, <2>1
  <2>2. CASE slots[j] # -j
    BY <1>1, <1>6, <1>7, <2>2
  <2> QED
    BY <2>1, <2>2
<1>15. \A j \in 1..N : Form!IsFile(slots[j]) => image[j] = slots[j]
  BY <1>1, <1>7
<1>16. Form!ToSet(g[N]) \subseteq Form!ToSet(f[N])
  BY <1>13, <1>14
<1>17. \A x \in Form!ToSet(f[N]) : Form!IsFile(x) => x \in Form!ToSet(g[N])
  BY <1>13, <1>15
<1> DEFINE behind == \E i, j \in 1..N : i < j /\ Form!IsFile(slots[i]) /\ Form!Kept(slots[j])
<1>18. ASSUME ~behind PROVE g[N] = f[N]
  <2> DEFINE NoFile(n) == \A i \in 1..n : slots[i] # -i
             J(n) == /\ NoFile(n) => /\ f[n] = e[n]
                                     /\ Len(g[n]) = IF n <= Len(E) THEN n ELSE Len(E)
                                     /\ \A i \in 1..Len(g[n]) : g[n][i] = E[i]
                     /\ ~NoFile(n) => f[n] = g[n]
             G == {n \in Nat : n <= N => J(n)}
  <2>1. \A n \in 0..N : (\A k \in (n + 1)..N : slots[k] \notin Images) => e[n] = E /\ Len(E) <= n
    <3>1. N \in Nat /\ \A n \in 0..N : Len(e[n]) <= n
      BY <1>1, <1>6
    <3> HIDE DEF N
    <3>2. \A n \in 0..N : (\A k \in (n + 1)..N : slots[k] \notin Images) => e[n] = e[N]
      BY <1>3, <3>1, NothingLeft
    <3> QED
      BY <3>1, <3>2
  <2>2. /\ e[0] = <<>> /\ f[0] = <<>> /\ g[0] = <<>>
        /\ \A n \in 0..N : n < N =>
             /\ e[n + 1] = IF slots[n + 1] \in Images THEN Append(e[n], slots[n + 1]) ELSE e[n]
             /\ f[n + 1] = IF slots[n + 1] \in All THEN Append(f[n], slots[n + 1]) ELSE f[n]
             /\ g[n + 1] = IF image[n + 1] \in All THEN Append(g[n], image[n + 1]) ELSE g[n]
    <3>0. N \in Nat
      BY <1>1
    <3> HIDE DEF All, N
    <3>1. /\ e[0] = <<>>
          /\ \A n \in 0..N : n < N =>
               e[n + 1] = IF slots[n + 1] \in Images THEN Append(e[n], slots[n + 1]) ELSE e[n]
      BY <1>3, <3>0, PickSteps
    <3>2. /\ f[0] = <<>>
          /\ \A n \in 0..N : n < N =>
               f[n + 1] = IF slots[n + 1] \in All THEN Append(f[n], slots[n + 1]) ELSE f[n]
      BY <1>4, <3>0, PickSteps
    <3>3. /\ g[0] = <<>>
          /\ \A n \in 0..N : n < N =>
               g[n + 1] = IF image[n + 1] \in All THEN Append(g[n], image[n + 1]) ELSE g[n]
      BY <1>5, <3>0, PickSteps
    <3> QED
      BY <3>1, <3>2, <3>3
  <2>3. \A n \in 0..N : g[n] \in Seq(Int)
    <3>1. N \in Nat /\ \A i \in 1..N : image[i] \in Int
      BY <1>1, <1>9
    <3> HIDE DEF All, N
    <3> QED
      BY <1>5, <3>1, PickFacts DEF Picks
  <2>4. ASSUME NEW n \in 0..N, n < N, ~NoFile(n) PROVE \A k \in (n + 1)..N : slots[k] \notin Images
    <3>1. PICK i \in 1..n : slots[i] = -i
      BY <2>4
    <3>2. \A k \in (n + 1)..N : i < k /\ k \in 1..N /\ i \in 1..N
      BY <1>1, <3>1
    <3> QED
      BY <1>1, <1>18, <3>1, <3>2 DEF Form!Kept
  <2>5. 0 \in G
    BY <1>6, <2>2
  <2>6. ASSUME NEW n \in Nat, n \in G PROVE n + 1 \in G
    <3> SUFFICES ASSUME n + 1 <= N PROVE J(n + 1)
      <4> HIDE DEF J
      <4> QED
        OBVIOUS
    <3>1. J(n) /\ n \in 0..N /\ n < N /\ n + 1 \in 1..N
      <4> HIDE DEF J
      <4> QED
        BY <1>1, <2>6
    <3>2. NoFile(n + 1) <=> NoFile(n) /\ slots[n + 1] # -(n + 1)
      <4>1. \A i \in 1..(n + 1) : i \in 1..n \/ i = n + 1
        BY <3>1
      <4>2. n + 1 \in 1..(n + 1) /\ \A i \in 1..n : i \in 1..(n + 1)
        BY <3>1
      <4> QED
        BY <4>1, <4>2
    <3>3. CASE NoFile(n + 1)
      <4>1. f[n + 1] = e[n + 1]
        <5>1. slots[n + 1] \in All <=> slots[n + 1] \in Images
          BY <1>1, <3>1, <3>2, <3>3
        <5>2. f[n] = e[n]
          BY <3>1, <3>2, <3>3
        <5> QED
          BY <2>2, <3>1, <5>1, <5>2
      <4>2. CASE n + 1 <= Len(E)
        <5>1. image[n + 1] = E[n + 1] /\ E[n + 1] \in All
          <6>1. image[n + 1] = E[n + 1]
            BY <1>7, <3>1, <3>2, <3>3, <4>2
          <6>2. n + 1 \in 1..Len(E)
            BY <1>6, <3>1, <4>2
          <6>3. E[n + 1] \in Images
            BY <1>8, <6>2
          <6>4. E[n + 1] \in Nat \ {0}
            <7> HIDE DEF E
            <7> QED
              BY <1>1, <6>3
          <6> QED
            BY <6>1, <6>4
        <5>2. /\ g[n + 1] = Append(g[n], E[n + 1]) /\ Len(g[n]) = n /\ g[n] \in Seq(Int)
              /\ \A i \in 1..n : g[n][i] = E[i]
          <6>1. image[n + 1] \in All
            BY <5>1
          <6>2. g[n + 1] = Append(g[n], E[n + 1])
            <7> HIDE DEF All, J, NoFile, E
            <7> QED
              BY <2>2, <3>1, <5>1, <6>1
          <6>3. n <= Len(E) /\ Len(E) \in Nat
            BY <1>6, <3>1, <4>2
          <6>4. Len(g[n]) = n /\ \A i \in 1..Len(g[n]) : g[n][i] = E[i]
            BY <3>1, <3>2, <3>3, <6>3
          <6> QED
            BY <2>3, <3>1, <6>2, <6>4
        <5>3. Len(g[n + 1]) = n + 1 /\ \A i \in 1..(n + 1) : g[n + 1][i] = E[i]
          BY <5>2
        <5> QED
          BY <3>3, <4>1, <4>2, <5>3
      <4>3. CASE ~(n + 1 <= Len(E))
        <5>1. image[n + 1] = 0
          BY <1>1, <1>7, <3>1, <3>2, <3>3, <4>3
        <5>2. g[n + 1] = g[n]
          BY <2>2, <3>1, <5>1
        <5>3. Len(g[n]) = Len(E) /\ \A i \in 1..Len(g[n]) : g[n][i] = E[i]
          BY <1>6, <3>1, <3>2, <3>3, <4>3
        <5> QED
          BY <3>3, <4>1, <4>3, <5>2, <5>3
      <4> QED
        BY <4>2, <4>3
    <3>4. CASE ~NoFile(n + 1)
      <4>1. f[n] = g[n] /\ (NoFile(n) => slots[n + 1] = -(n + 1))
        <5>1. CASE ~NoFile(n)
          BY <3>1, <5>1
        <5>2. CASE NoFile(n)
          <6>1. slots[n + 1] = -(n + 1)
            BY <3>2, <3>4, <5>2
          <6>2. \A k \in (n + 1)..N : slots[k] \notin Images
            <7>1. \A k \in (n + 1)..N : k = n + 1 \/ (n + 1 < k /\ k \in 1..N)
              BY <1>1, <3>1
            <7>2. slots[n + 1] \notin Images
              BY <1>1, <3>1, <6>1
            <7> QED
              BY <1>1, <1>18, <3>1, <6>1, <7>1, <7>2 DEF Form!Kept
          <6>3. e[n] = E /\ Len(E) <= n
            BY <2>1, <3>1, <6>2
          <6>4. f[n] = E /\ Len(g[n]) = Len(E) /\ \A i \in 1..Len(g[n]) : g[n][i] = E[i]
            BY <1>6, <3>1, <5>2, <6>3
          <6>5. g[n] \in Seq(Int) /\ E \in Seq(Int)
            BY <1>6, <2>3, <3>1
          <6>6. g[n] = E
            <7>1. Len(g[n]) = Len(E) /\ \A i \in 1..Len(E) : g[n][i] = E[i]
              BY <6>4
            <7> HIDE DEF E
            <7> QED
              BY <6>5, <7>1, SameSequence
          <6> QED
            BY <6>1, <6>4, <6>6
        <5> QED
          BY <5>1, <5>2
      <4>2. image[n + 1] = slots[n + 1]
        <5>1. CASE slots[n + 1] = -(n + 1)
          BY <1>7, <3>1, <5>1
        <5>2. CASE slots[n + 1] # -(n + 1)
          <6>1. \A k \in (n + 1)..N : slots[k] \notin Images
            BY <2>4, <3>1, <4>1, <5>2
          <6>2. Len(E) <= n /\ slots[n + 1] = 0
            BY <1>1, <2>1, <3>1, <5>2, <6>1
          <6> QED
            BY <1>6, <1>7, <3>1, <5>2, <6>2, SMTT(30)
        <5> QED
          BY <5>1, <5>2
      <4>3. f[n + 1] = g[n + 1]
        BY <2>2, <3>1, <4>1, <4>2
      <4> QED
        BY <3>4, <4>3
    <3> QED
      BY <3>3, <3>4
  <2>7. Nat \subseteq G
    <3> HIDE DEF G
    <3> QED
      BY <2>5, <2>6, NatsFrom
  <2>8. J(N)
    <3> HIDE DEF J
    <3> QED
      BY <1>1, <2>7
  <2>9. CASE ~NoFile(N)
    BY <2>8, <2>9
  <2>10. CASE NoFile(N)
    <3>1. f[N] = E /\ Len(g[N]) = Len(E) /\ \A i \in 1..Len(g[N]) : g[N][i] = E[i]
      BY <1>1, <1>6, <2>8, <2>10
    <3>2. g[N] \in Seq(Int) /\ E \in Seq(Int)
      BY <1>6, <1>11
    <3>3. \A i \in 1..Len(E) : g[N][i] = E[i]
      BY <3>1
    <3>4. g[N] = E
      <4> HIDE DEF E, N
      <4> QED
        BY <3>1, <3>2, <3>3, SameSequence
    <3> QED
      BY <3>1, <3>4
  <2> QED
    BY <2>9, <2>10
<1> QED
  BY <1>4, <1>5, <1>11, <1>12, <1>16, <1>17, <1>18, ZenonT(30)

\* There is a row of measurements for every size; what was sent was complete; so is a
\* product that is offered with the assistant; and it has the images of the slots.
FormInv ==
  /\ SlotsOK
  /\ DOMAIN measured = sizes
  /\ phase = "sent" /\ enabled => Form!FormReady
  /\ Form!EnabledIsReady /\ Form!ImagesAsInSlots

LEMMA FormInit == Form!Init => FormInv
<1> SUFFICES ASSUME Form!Init PROVE FormInv
  OBVIOUS
<1>1. DOMAIN measured = sizes /\ phase = "editing" /\ enabled = FALSE
  BY DEF Form!Init
<1>2. product.enabled = FALSE
  BY DEF Form!Init
<1>3. SlotsOK
  <2>1. Slots \in Nat \ {0} /\ IsFiniteSet(Images) /\ Images \subseteq Nat \ {0}
    BY MCBackofficeAssumption
  <2>2. CASE creating
    <3>1. slots = [i \in 1..Slots |-> 0]
      BY <2>2 DEF Form!Init, Form!Empty
    <3> QED
      BY <2>1, <3>1 DEF SlotsOK, Slotted
  <2>3. CASE ~creating
    <3>1. PICK s \in Form!SetToSeqs(Images) :
            slots = [i \in 1..Slots |-> IF i <= Len(s) THEN s[i] ELSE 0]
      BY <2>3 DEF Form!Init, Form!Empty
    <3>2. Cardinality(Images) \in Nat
      BY <2>1, FS_CardinalityType
    <3> DEFINE C == Form!Cardinality(Images)
    <3>3. C \in Nat
      BY <3>2 DEF Form!Cardinality, Cardinality
    <3>4. s \in [1..C -> Images] /\ \A i, j \in 1..C : i # j => s[i] # s[j]
      BY DEF Form!SetToSeqs
    <3> HIDE DEF C
    <3>5. Len(s) = C
      BY <3>3, <3>4
    <3>6. DOMAIN slots = 1..Slots /\ Len(slots) = Slots
      BY <2>1, <3>1
    <3>7. \A i \in 1..Slots : slots[i] = IF i <= C THEN s[i] ELSE 0
      BY <3>1, <3>5
    <3>8. \A i \in 1..Slots : i <= C => i \in 1..C /\ s[i] \in Images
      BY <2>1, <3>3, <3>4
    <3> QED
      BY <2>1, <3>4, <3>6, <3>7, <3>8 DEF SlotsOK, Slotted
  <2> QED
    BY <2>2, <2>3
<1> QED
  BY <1>1, <1>2, <1>3 DEF FormInv, Form!EnabledIsReady, Form!ImagesAsInSlots

LEMMA EditKeeps ==
  ASSUME FormInv, NEW newSlots, NEW newSizes, NEW newMeasured, Form!Edit(newSlots, newSizes, newMeasured),
         Slotted(newSlots), DOMAIN newMeasured = newSizes
  PROVE  FormInv'
<1>1. /\ phase' = "editing" /\ product' = product
      /\ slots' = newSlots /\ measured' = newMeasured /\ sizes' = newSizes
  BY DEF Form!Edit
<1>2. Form!ImagesAsInSlots'
  BY <1>1 DEF Form!ImagesAsInSlots
<1>3. SlotsOK'
  BY <1>1 DEF SlotsOK
<1> QED
  BY <1>1, <1>2, <1>3 DEF FormInv, Form!EnabledIsReady, Form!ServerReady

LEMMA FormNext == FormInv /\ [Form!Next]_(Form!vars) => FormInv'
<1> SUFFICES ASSUME FormInv, [Form!Next]_(Form!vars) PROVE FormInv'
  OBVIOUS
<1>0. DOMAIN measured = sizes /\ SlotsOK /\ Slotted(slots)
  BY DEF FormInv, SlotsOK
<1>1. CASE UNCHANGED Form!vars
  <2>1. /\ slots' = slots /\ phase' = phase /\ product' = product
        /\ sizes' = sizes /\ measured' = measured /\ template' = template /\ enabled' = enabled
    BY <1>1 DEF Form!vars, Form!formVars
  <2>2. SlotsOK' /\ Form!ImagesAsInSlots'
    BY <2>1 DEF FormInv, SlotsOK, Form!ImagesAsInSlots
  <2> QED
    BY <2>1, <2>2 DEF FormInv, Form!FormReady, Form!EnabledIsReady, Form!ServerReady
<1>2. ASSUME NEW i \in 1..Slots, Form!ChangeImage(i) \/ Form!ClearImage(i) PROVE FormInv'
  <2>1. Slotted([slots EXCEPT ![i] = Form!File(i)]) /\ Slotted([slots EXCEPT ![i] = Form!Empty])
    BY <1>0, SlotSet DEF Form!File, Form!Empty
  <2> QED
    BY <1>0, <1>2, <2>1, EditKeeps DEF Form!ChangeImage, Form!ClearImage
<1>3. ASSUME NEW s \in Sizes, Form!AddSize(s) \/ Form!RemoveSize(s) PROVE FormInv'
  <2>1. \A ss : DOMAIN Form!SyncRows(ss) = ss
    BY DEF Form!SyncRows
  <2> QED
    BY <1>0, <1>3, <2>1, EditKeeps DEF Form!AddSize, Form!RemoveSize
<1>4. ASSUME NEW s \in Sizes, NEW f \in Form!Fields, Form!UpdateMeasurement(s, f) PROVE FormInv'
  <2>1. DOMAIN [measured EXCEPT ![s] = IF f \in @ THEN @ \ {f} ELSE @ \cup {f}] = sizes
    BY <1>0
  <2> QED
    BY <1>0, <1>4, <2>1, EditKeeps DEF Form!UpdateMeasurement
<1>5. ASSUME NEW t, NEW e, Form!SetFit(t, e) PROVE FormInv'
  BY <1>0, <1>5, EditKeeps DEF Form!SetFit
<1>6. CASE Form!Submit
  <2>1. SlotsOK' /\ Form!ImagesAsInSlots'
    BY <1>0, <1>6 DEF Form!Submit, Form!formVars, SlotsOK, Form!ImagesAsInSlots
  <2> QED
    BY <1>6, <2>1 DEF Form!Submit, Form!Valid, Form!formVars, FormInv, Form!FormReady, Form!EnabledIsReady, Form!ServerReady
<1>7. CASE Form!Save
  <2>1. /\ product' = [images |-> Form!ImageList, sizes |-> sizes, measured |-> Form!Normalized,
                       template |-> template, enabled |-> enabled]
        /\ phase' = "saved" /\ UNCHANGED Form!formVars /\ phase = "sent"
    BY <1>7 DEF Form!Save
  <2>2. /\ product'.sizes = sizes /\ product'.enabled = enabled /\ product'.template = template
        /\ \A s \in sizes : product'.measured[s] = measured[s]
    BY <1>0, <2>1 DEF Form!Normalized
  <2>3. ASSUME enabled PROVE Form!ServerReady'
    <3> DEFINE complete == {s \in sizes : Templates[template] \subseteq measured[s]}
    <3>1. /\ Form!Cardinality(complete) >= Form!AtLeast(Form!Cardinality(sizes))
          /\ Form!Cardinality(sizes) >= Form!AtLeast(Form!Cardinality(sizes))
      BY <1>0, <2>1, <2>3 DEF FormInv, Form!FormReady
    <3>2. {s \in product'.sizes : Templates[product'.template] \subseteq product'.measured[s]} = complete
      BY <2>2
    <3> QED
      BY <2>2, <3>1, <3>2 DEF Form!ServerReady
  <2>4. slots' = slots /\ product'.images = Form!ImageList
    BY <2>1 DEF Form!formVars
  <2>5. SlotsOK'
    BY <1>0, <2>4 DEF SlotsOK
  <2>6. Form!ImagesAsInSlots'
    BY <1>0, <2>4, ListOfSlots DEF Form!ImagesAsInSlots
  <2> QED
    BY <1>0, <2>1, <2>2, <2>3, <2>5, <2>6 DEF FormInv, Form!EnabledIsReady, Form!formVars
<1>8. CASE Form!SaveFails
  <2>1. SlotsOK' /\ Form!ImagesAsInSlots'
    BY <1>0, <1>8 DEF Form!SaveFails, Form!formVars, SlotsOK, Form!ImagesAsInSlots
  <2> QED
    BY <1>8, <2>1 DEF Form!SaveFails, Form!formVars, FormInv, Form!EnabledIsReady, Form!ServerReady
<1> QED
  BY <1>1, <1>2, <1>3, <1>4, <1>5, <1>6, <1>7, <1>8 DEF Form!Next

-----------------------------------------------------------------------------
(* The inventory and the form together, as MCBackoffice has them.          *)

\* What is typed is kept or saved: what was typed into a row of the inventory whose save
\* failed is still there (persistOne, saveAll); a product has the images that were in the
\* form's slots (buildImageList), and, offered with the fit assistant, the measurements the
\* server asks for, which only the form looks at (validationIssues, fitProfileSummary).
THEOREM TypedStays == BackofficeSpec => []TypedIsKept
<1>1. BackofficeInit => InventoryInv /\ FormInv
  BY InventoryInit, FormInit DEF BackofficeInit
<1>2. InventoryInv /\ FormInv /\ [BackofficeNext]_backofficeVars => (InventoryInv /\ FormInv)'
  <2> SUFFICES ASSUME InventoryInv, FormInv, [BackofficeNext]_backofficeVars
               PROVE  InventoryInv' /\ FormInv'
    OBVIOUS
  <2>1. [Stock!Next]_(Stock!vars) /\ [Form!Next]_(Form!vars)
    BY DEF BackofficeNext, backofficeVars, stockVars, formVars, Stock!vars, Stock!historyVars, Form!vars, Form!formVars
  <2> QED
    BY <2>1, InventoryNext, FormNext
<1>3. InventoryInv /\ FormInv => TypedIsKept
  BY DEF InventoryInv, FormInv, TypedIsKept
<1> QED
  BY <1>1, <1>2, <1>3, PTL DEF BackofficeSpec

-----------------------------------------------------------------------------
(* The pricing audit (ShiprocketAudit).                                    *)

\* ShiprocketAudit sees its own copy of the library's sum.
LEMMA AuditSums ==
  ASSUME NEW f, NEW S
  PROVE  Audit!SumFunctionOnSet(f, S) = SumFunctionOnSet(f, S)
BY DEF Audit!SumFunctionOnSet, Audit!FoldFunctionOnSet, Audit!MapThenFoldSet,
       SumFunctionOnSet, FoldFunctionOnSet, MapThenFoldSet

\* What the products of an answer take off together is not less than nothing.
LEMMA DiscountsAddUp ==
  ASSUME NEW products \in Seq(Audit!Product)
  PROVE  Audit!ProductDiscount(products) \in Nat
<1> DEFINE f == [i \in DOMAIN products |-> Audit!LineDiscount(products[i])]
<1>1. \A p \in Audit!Product : Audit!LineDiscount(p) \in Nat
  <2>1. \A m, n \in Nat : m * n \in Nat
    OBVIOUS
  <2>2. \A p \in Audit!Product : /\ Audit!OrZero(p.discount) \in Nat
                                 /\ (IF p.units > 1 THEN p.units ELSE 1) \in Nat
    BY DEF Audit!Product, Audit!Amount, Audit!Null, Audit!OrZero
  <2> QED
    BY <2>1, <2>2 DEF Audit!LineDiscount
<1>2. IsFiniteSet(DOMAIN products)
  BY FS_Interval
<1>3. \A i \in DOMAIN products : f[i] \in Nat
  BY <1>1
<1>4. Audit!ProductDiscount(products) = SumFunctionOnSet(f, DOMAIN products)
  BY AuditSums DEF Audit!ProductDiscount
<1> HIDE DEF f
<1> QED
  BY <1>2, <1>3, <1>4, SumIsNat

\* A verification is clear just when the answer has the order's parts: each of the four
\* amounts is compared, and given the first three the last says that nothing was charged.
LEMMA VerdictOf ==
  ASSUME NEW o \in LocalOrders, NEW a \in Payloads, a.given, a.subTotal # Audit!Null
  PROVE  Audit!Verification(o, a).status = "clear" <=> Audit!Echoes(o, a)
<1> DEFINE e == Audit!Expected(o)
           x == Audit!Extract(a, e.totalDiscount)
           added == Audit!OrZero(a.shipping) + Audit!OrZero(a.charges)
           discount == Audit!LiveDiscount(a, o.discount)
<1>1. /\ o.discount \in Nat /\ o.fee \in Nat /\ o.amount \in Nat
      /\ o.items \in Nat /\ o.subtotal \in Nat /\ o.discount <= Audit!SubTotal(o)
  BY AuditAssumption DEF Audit!Amounts
<1>2. Audit!SubTotal(o) \in Nat
  BY <1>1 DEF Audit!SubTotal, Audit!AtLeast0
<1>3. /\ a.products \in Seq(Audit!Product) /\ a.subTotal \in Nat
      /\ a.discount \in Nat \cup {-1} /\ a.shipping \in Nat \cup {-1} /\ a.charges \in Nat \cup {-1}
  BY AuditAssumption DEF Audit!Amounts, Audit!Answers, Audit!Amount, Audit!Null
<1>4. Audit!ProductDiscount(a.products) \in Nat
  BY <1>3, DiscountsAddUp
<1>5. /\ discount \in Nat
      /\ discount = o.discount <=> \/ a.discount = o.discount
                                   \/ /\ a.discount \in {-1, 0}
                                      /\ o.discount = 0 => Audit!ProductDiscount(a.products) = 0
  BY <1>1, <1>3, <1>4 DEF Audit!LiveDiscount, Audit!Null
<1>6. e = [subTotal |-> Audit!SubTotal(o), totalDiscount |-> o.discount,
           shippingCharges |-> o.fee,
           derivedFinalAmount |-> Audit!SubTotal(o) - o.discount + o.fee]
  BY <1>1, <1>2 DEF Audit!Expected, Audit!Snapshot, Audit!Breakdown, Audit!AtLeast0
<1>7. /\ Audit!OrZero(a.shipping) \in Nat /\ Audit!OrZero(a.charges) \in Nat
  BY <1>3 DEF Audit!OrZero, Audit!Null
<1>8. Audit!LiveSubTotal(a, added) = a.subTotal
  BY DEF Audit!LiveSubTotal
<1> DEFINE final == Audit!AtLeast0(a.subTotal - discount + added)
<1>9. x = [subTotal |-> a.subTotal, totalDiscount |-> discount,
           shippingCharges |-> Audit!OrZero(a.shipping), derivedFinalAmount |-> final]
  <2>1. e.totalDiscount = o.discount
    BY <1>6
  <2> HIDE DEF e
  <2> QED
    BY <1>3, <1>5, <1>7, <1>8, <2>1 DEF Audit!Extract, Audit!Snapshot, Audit!AtLeast0
<1>10. e # Audit!NoSnapshot /\ x # Audit!NoSnapshot
  <2>1. e.subTotal # -1 /\ x.subTotal # -1
    BY <1>2, <1>3, <1>6, <1>9
  <2> HIDE DEF e, x
  <2> QED
    BY <2>1 DEF Audit!NoSnapshot, Audit!Null
<1>11. Audit!Verification(o, a).status = "clear" <=> e = x
  <2> HIDE DEF e, x
  <2>1. Audit!Verification(o, a).status = IF x = Audit!NoSnapshot THEN "warning"
                                          ELSE IF Audit!Differ(e, x) THEN "mismatch" ELSE "clear"
    BY DEF Audit!Verification, e, x
  <2> QED
    BY <1>10, <2>1 DEF Audit!Differ
<1>12. e = x <=> /\ Audit!SubTotal(o) = a.subTotal /\ o.discount = discount
                 /\ o.fee = Audit!OrZero(a.shipping)
                 /\ Audit!SubTotal(o) - o.discount + o.fee = final
  <2>1. /\ e.subTotal = Audit!SubTotal(o) /\ e.totalDiscount = o.discount
        /\ e.shippingCharges = o.fee
        /\ e.derivedFinalAmount = Audit!SubTotal(o) - o.discount + o.fee
        /\ x.subTotal = a.subTotal /\ x.totalDiscount = discount
        /\ x.shippingCharges = Audit!OrZero(a.shipping) /\ x.derivedFinalAmount = final
    BY <1>6, <1>9
  <2> HIDE DEF e, x, discount, final
  <2> QED
    BY <1>6, <1>9, <2>1
<1>13. a.subTotal = Audit!SubTotal(o) /\ o.discount = discount /\ o.fee = Audit!OrZero(a.shipping)
         => (Audit!SubTotal(o) - o.discount + o.fee = final <=> Audit!OrZero(a.charges) = 0)
  <2> HIDE DEF discount
  <2> QED
    BY <1>1, <1>2, <1>7 DEF Audit!AtLeast0
<1>14. Audit!Echoes(o, a) <=> /\ a.subTotal = Audit!SubTotal(o)
                              /\ Audit!OrZero(a.shipping) = o.fee /\ Audit!OrZero(a.charges) = 0
                              /\ \/ a.discount = o.discount
                                 \/ /\ a.discount \in {-1, 0}
                                    /\ o.discount = 0 => Audit!ProductDiscount(a.products) = 0
  BY DEF Audit!Echoes, Audit!Sent, Audit!Null
<1> HIDE DEF e, x, discount, final, added
<1> QED
  BY <1>5, <1>11, <1>12, <1>13, <1>14

\* Only three issues are mismatches; the page replaces one of them, with the server's verdict.
LEMMA PagesAgree == Audit!PageAgrees
<1> SUFFICES ASSUME NEW a \in Payloads, tracked
             PROVE  LET server == Audit!Verification(order, a)
                        issues == Audit!AuditIssues(server.live, server.status)
                    IN  /\ Audit!HasMismatch(Audit!PageIssues(a, TRUE)) <=> Audit!HasMismatch(issues)
                        /\ Audit!HasMismatch(Audit!PageIssues(a, FALSE)) => Audit!HasMismatch(issues)
                        /\ server.status = "mismatch" => Audit!HasMismatch(Audit!PageIssues(a, FALSE))
  BY DEF Audit!PageAgrees
<1> DEFINE e == Audit!Expected(order)
           x == Audit!Extract(a, e.totalDiscount)
           server == Audit!Verification(order, a)
<1>1. /\ server.live = x
      /\ server.status = "mismatch" => Audit!Differ(e, x)
  <2> HIDE DEF e, x
  <2>1. server = [live |-> x, status |-> IF x = Audit!NoSnapshot THEN "warning"
                    ELSE IF Audit!Differ(e, x) THEN "mismatch" ELSE "clear"]
    BY DEF Audit!Verification, e, x
  <2> HIDE DEF server
  <2> QED
    BY <2>1
<1>2. Audit!PageVerification(order, a) =
        Audit!IssueIf(x = Audit!NoSnapshot, "shiprocket_live_pricing_unavailable")
          \cup Audit!IssueIf(Audit!Differ(e, x), "shiprocket_live_mismatch")
  BY DEF Audit!PageVerification, Audit!PageExtract, Audit!PageExpected
<1> DEFINE here == order.amount # Audit!Breakdown(order)
           atSync == Audit!Differ(e, stored)
           wrong == Audit!Differ(e, x)
<1>3. ASSUME NEW l, NEW s
      PROVE  Audit!AuditIssues(l, s) \cap Audit!Errors =
               Audit!IssueIf(here, "local_breakdown_mismatch")
                 \cup Audit!IssueIf(atSync, "shiprocket_snapshot_mismatch")
                 \cup Audit!IssueIf(Audit!Differ(e, l), "shiprocket_live_mismatch")
  <2> HIDE DEF here, atSync
  <2>1. Audit!AuditIssues(l, s) =
          Audit!IssueIf(here, "local_breakdown_mismatch")
            \cup Audit!IssueIf(order.subtotal > 0 /\ order.items > 0 /\ order.subtotal # order.items,
                               "subtotal_item_snapshot_mismatch")
            \cup Audit!IssueIf(tracked /\ stored = Audit!NoSnapshot, "missing_shiprocket_pricing_snapshot")
            \cup Audit!IssueIf(atSync, "shiprocket_snapshot_mismatch")
            \cup Audit!IssueIf(s = "failed", "shiprocket_live_verification_failed")
            \cup Audit!IssueIf(Audit!Differ(e, l), "shiprocket_live_mismatch")
    BY DEF Audit!AuditIssues, here, atSync
  <2> HIDE DEF e
  <2> QED
    BY <2>1 DEF Audit!IssueIf, Audit!Errors
<1>4. Audit!HasMismatch(Audit!AuditIssues(server.live, server.status)) <=> here \/ atSync \/ wrong
  <2> HIDE DEF here, atSync, server, e, x
  <2> QED
    BY <1>1, <1>3 DEF Audit!HasMismatch, Audit!IssueIf
<1>5. Audit!HasMismatch(Audit!PageIssues(a, TRUE)) <=> here \/ atSync \/ wrong
  <2> HIDE DEF here, atSync, e, x
  <2>1. Audit!PageIssues(a, TRUE) = (Audit!AuditIssues(live, liveStatus) \ Audit!LiveIssues)
                                      \cup Audit!PageVerification(order, a)
    BY DEF Audit!PageIssues, Audit!Audit
  <2>2. Audit!PageIssues(a, TRUE) \cap Audit!Errors =
          Audit!IssueIf(here, "local_breakdown_mismatch")
            \cup Audit!IssueIf(atSync, "shiprocket_snapshot_mismatch")
            \cup Audit!IssueIf(Audit!Differ(e, x), "shiprocket_live_mismatch")
    <3>1. (Audit!AuditIssues(live, liveStatus) \ Audit!LiveIssues) \cap Audit!Errors =
            Audit!IssueIf(here, "local_breakdown_mismatch")
              \cup Audit!IssueIf(atSync, "shiprocket_snapshot_mismatch")
      <4> DEFINE all == Audit!AuditIssues(live, liveStatus)
      <4>1. (all \ Audit!LiveIssues) \cap Audit!Errors = (all \cap Audit!Errors) \ Audit!LiveIssues
        OBVIOUS
      <4>2. all \cap Audit!Errors =
              Audit!IssueIf(here, "local_breakdown_mismatch")
                \cup Audit!IssueIf(atSync, "shiprocket_snapshot_mismatch")
                \cup Audit!IssueIf(Audit!Differ(e, live), "shiprocket_live_mismatch")
        BY <1>3
      <4>3. /\ Audit!IssueIf(here, "local_breakdown_mismatch") \cap Audit!LiveIssues = {}
            /\ Audit!IssueIf(atSync, "shiprocket_snapshot_mismatch") \cap Audit!LiveIssues = {}
            /\ Audit!IssueIf(Audit!Differ(e, live), "shiprocket_live_mismatch") \subseteq
                 Audit!LiveIssues
        BY DEF Audit!IssueIf, Audit!LiveIssues
      <4> QED
        BY <4>1, <4>2, <4>3
    <3>2. Audit!PageVerification(order, a) \cap Audit!Errors =
            Audit!IssueIf(Audit!Differ(e, x), "shiprocket_live_mismatch")
      BY <1>2 DEF Audit!IssueIf, Audit!Errors
    <3> QED
      BY <2>1, <3>1, <3>2
  <2> QED
    BY <2>2 DEF Audit!HasMismatch, Audit!IssueIf
<1>6. Audit!HasMismatch(Audit!PageIssues(a, FALSE)) <=> wrong
  <2> HIDE DEF e, x
  <2>1. Audit!PageIssues(a, FALSE) = (Audit!FallbackIssues \ Audit!LiveIssues)
                                      \cup Audit!PageVerification(order, a)
    BY DEF Audit!PageIssues
  <2> QED
    BY <1>2, <2>1 DEF Audit!FallbackIssues, Audit!HasMismatch, Audit!IssueIf, Audit!Errors,
                      Audit!LiveIssues
<1> HIDE DEF here, atSync, wrong
<1>7. server.status = "mismatch" => wrong
  BY <1>1 DEF wrong
<1> QED
  BY <1>4, <1>5, <1>6, <1>7

\* The second query has no filter.
LEMMA AlertsSelected == Audit!AlertIsSelected
BY DEF Audit!AlertIsSelected, Audit!Selected, Audit!ShouldVerify

\* No verification changes the order.
LEMMA AuditedOrder == MCSpec => [](order \in LocalOrders)
<1>1. MCInit => order \in LocalOrders
  BY DEF MCInit, Audit!Init
<1>2. order \in LocalOrders /\ [MCNext]_mcVars => (order \in LocalOrders)'
  BY DEF MCNext, mcVars, auditVars, Audit!Next, Audit!Sync, Audit!Backfill, Audit!Verify,
         Audit!VerifyFails, Audit!BulkVerify
<1> QED
  BY <1>1, <1>2, PTL DEF MCSpec

\* Whatever orders there are and whatever the courier answers: a verification is clear just
\* when the courier has the order's amounts, the page's copy comes to the same verdict, and an
\* order with an issue is selected (shiprocketService.js, Orders.jsx).
THEOREM AuditsAreRight == MCSpec => []AuditIsRight
<1>1. order \in LocalOrders => AuditIsRight
  BY VerdictOf, PagesAgree, AlertsSelected DEF AuditIsRight, Audit!VerdictIsRight
<1> QED
  BY <1>1, AuditedOrder, PTL
=============================================================================
