----------------------------- MODULE LockedJobs -----------------------------
(***************************************************************************)
(* Jobs that run under a distributed lock and show their progress in the   *)
(* system job state:                                                       *)
(*   drain  runShiprocketWebhookDrain (shiprocketWebhookService.js)        *)
(*   bulk   the Shiprocket bulk live verification, which sends heartbeats  *)
(*          and can be cancelled (shiprocketBulkLiveVerificationService.js)*)
(*   cron   runLockedJob (jobs/_runLockedJob.js), used by the refund jobs  *)
(* One key is followed: kind says whose.  Each run is one call.            *)
(***************************************************************************)
EXTENDS DistributedLock

CONSTANTS Kinds,          \* kinds of job considered
          Orders,         \* orders a bulk run verifies
          ThrottleLimit,  \* throttleRetryLimit
          Admins,         \* cancel requests
          MaxFaults       \* bound: database errors and crashes

ASSUME KindAssumption == Kinds \subseteq {"drain", "bulk", "cron"}
ASSUME JobBounds == Orders \in Nat \ {0} /\ ThrottleLimit \in Nat /\ MaxFaults \in Nat

VARIABLES
  kind,     \* the kind of job the key belongs to
  job,      \* the system_job_state document
  pc, loc,  \* where each run is, and its local variables
  ask,      \* where each cancel request is, and what it has read
  faults    \* faults so far

lockVars == <<now, lock>>
vars == <<now, lock, kind, job, pc, loc, ask, faults>>

\* stamp: the Date.now() it computed an expiry from; until: the expiry it last wrote
\* itself; begun: a bulk run is in its loop; done: orders processed; tries: throttled
\* attempts at this order.
NoLocals == [stamp |-> 0, until |-> 0, begun |-> FALSE, done |-> 0, tries |-> 0]

\* cancel: lastRunResult holds a request to cancel.
Idle == [status |-> "idle", owner |-> NoRun, cancel |-> FALSE]
NotAsked == [at |-> "idle", live |-> FALSE, held |-> FALSE]

Init ==
  /\ LockInit
  /\ kind \in Kinds
  /\ job = Idle
  /\ pc = [r \in Runs |-> "idle"]
  /\ loc = [r \in Runs |-> NoLocals]
  /\ ask = [a \in Admins |-> NotAsked]
  /\ faults = 0

GoTo(r, label) == pc' = [pc EXCEPT ![r] = label]

\* The call returns or dies, and its variables are gone.
Ends(r) == GoTo(r, "done") /\ loc' = [loc EXCEPT ![r] = NoLocals]

-----------------------------------------------------------------------------
(* Taking and leaving the lock.                                            *)

\* acquireDistributedLock: the clock is read, then the document is updated.
Call(r) ==
  /\ pc[r] = "idle"
  /\ GoTo(r, "acquire")
  /\ loc' = [loc EXCEPT ![r].stamp = now]
  /\ UNCHANGED <<lockVars, kind, job, ask, faults>>

\* The caller of a refused acquire: a drain reports that it was skipped, a bulk run
\* answers job_already_running, and runLockedJob tests the result object, which is
\* there in any case, so it goes on.
Refused(r) ==
  /\ ~Grantable(loc[r].stamp)
  /\ \/ kind = "drain" /\ GoTo(r, "skip") /\ UNCHANGED loc
     \/ kind = "bulk" /\ Ends(r)
     \/ kind = "cron" /\ GoTo(r, "start") /\ UNCHANGED loc
  /\ UNCHANGED lock

Acquire(r) ==
  /\ pc[r] = "acquire"
  /\ \/ /\ Grantable(loc[r].stamp)
        /\ Granted(r, loc[r].stamp)
        /\ loc' = [loc EXCEPT ![r].until = loc[r].stamp + Ttl, ![r].stamp = 0]
        /\ GoTo(r, IF kind = "bulk" THEN "select" ELSE "start")
     \/ Refused(r)
  /\ UNCHANGED <<now, kind, job, ask, faults>>

\* releaseDistributedLock, in the finally block.
Release(r) ==
  /\ pc[r] = "release"
  /\ lock' = IF Owns(r) THEN Free ELSE lock
  /\ Ends(r)
  /\ UNCHANGED <<now, kind, job, ask, faults>>

-----------------------------------------------------------------------------
(* The system job state.                                                   *)

\* markSystemJobSkipped: for the lock (drain), or because nothing is to be done (bulk).
MarkSkipped(r) ==
  /\ pc[r] = "skip"
  /\ job' = [Idle EXCEPT !.status = "skipped"]
  /\ IF kind = "bulk" THEN GoTo(r, "release") /\ UNCHANGED loc ELSE Ends(r)
  /\ UNCHANGED <<lockVars, kind, ask, faults>>

\* markSystemJobStarted: lastRunResult, and with it a recorded cancellation, is cleared.
MarkStarted(r) ==
  /\ pc[r] = "start"
  /\ job' = [status |-> "running", owner |-> r, cancel |-> FALSE]
  /\ GoTo(r, IF kind = "bulk" THEN "persist" ELSE "work")
  /\ UNCHANGED <<lockVars, kind, loc, ask, faults>>

\* Mutant of MarkEnded: a cancelled run returns without telling.
MarkEndedUnlessCancelled(r) ==
  /\ pc[r] \in {"complete", "fail", "cancel"}
  /\ job' = IF pc[r] = "cancel" THEN job ELSE [Idle EXCEPT !.status = "completed"]
  /\ GoTo(r, "release")
  /\ UNCHANGED <<lockVars, kind, loc, ask, faults>>

\* markSystemJobCompleted, Failed and Cancelled.
MarkEnded(r) ==
  /\ pc[r] \in {"complete", "fail", "cancel"}
  /\ job' = [status |-> CASE pc[r] = "complete" -> "completed"
                          [] pc[r] = "fail" -> "failed"
                          [] pc[r] = "cancel" -> "cancelled",
             owner |-> NoRun, cancel |-> pc[r] = "cancel"]
  /\ GoTo(r, "release")
  /\ UNCHANGED <<lockVars, kind, loc, ask, faults>>

-----------------------------------------------------------------------------
(* The body of a drain and of a job under runLockedJob: one piece of work. *)

Work(r) ==
  /\ pc[r] = "work"
  /\ GoTo(r, "complete") \/ GoTo(r, "fail")
  /\ UNCHANGED <<lockVars, kind, job, loc, ask, faults>>

-----------------------------------------------------------------------------
(* runShiprocketBulkLiveVerificationJob                                    *)

\* selectCandidateOrdersForBulkVerify
Select(r) ==
  /\ pc[r] = "select"
  /\ GoTo(r, "start") \/ GoTo(r, "skip")
  /\ UNCHANGED <<lockVars, kind, job, loc, ask, faults>>

\* assertShiprocketBulkVerifyNotCancelled, before each order, before each attempt and
\* while waiting; a long wait ends in another heartbeat.
Poll(r) ==
  /\ pc[r] = "poll"
  /\ \/ job.cancel /\ GoTo(r, "cancel")
     \/ ~job.cancel /\ GoTo(r, "verify")
     \/ ~job.cancel /\ loc[r].begun /\ GoTo(r, "beat")
  /\ UNCHANGED <<lockVars, kind, job, loc, ask, faults>>

OrderDone(r) ==
  loc' = [loc EXCEPT ![r].begun = TRUE, ![r].done = @ + 1, ![r].tries = 0]

\* verifyOrderWithThrottleRetry: verified or failed, or throttled.
Verify(r) ==
  /\ pc[r] = "verify"
  /\ \/ OrderDone(r)
     \/ /\ loc[r].tries < ThrottleLimit
        /\ loc' = [loc EXCEPT ![r].begun = TRUE, ![r].tries = @ + 1]
  /\ GoTo(r, "beat")
  /\ UNCHANGED <<lockVars, kind, job, ask, faults>>

\* refreshActiveRunHeartbeat: the clock is read, then the lock refreshed, then the
\* progress persisted.
Beat(r) ==
  /\ pc[r] = "beat"
  /\ loc' = [loc EXCEPT ![r].stamp = now]
  /\ GoTo(r, "refresh")
  /\ UNCHANGED <<lockVars, kind, job, ask, faults>>

\* An error around an order's verification counts as that order's failure.
OrderFails(r) == OrderDone(r) /\ GoTo(r, "beat")

\* Where the error is caught: inside verifyOrderWithThrottleRetry, or around the run.
LoopError(r) ==
  \/ loc[r].tries > 0 /\ OrderFails(r)
  \/ loc[r].tries = 0 /\ GoTo(r, "fail") /\ UNCHANGED loc

Refresh(r) ==
  /\ pc[r] = "refresh"
  /\ \/ /\ Owns(r)
        /\ lock' = [lock EXCEPT !.expires = loc[r].stamp + Ttl]
        /\ loc' = [loc EXCEPT ![r].until = loc[r].stamp + Ttl, ![r].stamp = 0]
        /\ GoTo(r, "persist")
     \/ /\ ~Owns(r)
        /\ LoopError(r)
        /\ UNCHANGED lock
  /\ UNCHANGED <<now, kind, job, ask, faults>>

\* persistRunningJobProgress: lastRunResult is rebuilt. The cancellation state it merges
\* in was read by a poll that did not throw, so it never holds a request.
Persist(r) ==
  /\ pc[r] = "persist"
  /\ job' = [job EXCEPT !.status = "running", !.cancel = FALSE]
  /\ GoTo(r, IF loc[r].done = Orders THEN "complete" ELSE "poll")
  /\ UNCHANGED <<lockVars, kind, loc, ask, faults>>

-----------------------------------------------------------------------------
(* cancelShiprocketBulkLiveVerificationJob                                 *)

\* The job state and the lock are read side by side: either may be first.
CancelRead(a) ==
  /\ kind = "bulk"
  /\ \/ /\ ask[a].at \in {"idle", "lock"}
        /\ ask' = [ask EXCEPT ![a].at = IF @ = "idle" THEN "job" ELSE "write",
                              ![a].live = job.status = "running" /\ ~job.cancel]
     \/ /\ ask[a].at \in {"idle", "job"}
        /\ ask' = [ask EXCEPT ![a].at = IF @ = "idle" THEN "lock" ELSE "write",
                              ![a].held = lock.owner # NoRun]
  /\ UNCHANGED <<lockVars, kind, job, pc, loc, faults>>

\* With a lock: the request is merged into the result read before. Without: the run is
\* taken for dead and marked cancelled. Nothing is written when no job was running.
CancelWrite(a) ==
  /\ ask[a].at = "write"
  /\ job' = CASE ask[a].live /\ ask[a].held -> [job EXCEPT !.cancel = TRUE]
             [] ask[a].live /\ ~ask[a].held ->
                  [status |-> "cancelled", owner |-> NoRun, cancel |-> TRUE]
             [] ~ask[a].live -> job
  /\ ask' = [ask EXCEPT ![a] = [NotAsked EXCEPT !.at = "done"]]
  /\ UNCHANGED <<lockVars, kind, pc, loc, faults>>

-----------------------------------------------------------------------------
(* Faults                                                                  *)

\* What a failing database operation leads to: the call ends and leaves the lock to
\* expire; the finally block runs; the run goes on (runLockedJob); the run fails.
Abandons(r) ==
  \/ pc[r] \in {"acquire", "skip", "release"}
  \/ kind = "bulk" /\ pc[r] \in {"select", "start"}
  \/ kind = "bulk" /\ pc[r] = "persist" /\ ~loc[r].begun
EndsAnyway(r) ==
  \/ pc[r] \in {"fail", "cancel"}
  \/ kind = "cron" /\ pc[r] = "complete"
Fails(r) ==
  \/ kind = "drain" /\ pc[r] \in {"start", "work", "complete"}
  \/ kind = "bulk" /\ pc[r] = "complete"

DatabaseError(r) ==
  /\ faults < MaxFaults
  /\ faults' = faults + 1
  /\ \/ Abandons(r) /\ Ends(r)
     \/ EndsAnyway(r) /\ GoTo(r, "release") /\ UNCHANGED loc
     \/ kind = "cron" /\ pc[r] = "start" /\ GoTo(r, "work") /\ UNCHANGED loc
     \/ Fails(r) /\ GoTo(r, "fail") /\ UNCHANGED loc
     \/ pc[r] = "poll" /\ OrderFails(r)
     \/ pc[r] \in {"poll", "refresh"} /\ LoopError(r)
     \/ pc[r] = "persist" /\ loc[r].begun /\ LoopError(r)
  /\ UNCHANGED <<lockVars, kind, job, ask>>

\* The instance dies.
Crash(r) ==
  /\ faults < MaxFaults
  /\ faults' = faults + 1
  /\ pc[r] \notin {"idle", "done"}
  /\ Ends(r)
  /\ UNCHANGED <<lockVars, kind, job, ask>>

-----------------------------------------------------------------------------
RunStep(r) ==
  \/ Call(r) \/ Acquire(r) \/ Release(r)
  \/ MarkSkipped(r) \/ MarkStarted(r) \/ MarkEnded(r) \/ Work(r)
  \/ Select(r) \/ Poll(r) \/ Verify(r) \/ Beat(r) \/ Refresh(r) \/ Persist(r)

Clock == (Tick \/ ExpireDocument) /\ UNCHANGED <<kind, job, pc, loc, ask, faults>>

Next ==
  \/ \E r \in Runs : RunStep(r) \/ DatabaseError(r) \/ Crash(r)
  \/ \E a \in Admins : CancelRead(a) \/ CancelWrite(a)
  \/ Clock

Spec == Init /\ [][Next]_vars

-----------------------------------------------------------------------------
(* Properties                                                              *)

Labels ==
  {"idle", "acquire", "select", "skip", "start", "work", "poll", "verify", "beat",
   "refresh", "persist", "complete", "fail", "cancel", "release", "done"}
JobDoc == [status : {"idle", "running", "skipped", "completed", "failed", "cancelled"},
           owner : Runs \cup {NoRun}, cancel : BOOLEAN]

\* Every variable keeps its shape; in particular a bulk run never processes more orders
\* than it selected, whatever throttling, lost locks and errors it meets on the way.
TypeOK ==
  /\ now \in 0..MaxTime
  /\ lock \in [owner : Runs \cup {NoRun}, expires : Nat]
  /\ kind \in Kinds
  /\ job \in JobDoc
  /\ pc \in [Runs -> Labels]
  /\ loc \in [Runs -> [stamp : Nat, until : Nat, begun : BOOLEAN, done : 0..Orders,
                       tries : 0..ThrottleLimit]]
  /\ ask \in [Admins -> [at : {"idle", "job", "lock", "write", "done"},
                         live : BOOLEAN, held : BOOLEAN]]
  /\ faults \in 0..MaxFaults

\* A run that wrote the lock may count on it until the expiry it wrote: no other run
\* has a lease at the same time, although each acts on a clock it read before the
\* database did, expired locks are taken over, and owners refresh and release late.
LeasesExclude ==
  \A r, s \in Runs : now < loc[r].until /\ now < loc[s].until => r = s

\* The lock document behaves as a lease: it never passes from one holder to another
\* without ending first.
L == INSTANCE Lease WITH holder <- Holder
IsLease == L!LeaseSpec

\* When every run has ended, and none died or met an error, the job is not shown as
\* running: not even if runs overran their lock and overlapped.
EndedIsShown ==
  faults = 0 /\ (\A r \in Runs : pc[r] \in {"idle", "done"}) => job.status # "running"

=============================================================================
