--------------------------- MODULE DistributedLock ---------------------------
(***************************************************************************)
(* The lock document of one key (server/services/distributedLockService.js,*)
(* server/models/distributedLockModel.js).  An owner id is drawn afresh by *)
(* every run, so a run is its owner id.  All clocks agree.                 *)
(***************************************************************************)
EXTENDS Naturals

CONSTANTS Runs,      \* runs of the job the key belongs to
          NoRun,     \* the empty owner id
          Ttl,       \* ttlMs
          MaxTime    \* bound of the clock

ASSUME RunsAssumption == NoRun \notin Runs
ASSUME TimeAssumption == Ttl \in Nat \ {0} /\ MaxTime \in Nat

VARIABLES now,   \* the clock
          lock   \* owner and expiry; a document that is missing counts as released

Free == [owner |-> NoRun, expires |-> 0]

LockInit == now = 0 /\ lock = Free

Expired == lock.expires <= now

\* Mutant of Grantable: the filter has the key only.
GrantableToAnyone(stamp) == TRUE

\* The filter of acquireDistributedLock, for a run whose clock read stamp when it called.
Grantable(stamp) == lock.expires <= stamp

Granted(r, stamp) == lock' = [owner |-> r, expires |-> stamp + Ttl]

\* The filter of refreshDistributedLock and releaseDistributedLock.
Owns(r) == lock.owner = r

\* The TTL index removes an expired document.
ExpireDocument ==
  /\ lock # Free
  /\ Expired
  /\ lock' = Free
  /\ UNCHANGED now

Tick ==
  /\ now < MaxTime
  /\ now' = now + 1
  /\ UNCHANGED lock

\* Who holds the lock: the document's owner until it expires.
Holder == IF lock.owner # NoRun /\ ~Expired THEN lock.owner ELSE NoRun
=============================================================================
