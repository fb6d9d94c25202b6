-------------------------------- MODULE Lease --------------------------------
(***************************************************************************)
(* What a distributed lock promises: a lease that passes from one run to   *)
(* the next only after it ended.                                           *)
(***************************************************************************)
CONSTANTS Runs,   \* the runs that ask for the lease
          NoRun   \* no one

VARIABLE holder   \* who holds the lease

LeaseInit == holder = NoRun

Grant(r) == holder = NoRun /\ holder' = r
End == holder' = NoRun

LeaseNext == End \/ \E r \in Runs : Grant(r)

LeaseSpec == LeaseInit /\ [][LeaseNext]_holder
=============================================================================
