------------------------------- MODULE MlGateway -------------------------------
(***************************************************************************)
(* The circuit breaker in front of the Python ML service                   *)
(* (mlGatewayService.js): three failures in a row keep every request away  *)
(* from it for 30 seconds.  Its variables are those of one process; size   *)
(* recommendations and body scans share them.                              *)
(***************************************************************************)
EXTENDS Naturals

CONSTANT Threshold   \* CIRCUIT_FAILURE_THRESHOLD

ASSUME GatewayAssumption == Threshold \in Nat \ {0}

VARIABLES
  failures,  \* consecutiveFailureCount; above Threshold it makes no difference and stays there
  circuit    \* circuitOpenUntil: 0 ("closed"), to come ("open") or past ("lapsed")

gateway == <<failures, circuit>>

GatewayInit == failures = 0 /\ circuit = "closed"

\* Mutant of Available: goes by the count and never by the time.
AvailableByCount == failures < Threshold

\* ensureMlGatewayAvailable does not throw.
Available == circuit # "open"

\* openCircuitIfNeeded: a failed trial after the window opens a new one; failures that come
\* while it is open, of requests that set out before, do not lengthen it.
CallFails ==
  /\ failures' = IF failures < Threshold THEN failures + 1 ELSE failures
  /\ circuit' = IF failures' = Threshold THEN "open" ELSE circuit

\* Mutant of CallSucceeds: the window is not forgotten.
CallSucceedsKeepingWindow == failures' = 0 /\ UNCHANGED circuit

\* markMlGatewaySuccess, by whichever request, also one that set out before the failures.
CallSucceeds == failures' = 0 /\ circuit' = "closed"

WindowEnds == circuit = "open" /\ circuit' = "lapsed" /\ UNCHANGED failures
=============================================================================
