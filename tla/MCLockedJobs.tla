---------------------------- MODULE MCLockedJobs ----------------------------
(***************************************************************************)
(* LockedJobs for TLC, and the audit of an order's amounts the bulk        *)
(* verification stores (ShiprocketAudit).  An instance looks at one of the *)
(* two: how runs take turns does not depend on what they find.             *)
(***************************************************************************)
EXTENDS LockedJobs, Integers, Sequences, TLC

CONSTANTS r1, r2, r3, LocalOrders, Payloads

VARIABLES
  part,                                      \* the part looked at
  order, tracked, stored, live, liveStatus   \* ShiprocketAudit

Audit == INSTANCE ShiprocketAudit

ASSUME AuditAssumption == Audit!Amounts

auditVars == <<order, tracked, stored, live, liveStatus>>
mcVars == <<part, vars, auditVars>>

\* What is not looked at starts in one of its states, and stays there.
MCInit ==
  /\ part \in {"jobs", "audit"}
  /\ Init /\ Audit!Init
  /\ part = "jobs" => order = (CHOOSE o \in LocalOrders : TRUE) /\ ~tracked
  /\ part = "audit" => kind = (CHOOSE k \in Kinds : TRUE)

MCNext ==
  \/ part = "jobs" /\ Next /\ UNCHANGED <<part, auditVars>>
  \/ part = "audit" /\ Audit!Next /\ UNCHANGED <<part, vars>>

MCSpec == MCInit /\ [][MCNext]_mcVars

\* A live verification is clear just when the courier has the order's amounts
\* (extractShiprocketOrderPricingSnapshot), the page's own verification finds the server's
\* mismatches (applyClientSideShiprocketLiveVerification), and the bulk verification takes
\* every order that shows an issue (selectCandidateOrdersForBulkVerify).
AuditIsRight ==
  part = "audit" => Audit!VerdictIsRight /\ Audit!PageAgrees /\ Audit!AlertIsSelected

\* Runs are interchangeable: no definition tells them apart.
RunSymmetry == Permutations(Runs)

-----------------------------------------------------------------------------
Missing == -1

\* Orders whose amounts add up and orders whose amounts do not, with and without a discount
\* and a delivery fee; one that differs from its items, and one without prices.
MCLocalOrders ==
  [items : {3}, subtotal : {3}, discount : {0, 2}, fee : {0, 1}, amount : {2, 3}]
    \cup [items : {3}, subtotal : {0}, discount : {2}, fee : {1}, amount : {2}]
    \cup [items : {3}, subtotal : {4}, discount : {1}, fee : {1}, amount : {4}]
    \cup [items : {0}, subtotal : {0}, discount : {1}, fee : {1}, amount : {3}]

MCProducts ==
  {<<>>, <<[total |-> 3, price |-> Missing, units |-> 1, discount |-> Missing]>>,
   <<[total |-> Missing, price |-> 1, units |-> 2, discount |-> 1],
     [total |-> 1, price |-> 1, units |-> 1, discount |-> 0]>>}

MCCharges == {<<Missing, Missing>>, <<1, Missing>>, <<1, 1>>}

MCTotals == {<<Missing, Missing>>, <<3, 3>>, <<Missing, 3>>, <<3, Missing>>}

MCPayloads ==
  {[given |-> FALSE, products |-> <<>>, shipping |-> Missing, charges |-> Missing,
    discount |-> Missing, subTotal |-> Missing, grandTotal |-> Missing, total |-> Missing]}
    \cup {[given |-> TRUE, products |-> p, shipping |-> c[1], charges |-> c[2], discount |-> d,
           subTotal |-> n, grandTotal |-> t[1], total |-> t[2]] :
            p \in MCProducts, c \in MCCharges,
            d \in {Missing, 0, 1}, n \in {Missing, 3}, t \in MCTotals}
=============================================================================
