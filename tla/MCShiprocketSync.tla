--------------------------- MODULE MCShiprocketSync ---------------------------
(***************************************************************************)
(* A small instance of ShiprocketSync: two workers at one order.           *)
(***************************************************************************)
EXTENDS ShiprocketSync, TLC

CONSTANTS o1, w1, w2, MaxTrouble

\* bound: syncs are begun while the shipments and the doubts of the order are few.
Begins == \E w \in Workers : pc[w] = "idle" /\ pc'[w] = "prepare"

MCNext == Next /\ (Begins => made[o1] + doubts[o1] <= MaxTrouble)

MCSpec == Init /\ [][MCNext]_vars /\ Fairness
=============================================================================
