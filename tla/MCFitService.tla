------------------------------ MODULE MCFitService ------------------------------
(***************************************************************************)
(* A small instance of FitService.                                         *)
(***************************************************************************)
EXTENDS FitService

CONSTANTS w1, w2, product, scan
=============================================================================
