--------------------------- MODULE MCSwrWebEvents ---------------------------
(***************************************************************************)
(* The run of SwrWebEvents.                                                 *)
(***************************************************************************)
EXTENDS SwrWebEvents, TLC

ClientSymmetry == Permutations(Clients)
=============================================================================
