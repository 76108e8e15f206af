---------------------------- MODULE MCSwrLifetime ----------------------------
(***************************************************************************)
(* The runs of SwrLifetime.                                                 *)
(***************************************************************************)
EXTENDS SwrLifetime, TLC

CONSTANTS k1, k2

\* A fetcher of k1 fetches k2.
Chain == (k1 :> k2) @@ (k2 :> None)
=============================================================================
