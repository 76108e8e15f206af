---------------------------- MODULE MCSwrClaims ----------------------------
(***************************************************************************)
(* The claim of SwrClaims with the constants' values of MCSwr.              *)
(***************************************************************************)
EXTENDS SwrClaims, MCSwr

\* The default, and a mutation that leaves the cache as it is.
RevalidateOrNot == {Flags(TRUE, TRUE, TRUE), Flags(TRUE, TRUE, FALSE)}
=============================================================================
