---------------------------- MODULE MCSwrDelays ----------------------------
(***************************************************************************)
(* The run of SwrDelays, with the constants' values of MCSwr.               *)
(***************************************************************************)
EXTENDS SwrDelays, MCSwr
=============================================================================
