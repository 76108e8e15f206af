----------------------------- MODULE MCSwrRetry -----------------------------
(***************************************************************************)
(* The runs of SwrRetry, with the constants' values of MCSwr.               *)
(***************************************************************************)
EXTENDS SwrRetry, MCSwr

\* Stale at once, and collectable as soon as it is idle.
Fleeting == Opts(0, 0, None, TRUE, 0)
OnlyFleeting == {Fleeting}
=============================================================================
