----------------------------- MODULE MCSwrShell -----------------------------
(***************************************************************************)
(* The runs of SwrShell, with the values of MCSwr.                          *)
(***************************************************************************)
EXTENDS SwrShell, MCSwr

\* Stale at once, and collectable as soon as it is idle.
Fleeting == Opts(0, 0, None, TRUE, 0)

\* A mutation that asks for no revalidation.
QuietFlags == {Flags(TRUE, TRUE, FALSE)}
=============================================================================
