------------------------------ MODULE SwrClaims ------------------------------
(***************************************************************************)
(* A statement that a comment of the machine makes and that its code does   *)
(* not keep, refuted by a run.  It needs to remember what an invalidation    *)
(* was promised: the ledger below only watches the steps of SwrMachine and   *)
(* never restricts them.                                                    *)
(***************************************************************************)
EXTENDS SwrMachine

VARIABLE deferred   \* keys whose invalidation a running mutation put off

claimVars == <<vars, deferred>>

ClaimInit == Init /\ deferred = {}

FetchStarts(k) == \E t \in tasks' \ tasks : t.key = k

\* An active entry whose fetcher could serve a revalidation.
Refetchable(k) == Present(k) /\ IsActive(entries[k]) /\ entries[k].fetcher

DefersInvalidation(k) ==
    /\ Refetchable(k)
    /\ Mutating(k) # {}
    /\ ~entries[k].invalidated /\ entries'[k].invalidated

Settled(k) == FetchStarts(k) \/ entries'[k] = None

ClaimNext ==
    /\ Next
    /\ deferred' = {k \in Keys : ~Settled(k) /\ (k \in deferred \/ DefersInvalidation(k))}

ClaimSpec == ClaimInit /\ [][ClaimNext]_claimVars

-----------------------------------------------------------------------------
\* machine.rs, on_invalidate: "During a mutation, only mark; the
\* mutation-closing revalidation converges later."  A local write that happens
\* meanwhile, or the mutation's own result, clears the mark.
DeferredInvalidationConverges ==
    \A k \in deferred : Refetchable(k) => Mutating(k) # {}
=============================================================================
