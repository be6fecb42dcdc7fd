------------------------ MODULE MCPurchaseResolution ------------------------
(* Instances of PurchaseResolution for TLC. *)
EXTENDS PurchaseResolution, TLC

CONSTANTS s1, s2, p1, p2, l1, l2, v1

SameSupplier == [p \in Products |-> v1]
LinesOfSupplier == [l \in Lines |-> v1]

\* No action reads a reply, so the search need not tell apart states that differ
\* only in the answers clients have received.
WithoutReplies == <<recursos, productVars, lineVars, lockVars, pc, cmd, seen>>

SessionSymmetry == Permutations(Sessions)
============================================================================
