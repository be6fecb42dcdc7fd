------------------------- MODULE MCCatalogAuthority -------------------------
(***************************************************************************)
(* Instances of CatalogAuthority for TLC: one class, one active family and *)
(* one active type, and ids left for a second family and a second type.    *)
(***************************************************************************)
EXTENDS CatalogAuthority, TLC

CONSTANTS k1, f1, f2, t1, t2, A, B, c1

Active(code, parent) == [code |-> code, parent |-> parent, active |-> TRUE, revision |-> 1]
Seeded == [id \in Ids |->
  IF id = k1 THEN Active(A, None) ELSE IF id = f1 THEN Active(A, k1)
  ELSE IF id = t1 THEN Active(A, f1) ELSE None]
=============================================================================
