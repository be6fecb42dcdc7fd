------------------------- MODULE MCSupplierMaster -------------------------
(***************************************************************************)
(* An instance of SupplierMaster for TLC: one import of an invoice, of one *)
(* with an amount that does not parse or of one without a stamp, and two   *)
(* callers of Supplier Master.                                             *)
(***************************************************************************)
EXTENDS SupplierMaster

CONSTANTS s1, e1, e2, u1, t1, a, v1, v2, b1, c1, invoice, broken, unstamped

UuidOf == [d \in Documents |-> u1]
IssuerOf == [d \in Documents |-> t1]
HeaderOf == [d \in Documents |-> 1]
ConceptsOf == [d \in Documents |-> <<a>>]
UsableOf == [d \in Documents |->
  IF d = broken THEN "bad amount" ELSE IF d = unstamped THEN "no stamp" ELSE "ok"]
Interchangeable == Permutations(Editors)
============================================================================
