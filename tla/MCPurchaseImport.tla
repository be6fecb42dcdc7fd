------------------------- MODULE MCPurchaseImport -------------------------
(***************************************************************************)
(* Instances of PurchaseImport for TLC. altered has the fiscal UUID of     *)
(* invoice with other content, other is another document of the same SKUs  *)
(* in the opposite order, broken has an amount that does not parse, and    *)
(* unstamped has no fiscal stamp.                                          *)
(***************************************************************************)
EXTENDS PurchaseImport, TLC

CONSTANTS s1, s2, s3, u1, u2, t1, a, b, v1, v2, b1,
          invoice, altered, other, broken, unstamped

UuidOf == [d \in Documents |-> IF d \in {other, broken} THEN u2 ELSE u1]
IssuerOf == [d \in Documents |-> t1]
HeaderOf == [d \in Documents |-> IF d = altered THEN 2 ELSE 1]
ConceptsOf == [d \in Documents |->
  IF d = altered THEN <<b, a>> ELSE IF d = other THEN <<b, NoSku, a>>
  ELSE IF d = broken THEN <<a>> ELSE <<a, b>>]
UsableOf == [d \in Documents |->
  IF d = broken THEN "bad amount" ELSE IF d = unstamped THEN "no stamp" ELSE "ok"]
Interchangeable == Permutations(Sessions) \cup Permutations(SupplierIds)
============================================================================
