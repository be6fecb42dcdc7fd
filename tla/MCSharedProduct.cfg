SPECIFICATION Spec
CONSTANTS
  s1 = s1  s2 = s2  p1 = p1  p2 = p2  l1 = l1  l2 = l2  v1 = v1
  Sessions = {s1, s2}
  Suppliers = {v1}
  Products = {p1, p2}
  Lines = {l1, l2}
  ProductSupplier <- SameSupplier
  LineSupplier <- LinesOfSupplier
  Resources = {1, 2}
  None = None
  Free = Free
  Offered = {"CORRECT", "RESOLVE_PURCHASE_LINE"}
  Reasons = {TRUE}
  MaxRevision = 1
SYMMETRY SessionSymmetry
VIEW WithoutReplies
INVARIANTS NoDeadlock ProductsHaveLines
