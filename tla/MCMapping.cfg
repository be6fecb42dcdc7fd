SPECIFICATION Spec
CONSTANTS
  s1 = s1  s2 = s2  p1 = p1  p2 = p2  l1 = l1  l2 = l2  v1 = v1
  Sessions = {s1, s2}
  Suppliers = {v1}
  Products = {p1}
  Lines = {l1}
  ProductSupplier <- SameSupplier
  LineSupplier <- LinesOfSupplier
  Resources = {1, 2}
  None = None
  Free = Free
  Offered = {"CONFIRM", "CORRECT", "EXCEPTIONAL_UNLINK", "REPORT_IDENTITY_CONFLICT", "RESOLVE_IDENTITY_CONFLICT"}
  Reasons = {TRUE}
  MaxRevision = 3
SYMMETRY SessionSymmetry
VIEW WithoutReplies
INVARIANTS TypeOK AuditReplaysMapping KnowledgeNamesResources SnapshotsAreCurrent
PROPERTIES TargetActiveWhenLearned ImplementsLedger
