SPECIFICATION Spec
CONSTANTS
  s1 = s1  s2 = s2  s3 = s3  u1 = u1  u2 = u2  t1 = t1  a = a  b = b
  v1 = v1  v2 = v2  b1 = b1
  invoice = invoice  altered = altered  other = other
  broken = broken  unstamped = unstamped
  Sessions = {s1, s2}
  Documents = {invoice, broken}
  Uuid <- UuidOf
  Issuer <- IssuerOf
  Header <- HeaderOf
  Skus = {a, b}
  Concepts <- ConceptsOf
  Usable <- UsableOf
  SupplierIds = {v1, v2}
  Branches = {}
  FirstSuppliers = {}
  NoSku = NoSku
  None = None
PROPERTY RefusedImportPersistsNothing
