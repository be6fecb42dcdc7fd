SPECIFICATION MasterSpec
CONSTANTS
  s1 = s1  e1 = e1  e2 = e2  u1 = u1  t1 = t1  a = a  v1 = v1  v2 = v2  b1 = b1  c1 = c1
  invoice = invoice  broken = broken  unstamped = unstamped
  Sessions = {s1}
  Documents = {invoice, broken, unstamped}
  Uuid <- UuidOf
  Issuer <- IssuerOf
  Header <- HeaderOf
  Skus = {a}
  Concepts <- ConceptsOf
  Usable <- UsableOf
  SupplierIds = {v1, v2}
  Branches = {b1}
  FirstSuppliers = {v1}
  NoSku = NoSku
  None = None
  Editors = {e1, e2}
  Contacts = {c1}
  MaxEdits = 3
  DefaultLimit = 2
  Blank = Blank
SYMMETRY Interchangeable
INVARIANTS PurchasesAreWhole MasterIsConsistent PagesListEverything
PROPERTY LastWriteWins
