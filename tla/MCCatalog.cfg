SPECIFICATION Spec
CONSTANTS
  k1 = k1  f1 = f1  f2 = f2  t1 = t1  t2 = t2  A = A  B = B  c1 = c1
  Classes = {k1}
  Families = {f1, f2}
  Types = {t1, t2}
  Codes = {A, B}
  Creators = {c1}
  FirstRows <- Seeded
  MaxWrites = 3
  None = None
INVARIANTS TypeOK CommittedCatalogIsSound PublishedIsCommitted ResourcesKeepTheirEntries
PROPERTIES PublicationIsACommit RevisionsNameContent
