SPECIFICATION Spec
CONSTANTS
  p1 = p1  p2 = p2
  Ids = {1,2,3,4,5,6,7,8,9,10,11,12,13,14,15,16,17,18,19,20,21}
  Kind <- KindOf
  Versions <- VersionsOf
  FirstRows <- InitialRows
  Resources = {1, 2}
  MaxOperations = 3
  None = None
  Callers = {p1, p2}
  Intents <- IntentsOf
  FirstResources <- InitialResources
SYMMETRY Interchangeable
INVARIANT NothingDangles
PROPERTIES OneRecordPerChange NoLostUpdate AcceptedIsReadable ReactivationRestoresIdentity
CHECK_DEADLOCK FALSE
