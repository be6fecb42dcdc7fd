SPECIFICATION FairSpec
CONSTANTS
  r1 = r1  r2 = r2  gauge = gauge  color = color
  Requests = {r1, r2}
  Characteristics = {gauge, color}
  BindingIds = {1, 2, 3}
  FirstBindings <- Two
  NewKeys <- Again
  Edited = {2, 3}
  Presented = {color}
  MaxHead = 1
  MaxChanges = 2
  None = None
CHECK_DEADLOCK FALSE
INVARIANTS TypeOK SpentRevisionsStaySpent
PROPERTIES RepliesTellTruth AcceptedOrderIsRead SurvivorsKeepTheirOrder ShutdownEnds
