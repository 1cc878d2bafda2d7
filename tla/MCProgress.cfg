SPECIFICATION FairSpec
CONSTANTS
  i1 = i1  i2 = i2  k1 = k1  k2 = k2  x = x  c1 = c1  c2 = c2  c3 = c3
  Null = Null  Unset = Unset  None = None
  Items = {i1, i2}
  Keys = {k1}
  Clients = {c1, c2}
  Actors = {"ann", "bob"}
  Roles = {"boss"}
  Types = {"doc"}
  States = {"open", "shut"}
  Moves = {"edit", "close"}
  FieldNames = {"f"}
  Values = {Null, x}
  Workflow <- OneVersion
  Requests <- LockRequests
  MaxTime = 1
  MaxAttempt = 1
  MaxEvents = 2
INVARIANTS OnlySweepsDeadlock KeyUsedOnce
PROPERTIES EveryCallEnds
