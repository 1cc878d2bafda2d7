SPECIFICATION Spec
CONSTANTS
  i1 = i1  i2 = i2  k1 = k1  k2 = k2  x = x  c1 = c1  c2 = c2  c3 = c3
  Null = Null  Unset = Unset  None = None
  Items = {i1, i2}
  Keys = {k1}
  Clients = {c1, c2}
  Actors = {"ann", "bob"}
  Roles = {"boss"}
  Types = {"doc", "box"}
  States = {"open", "shut"}
  Moves = {"edit", "close"}
  FieldNames = {"f", "ref"}
  Values = {Null, x, i1, i2}
  Workflow <- RefVersions
  Requests <- WriteRequests
  MaxTime = 0
  MaxAttempt = 0
  MaxEvents = 4
INVARIANTS TypeOK ReplayClean HistoryLegal ReviewedContent RefsResolve
