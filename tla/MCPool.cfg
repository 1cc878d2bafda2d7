SPECIFICATION FairSpec
CONSTANTS
  t1 = t1  t2 = t2  a = a  b = b  None = None
  Threads = {t1, t2}
  Conns = {a, b}
  Versions = {1, 2}
  Supported = 1
  MaxChanges = 1
  MaxLosses = 1
INVARIANTS ExclusiveConnection WaitersHoldNothing WriteAdmitted NeverWritesWhatItRefused InitializedWhole InitializersAgree
PROPERTIES EveryOperationEnds
