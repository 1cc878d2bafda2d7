CONSTANTS
  Absent = Absent
  None = None
  SqlFiles = {"schema.sql", "old.sql"}
  StartupFiles = {"usercustomize.py"}
  Root <- MCRoot
  Trees <- MCTrees
  Dists <- MCDists
  r1 = r1
  r2 = r2
  Runs = {r1, r2}
  Cutover = 1
  MaxCommits = 4
SPECIFICATION Spec
SYMMETRY Symmetry
CHECK_DEADLOCK FALSE
INVARIANTS Succeeds InstallsTheCommit OneLine
