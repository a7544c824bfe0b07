CONSTANTS
  Runs = {r1}
  Reviews = {v1}
  Tasks = {t1, t2}
  NoRun = NoRun
  MaxTurns = 1
  ExtensionRuns = {}
  SaveMayFail = TRUE
  MayCrash = TRUE
SPECIFICATION Spec
SYMMETRY Symmetry
INVARIANTS ExecutedAsApproved
PROPERTY AuthSpec
