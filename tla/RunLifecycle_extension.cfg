CONSTANTS
  Runs = {x1}
  Reviews = {v1, v2}
  Tasks = {t1, t2}
  NoRun = NoRun
  MaxTurns = 1
  ExtensionRuns = {x1}
  SaveMayFail = TRUE
  MayCrash = TRUE
SPECIFICATION Spec
SYMMETRY Symmetry
INVARIANTS ExecutedAsApproved
