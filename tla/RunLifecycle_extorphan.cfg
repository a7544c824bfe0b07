CONSTANTS
  Runs = {x1}
  Reviews = {v1}
  Tasks = {t1}
  NoRun = NoRun
  MaxTurns = 1
  ExtensionRuns = {x1}
  SaveMayFail = FALSE
  MayCrash = FALSE
SPECIFICATION Spec
SYMMETRY Symmetry
INVARIANTS NoOrphanedExtensionRun
