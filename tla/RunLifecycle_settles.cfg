CONSTANTS
  Runs = {r1}
  Reviews = {v1}
  Tasks = {t1, t2}
  NoRun = NoRun
  MaxTurns = 2
  ExtensionRuns = {}
  SaveMayFail = FALSE
  MayCrash = TRUE
SPECIFICATION FairSpec
INVARIANTS  ProjectionCurrent
PROPERTIES RunSettles
