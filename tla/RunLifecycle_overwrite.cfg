CONSTANTS
  Runs = {r1}
  Reviews = {v1}
  Tasks = {t1}
  NoRun = NoRun
  MaxTurns = 1
  ExtensionRuns = {}
  SaveMayFail = FALSE
  MayCrash = FALSE
SPECIFICATION Spec
SYMMETRY Symmetry
PROPERTIES TerminalNotOverwritten
