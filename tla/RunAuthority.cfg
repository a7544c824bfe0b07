CONSTANTS
  Runs = {r1}
  Reviews = {v1, v2}
  NoRun = NoRun
  SaveMayFail = TRUE
SPECIFICATION AuthSpec
SYMMETRY Symmetry
INVARIANTS AuthTypeOK ReviewTrail DeliveredIsRecorded
PROPERTIES TrailAppendOnly AnnouncedIsDurable
