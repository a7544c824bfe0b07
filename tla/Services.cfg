CONSTANTS
  e1 = e1 e2 = e2
  Exts = {e1, e2} Ids = {"x"} Reserved = {} Topics = {"t"} NoExt = NoExt
  declares <- MCDeclares subscribes <- MCSubscribes emits <- MCEmits
  MaxListeners = 2 MaxHosts = 2 UseSets <- MCUseSets
  Callers = {c1, c2} NoCaller = NoCaller Inbound = {11} MaxWire = 2
  Subs = {"s1"} EventTopics = {"t"} MaxInbox = 1 MaxControl = 3 MaxEvents = 1 DrainBatch = 2
  MaxFrames = 3 MaxHostSends = 3
  Runs = {"a", "b"} Worlds <- MCWorlds MaxTurns = 2 MaxCalls = 1 MaxRevisions = 1
  ReflectEvery = 2 ReflectFailures = 0 CompactAt = 4 RecencyTurns = 1
  FlowRuns = {"f1", "f2"} Sessions = {"s1"} MaxRuns = 2 MaxDocs = 1 MaxStarts = 1
  SpaceIds = {"w1"} ChatIds = {"s1"} RecordRuns = {"r1"} TaskIds = {"t1"} MaxInputs = 2 MaxFails = 1 MaxReboots = 2
SPECIFICATION Spec
INVARIANTS ServicesTypeOK NoStrandedRun ListenersAreGuarded SlotsMatchCalls StreamsAreGapless  RecordsHangTogether
PROPERTIES RegistrationsAreKept KeepsMail CompactionKeepsResults
CHECK_DEADLOCK FALSE
