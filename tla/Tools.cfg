SPECIFICATION Spec
CONSTANTS
    NodeIds = {1, 2, 3}
    Adjacencies <- MCAdjacencies
    MaxSteps = 4
    MaxFan = 2
    Strings = {"", "m", "t1", "t2", "end_turn", "tool_use", "max_tokens"}
    Tokens = {"h", "x", "y", "z"}
    Answers <- MCAnswers
    Histories <- MCHistories
    Providers = {"default", "p"}
    Builders = {"b1", "b2"}
    TokenLife = 2
    Window = 1
    MaxTime = 4
    MaxRefreshers = 3
    MaxCrashes = 1
    Namespaces = {"n1", "n2"}
    Keys = {"a", "__summary__"}
    Values = {"v"}
    Flushers = {"x1", "x2"}
    MaxWrites = 2
    MaxThread = 3
    MaxRestarts = 1
    ExtIds = {"e"}
    Callers = {"c1", "c2"}
    StoreKeys = {"k", "l"}
    MaxOpens = 3
    MaxSets = 2
    Runs = {"r1", "r2"}
    Root <- MCRoot
    Denied <- MCDenied
    Writable <- MCWritable
    Rels <- MCRels
    Names = {"p", "q"}
    MaxCalls = 3
    Spaces = {"w1", "w2"}
    TermIds = {"t1"}
    Shells = {"sh1", "sh2"}
    MaxChunks = 1
    Authors = {"au1", "au2"}
    Places = {"r1", "r2", "docs"}
    Docs = "docs"
    HistoryOf <- MCHistoryOf
    MaxTexts = 3
    Capacity = 1
    MaxEvents = 3
    MaxHistory = 3
    MaxSize = 2
    MaxLines = 8
    MaxLogFails = 3
    AgentIds = {"pm", "Crony"}
    DocTypes = {"prd"}
    FlowIds = {"f"}
    Editors = {"ed1", "ed2"}
    BuiltinTypes = {"prd"}
    MaxEdits = 3
    MaxHandEdits = 1
    MaxDefCrashes = 1
INVARIANTS
    ToolsTypeOK
    GraphsAreHonoured
     TokenIsTended
     
    ResolveMeansWalk 
     RotationDropsOldest 
PROPERTIES
    RevisionsAreKept
CHECK_DEADLOCK FALSE
