SPECIFICATION Spec
CONSTANTS
    NoneValue = "none"
    ChatNode = "chat"
    Nodes <- MCNodes
    HumanOwned <- MCHumanOwned
    Outputs <- MCOutputs
    Brief <- MCBrief
    Producer <- MCProducer
    Required <- MCRequired
    Cyclic <- MCCyclic
    Agents = {"r1"}
    AgentReviewers <- MCAgentReviewers
    HumanReviewed <- MCHumanReviewed
    MaxCycles <- MCMaxCycles
    Seedable = {"a"}
    Supervisor = sup
    Rebuilt = rebuilt
    Deaf = deaf
    NoContext = noContext
    Requests = {q1}
    Capacity = 1
    MaxSubmissions = 3
    MaxDecisions = 1
    MayFail = TRUE
    MayCrash = TRUE
INVARIANTS ApprovedIsReviewed  
PROPERTY SubmissionsHandled
CHECK_DEADLOCK FALSE
