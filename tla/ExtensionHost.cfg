SPECIFICATION Spec
CONSTANTS
    Hosts = {h1, h2, h3}
    None = None
    max_restarts = 1
    Worlds = {{}, {"session"}, {"hang"}, {"startup"}}
    MaxOps <- MCMaxOps
    MaxHosts <- MCMaxHosts
CHECK_DEADLOCK FALSE
INVARIANTS NoLeakedHost RestartBudget
PROPERTIES RequestsReturn
