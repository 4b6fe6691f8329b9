SPECIFICATION OperationsSpec
CONSTANTS
    Dashboards = {a1, a2}
    Plan <- MCPlan
    Output = 2
    PipeCapacity = 1
    MaxLaunches = 2
    MaxKills = 1
    Chats = {c1, c2}
    Files = {f1}
    Passages = {a, b}
    Cut = cut
    None = none
    Messages <- MCMessages
    MaxCrashes = 1
    Options <- MCOptions
    MaxOrders = 1
    MaxWindows = 2
    Target = 3
    MaxCycles = 3
    MaxOthers = 2
    Threads = {t1, t2}
    WatchOrder <- MCWatchOrder
    StopKey = "stop"
    PanicKey = "panic"
    Channels = {"webhook", "email"}
    Ready = {"webhook"}
    Loud = {"stop", "panic"}
    NotifyResolved = TRUE
    MaxChanges = 2
    MaxRequests = 1
    MaxDeaths = 1
INVARIANTS
    RunnerSound
    OperatorSound
    PilotSound
    DrillRunnerSound
    NoticesSound
PROPERTIES
    EveryTaskEnds
    AlertsSettle
CHECK_DEADLOCK FALSE
