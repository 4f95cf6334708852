CONSTANTS
    Components = {Arxan, Splash, Scheduler, Demonware}
    Priority <- MCPriority
    ThreadAt <- MCThreadAt
    GameThreads = {Main, Other}
    Main = Main
    None = None
    Arxan = Arxan
    Splash = Splash
    Scheduler = Scheduler
    Demonware = Demonware
SPECIFICATION FairSpec
INVARIANTS
    CallsInPlace
    CleanExit
PROPERTIES
    ExitCompletes
CHECK_DEADLOCK FALSE
