CONSTANTS
    t1 = t1
    t2 = t2
    t3 = t3
    Main = Main
    Render = Render
    Tasks <- MCTasks
    Pipe <- MCPipe
    Interval <- MCInterval
    OneShot <- MCOneShot
    GameThreads = {Main, Render}
    MainThreads = {Main}
    RenderThreads = {Main, Render}
    AsyncThread = Async
    NoThread = None
SPECIFICATION FairSpec
INVARIANTS
    NoTaskLost
    TasksInOrder
PROPERTIES
    ImplementsLifecycle
    EventuallyCalled
    ShutdownCompletes
CHECK_DEADLOCK FALSE
