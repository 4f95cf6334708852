CONSTANTS
    t1 = t1
    t2 = t2
    t3 = t3
    Main = Main
    Render = Render
    Tasks <- ServerTasks
    Pipe <- ServerPipe
    Interval <- ServerInterval
    OneShot <- ServerOneShot
    GameThreads = {Main, Render}
    MainThreads = {Main}
    RenderThreads = {Main, Render}
    AsyncThread = Async
    NoThread = None
SPECIFICATION FairSpec
PROPERTIES
    ServerTasksCalled
CHECK_DEADLOCK FALSE
