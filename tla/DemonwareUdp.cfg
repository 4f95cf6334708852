CONSTANTS
    Threads = {th1, th2}
    Sockets = {s1, s2}
    Order <- TwoServers
    MaxPackets = 2
    None = None
    Us = Us
    Eu = Eu
SPECIFICATION FairSpec
INVARIANTS
    AnswersOnceInOrder
PROPERTIES
    EveryDiscoveryAnswered
