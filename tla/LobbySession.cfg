SPECIFICATION Spec
CONSTANTS
    Requests <- MCRequests
    MaxSessions = 2
    MaxTasks = 2
    NoKey = NoKey
INVARIANTS
    TasksDecrypt
    FirstHandshakeOnly
    AnswersMatch
PROPERTIES
    EveryoneAnswered
CHECK_DEADLOCK FALSE
