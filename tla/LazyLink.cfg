SPECIFICATION ContentSpec
CONSTANTS
    Bad = Bad
    HashesEnabled = TRUE
    Players = {t1}
    Disks <- MCDisks
    Asked <- MCAsked
    LuaFiles = {"menu"}
    Matches <- MCMatches
    MaxLoads = 2
    Absent = Absent
    Loads <- MCLoads
    Game <- MCGame
    Groups <- MCGroups
    Unlinkable = {"m3", "lost"}
    MaxGen = 2
    GamesOwn = GamesOwn
    Undefined = Undefined
    Parts <- MCParts
    HashedTexts <- MCHashedTexts
    HashFiles <- MCHashFiles
    Defaults <- MCDefaults
    Small <- MCSmall
    MaxNamed = 3
    Reads <- MCReads
    Values <- MCValues
    UserFiles <- MCUserFiles
    MaxRuns = 2
    Broken = Broken
    NotAnObject = NotAnObject
INVARIANTS
    LazyLinkSkipsBody
CHECK_DEADLOCK FALSE
