CONSTANTS
    Keys <- MCKeys
    Names <- MCNames
    MaxText = 2
    MaxHistory = 1
    None = None
    MaxOutput = 3
    VisibleCounts <- MCVisible
    PromptKeys <- MCPromptKeys
    PromptLength = 4
    Width = 7
    BufferSize = 16
    PromptHistory = 2
    Ids = {1, 2}
    RegisterArgs <- MCRegisterArgs
    HudTexts = {"t"}
    Positions = {3}
    Scales = {0, 20}
    Colors <- MCColors
    Screen <- MCScreen
    TextWidth <- MCTextWidth
    TextHeight <- MCTextHeight
    MaxCalls = 3
    Threads = {1, 2, 3}
    MainThread = 1
    Codes <- MCCodes
    Harmless = {"so"}
    MaxTime = 1
    Spellings = {"Say", "say"}
    Lower <- MCLower
    Functions = {"f", "g"}
    CommandTexts <- MCTexts
    MaxNesting = 2
    MaxAdded = 2
    DvarSpellings = {"Name", "name", "map"}
    dvars_table <- MCTable
    NumberTypes <- MCNumberTypes
    Domains <- MCDomains
SPECIFICATION InputSpec
INVARIANTS
    DrawnAsAsked
    
    CommandsAreOwn
    VariablesAreTrue
PROPERTIES
    KeysActOnWhatIsSeen
CHECK_DEADLOCK FALSE
