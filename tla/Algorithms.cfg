CONSTANTS
    None = None
    Joined = Joined
SPECIFICATION MCSpec
INVARIANTS
    BuffersReadBack
    CallersGetTheirOwn
    SavedIsRestored
CHECK_DEADLOCK FALSE
