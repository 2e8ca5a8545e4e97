SPECIFICATION Spec
CONSTANTS
    Tasks <- TwoTasks
    FIX_ATTEMPTS = 1
    MAX_CONSEC_FAILS = 1
    MAX_COOLDOWNS = 0
    AgentChanges <- RedOrNote
    AgentMoves <- EarlyMove
    MaxChanges = 2
    MaxFaults = 1
INVARIANTS
    FailedWorkIsRolledBack
    DoneWasGated
    BookedIsFinal
    NightIsUsed
PROPERTIES
    NoWorkIsLost
