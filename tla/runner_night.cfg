SPECIFICATION Spec
CONSTANTS
    Tasks <- TwoTasks
    FIX_ATTEMPTS = 0
    MAX_CONSEC_FAILS = 2
    MAX_COOLDOWNS = 1
    AgentChanges <- OneSound
    AgentMoves <- BackToTodo
    MaxChanges = 1
    MaxFaults = 1
PROPERTIES
    NightEnds
