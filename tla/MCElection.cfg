\* From candidacy to the announcement of the dead, and the first day.
CONSTANTS
    N = 5
    Role <- Election_Role
    config <- Election_Config
    Aim <- Election_Aim
    None = None
    NotYet = NotYet
SPECIFICATION HistoryFairSpec
INVARIANTS
    NightDeathsSettled
    BallotsLegal
    HeardBeforeVote
    SeatsCanPlay
PROPERTIES
    GameImplemented
    RunoffElectorate
    GameEnds
