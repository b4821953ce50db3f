\* Hunter and witch over two nights, a runoff between them, and the statistics of a wolf.
CONSTANTS
    N = 4
    Role <- Night_Role
    config <- Night_Config
    Aim <- Night_Aim
    None = None
    NotYet = NotYet
    Watched = {0}
SPECIFICATION RecordedSpec
INVARIANTS
    OneBottleEach
    LastWordsHeard
    SeatsCanPlay
    StatisticsTrue
