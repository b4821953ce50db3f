\* The exile vote with idiot, guard, runoff and lots, and wolves who may disagree,
\* over two days.
CONSTANTS
    N = 5
    Role <- Vote_Role
    config <- Vote_Config
    Aim <- Vote_Aim
    None = None
    NotYet = NotYet
SPECIFICATION FairSpec
INVARIANTS
    SeatsCanPlay
PROPERTIES
    GameEnds
