\* Three seats and a wolf among them; two windows, two submissions.
CONSTANTS
    Seats <- Table
    Enders <- Wolves
    MAX_REJECTIONS = 2
    MaxWindows = 2
    MaxCalls = 2
SPECIFICATION FairSpec
INVARIANTS TypeOK VerdictTrue
PROPERTIES LateNeverLands VerdictArrives GameGoesOn
CHECK_DEADLOCK FALSE
