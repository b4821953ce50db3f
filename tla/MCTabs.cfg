CONSTANTS
    Seats <- Table
    Enders <- Wolves
    MAX_REJECTIONS = 2
    MaxWindows = 3
    MaxCalls = 2
    Tabs = {"page"}
    SeatOf <- Pages
    MaxBreaks = 1
    MaxOthers = 1
SPECIFICATION TabsSpec
INVARIANT FormsTrue
CONSTRAINT ThirdWindow
CHECK_DEADLOCK FALSE
