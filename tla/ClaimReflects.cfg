\* The agent of the seer alone.
SPECIFICATION Spec
CONSTANTS
    None = None
    Clients = {}
    Agents = {a1}
    Eyes <- MCEyes
    SeatOf <- MCSeatOf
    WolfSeats = {"wolf"}
    Script <- MCScript
    MaxParts = 2
    MaxTaken = 0
    MaxBreaks = 0
    FreshnessK = 3
    TopN = 2
INVARIANT RoundsReflected
CHECK_DEADLOCK FALSE
