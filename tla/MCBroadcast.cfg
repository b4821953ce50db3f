\* A browser of every kind, an agent who is the seer, one broken connection or reloaded page.
SPECIFICATION Spec
CONSTANTS
    None = None
    Clients = {c1}
    Agents = {a1}
    Eyes <- MCEyes
    SeatOf <- MCSeatOf
    WolfSeats = {"wolf"}
    Script <- MCScript
    MaxParts = 2
    MaxTaken = 0
    MaxBreaks = 1
    FreshnessK = 3
    TopN = 2
INVARIANTS PhaseShown AudioBracketed RecallTrue
PROPERTIES FeedImplemented Told
CHECK_DEADLOCK FALSE
