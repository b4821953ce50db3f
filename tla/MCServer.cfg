\* Eight groups of requests that meet, each with every overlap of its steps.
SPECIFICATION Spec
CONSTANTS
    None = None
    Workload <- MCWorkload
    UserId <- MCUserId
    Users0 <- MCUsers0
    MailOn = TRUE
    MaxAttempts = 1
    N = 2
    MemoryId = {"m1"}
INVARIANTS SeatsKept NoGodsView RunningKept ReviewsKept
PROPERTIES AdminKept AccountKept AttemptsKept StartsInformed AllAnswered
CHECK_DEADLOCK FALSE
