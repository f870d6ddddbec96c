SPECIFICATION Spec
CONSTANTS
    KillRequests <- MCKills
    Classes <- MCClasses
    PerSec <- MCPerSec
    ReservedExit = 1
    Second = 4
    TripAfter = 2
    BaseCooldown = 1
    MaxCooldown = 2
    IntMax = 3
    Calendar <- MCCalendar
    Cadence = 2
    Buffer <- MCBuffer
    PaiseMax = 100000000
    Calm <- MCCalm
    Deviations <- MCDeviations
    Scenarios <- MCScenarios
CHECK_DEADLOCK FALSE
INVARIANTS
    KillsHold
    ExitNeverStranded
    EntryIsJudged
    LimiterHolds
PROPERTIES
    ThrottleEnds
