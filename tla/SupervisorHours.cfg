SPECIFICATION Spec
CONSTANTS
    v33 = v33
    v33_eth = v33_eth
    Rosters = {v33, v33_eth}
    Hosts <- HostChoices
    Hour = 12
    LAUNCH = 8
    WATCHDOG_GRACE = 1
    GRACE = 2
    RotateTicks = 1
    SweepTicks = 1
    Boots <- AnyTick
    MaxHour = 3
INVARIANTS
    TypeOK
    NoMissedClose
    LiveChildrenWatched
    StopBounded
PROPERTY
    OneRunPerClose
CHECK_DEADLOCK FALSE
