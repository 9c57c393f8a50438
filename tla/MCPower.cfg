SPECIFICATION LcdSpec
CONSTANTS
    Values <- Readings
    ShortRanges = {2}
    LongRanges = {4}
    LONG_STEP = 2
    HISTORY_SLOTS = 3
    TREND_POINTS = 3
    STALE = 1
    READ_TIMEOUT = 2
    UNSUPPORTED_ROUNDS = 5
    LIMIT = 4
    CLOCK = 5
    NOW_MAX = 7
    Places = {5, 8, 32}
    Conditions = {1, 7}
    Degrees <- WidestDegrees
    Powers <- SomePowers
    Axis <- SomeEnds
    BAR_DIGITS = 10
INVARIANTS GraphIsTrue LcdIsSound
CHECK_DEADLOCK FALSE
