SPECIFICATION BootSpec
CONSTANTS
    W = 14
    Who <- MCWho
    StartsParked <- MCStartsParked
    Limit <- MCLimit
    WATCHDOG_TIMEOUT = 3
    BUY_DEADLINE = 6
    HEALTHY_CLEAR = 4
    Main = "main"
    Render = "render"
    RENDER_FRESH = 0
    BUY_SETTLE = 2
    JOIN_RETRY_MIN = 1
    JOIN_RETRY_MAX = 2
    DHCP_REJOIN_DELAY = 1
    InitTime = 1
    StreakMax = 3
    Old <- V042
    New <- V100
    Passed <- SomeStages
    Detail <- TwoDetails
    JoinsMax = 1
INVARIANTS TrialTypes StalledIsReset TrialEnds LastResetIsTrue
PROPERTIES NoFalseReset BuyIsSettled ClearedWhenProven
