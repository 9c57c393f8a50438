SPECIFICATION Spec
CONSTANTS
    Version <- Releases
    Initial <- V042
    Crashes <- Everywhere
    NoCheck <- Nowhere
    Possible <- Either
    BuyMayFail = TRUE
    StreakMax = 3
    MaxCuts = 2
INVARIANTS TypeOK AlwaysBootable WayBack PlansAreSound
PROPERTIES TrialKeepsCounts ImplementsAbUpdate
