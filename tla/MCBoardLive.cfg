SPECIFICATION FairSpec
CONSTANTS
    Version <- Releases
    Initial <- V042
    Crashes <- Broken043
    NoCheck <- Dead043
    Possible <- Yes
    BuyMayFail = FALSE
    StreakMax = 3
    MaxCuts = 1
PROPERTIES ReachesLastRelease
