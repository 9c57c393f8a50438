SPECIFICATION UpdateSpec
CONSTANTS
    Pages = 2
    Sectors = 2
    Releases <- Four
    Size <- Lengths
    MaxFaults = 2
    MAX_REDIRECTS = 3
    Version <- Versions
    FirstSector <- FirstSectors
    Tables <- SomeTables
    DATA <- TheData
    Names <- SomeNames
    Cards <- FiveCards
    Provisioned <- PrivateBuild
    Fallen <- SomeVersions
    NoFile = NoFile
    NAME_MAX = 6
    XIP_BASE = 65536
    MaxBroken = 1
INVARIANT UpdateIsSafe
PROPERTIES ImplementsSlotWrite
