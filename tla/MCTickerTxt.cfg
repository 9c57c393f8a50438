SPECIFICATION Spec
CONSTANTS
    Keys <- ThreeKeys
    Comment = "comment"
    PageKeys = {"images", "message"}
    Removable = {"images", "message"}
    Values = {"x", "y", "bad"}
    Notes = {"", "# why"}
    Valid <- TheirValid
    Default = "default"
    Missing = Missing
    CONFIG_MAX = 6
    Texts <- TheirTexts
    Faults = {"open", "read", "write", "bad", "cut"}
    MaxFaults = 2
INVARIANT TextsAreSafe
PROPERTY SavedIsLoaded
