SPECIFICATION FairSpec
CONSTANTS
    Photo <- Photos
    MAX_IMAGES = 2
    Layout <- Layouts
    FrameMs = 350
    Cards <- OneBroken
    Clocks <- AllClocks
    Settings <- AllOrNamed
    Changing = {1}
INVARIANT ShowIsSound
PROPERTIES KeepsGoing KeepsShowing
