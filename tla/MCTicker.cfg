SPECIFICATION TickerFairSpec
CONSTANTS
    Sources = {"a", "b"}
    LocalTexts = {"own"}
    Texts = {"", "short", "long", "own"}
    NoText = ""
    Served <- ServedTexts
    Length <- Chars
    Urls = {"u1", "u2"}
    TEXT_MAX = 15
    AREA = 4
    SCROLL_PX = 2
    ELAPSED_MAX = 2
    JUMP_PAD = 1
    MaxSaves = 1
INVARIANTS LineIsSound LineIsCurrent
PROPERTY LineRunsOn
