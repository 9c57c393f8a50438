SPECIFICATION FairSpec
CONSTANTS
    Kinds <- AllKinds
    UPLOAD_SIZE = 2
    FORM_MAX = 2
    HEAD_MAX = 3
    PageChunks = 2
    SOCKET_RX = 2
    Names <- TwoNames
    MAX_FILES = 1
    IO_TIMEOUT = 1
    KEEP_ALIVE_IDLE = 1
    SD_LOCK_TIMEOUT = 2
    FLUSH_TIMEOUT = 1
    UPLOAD_DEADLINE = 2
    STREAM_DEADLINE = 1
    SHOW_CODE_INTERVAL = 1
    MAX_FAILURES = 2
    LOCK_BASE = 1
    LOCK_MAX = 2
    WEB_LIMIT = 4
    LongAgo = 4
    MaxWrong = 4
    MaxWaited = 3
    MaxFaults = 2
INVARIANTS ServiceIsSound GuessesAreRationed
PROPERTY ListensAgain
