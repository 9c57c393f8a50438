SPECIFICATION FairSpec
CONSTANTS
    Newest = 3
    BlockedUpTo = 1
    OTA_CHECK_INTERVAL = 2
    OTA_BACKOFF_MIN = 2
    OTA_BACKOFF_MAX = 4
    REJECTED_RETRY_DELAY = 4
    REBOOT_AFTER = 2
    PENDING_OTA_RETRY = 1
    RECOVERY_OTA_INTERVAL = 2
    RECOVERY_NORMAL_RETRY = 4
INVARIANTS TypeOK RebootsIntoWhole RecoveryChecksOften
PROPERTIES TrialKeepsTheSlot AfterBuyAtOnce NewReleaseTried RecoveryEnds
