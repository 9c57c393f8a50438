SPECIFICATION StatusSpec
CONSTANTS
    DAY = 4
    ERA = 198841
    OFFSET = 102268
    Bases <- Evenings
    Configs <- ThreeConfigs
    NTP_TIMEOUT = 1
    FETCH_TIMEOUT = 2
    NTP_RESYNC = 30
    NTP_RETRY_MIN = 3
    NTP_RETRY_MAX = 4
    WEATHER_REFRESH = 30
    WEATHER_RETRY = 12
    MESSAGE_REFRESH = 30
    MESSAGE_RETRY = 6
    LIMIT = 9
    NOW_MAX = 12
    MaxCalls = 3
    Fetches = {"NTP", "MSG"}
    SSID = 20
    STATUS_BOOT_SHOW = 2
    ALERT_SHOW = 1
    DIAG_SHOW = {2}
    NOTE_SHOW = 3
    BANNER_SHOW = 2
INVARIANTS ClockIsRight StatusIsSound
CHECK_DEADLOCK FALSE
