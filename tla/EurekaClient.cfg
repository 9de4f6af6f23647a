\* The durations of the source: interval 3, timeout 3, lease 90, 6 tries.
SPECIFICATION Spec
CONSTANTS
    HEART_BEAT_INTERVAL = 3
    SLEEP_SLACK = 1
    CURL_TIMEOUT = 3
    LEASE_DURATION = 90
    MAX_TRY = 6
    MISS_CAP = 13
    HEADER_CAP = 2
INVARIANTS
    TypeOK
    NoUseAfterDelete
    ServesUntilStopped
    StopBounded
    LeaseKept
    RegistersWhenLost
PROPERTIES
    FailuresForceRegister
    BackToHeartbeats
    LifecycleSpec
CHECK_DEADLOCK FALSE
