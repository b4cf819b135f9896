SPECIFICATION LogSpec
CONSTANTS
    Writers = {t1, t2}
    kMicroSecondsPerSecond = 10
    kSmallBuffer = 110
    kMaxNumericSize = 32
    Instants <- MCInstants
    Zones <- MCZones
    Items <- MCItems
    MaxItems = 1
    Levels <- MCLevels
    MaxLines = 2
    MaxSettings = 1
    Numbers <- MCNumbers
    Years <- MCYears
    Seconds <- MCSeconds
INVARIANTS
    LinesTellWhen
    ConversionsAgree
CHECK_DEADLOCK FALSE
