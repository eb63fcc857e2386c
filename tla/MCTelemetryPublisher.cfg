CONSTANTS
    speed = speed
    rpm = rpm
    Numeric <- MCNumeric
    Gear = gear_shift
    PUBLISH_INTERVAL_S = 2
    QUEUE_TIMEOUT = 1
    TicksPerSecond = 2
    MaxReadings = 2
    MaxCopies = 2

SPECIFICATION Spec

INVARIANTS
    TypeOK
    NoReadingHeldTooLong

PROPERTIES
    Implements

\* The process ends when the thread has exited.
CHECK_DEADLOCK FALSE
