\* One keyboard, one key struck.
SPECIFICATION Spec
CONSTANTS
    FirstDevices = {"keyboard"}
    SecondDevices = {"silent"}
    Slow = FALSE
    MaxStrikes = 1
INVARIANT PortsSilent
CHECK_DEADLOCK FALSE
