\* A prompt keyboard that understands every byte.
CONSTANTS
    Device = {0}
    KeyByte = {2, 28}
    Prompt = TRUE
    Lossy = FALSE
    QueueSize = 6
    ResendBound = 0
    WireBound = 3
SPECIFICATION Spec
PROPERTIES
    PoppedWhenResolved
CHECK_DEADLOCK FALSE
