\* One keyboard that may answer each byte of the query, or not, on a wire that may
\* lose bytes either way; scancode byte 2 is also a scancode set.  The driver does
\* stop for good after a loss, and then the queue is overrun.
CONSTANTS
    Device = {0}
    KeyByte = {2, 28}
    Prompt = TRUE
    Lossy = TRUE
    QueueSize = 5
    ResendBound = 3
    WireBound = 2
SPECIFICATION Spec
INVARIANTS
    QuietInv
    KeysReachParser
    ParsedInItsSet
PROPERTIES
    StallsForEver
CHECK_DEADLOCK FALSE
