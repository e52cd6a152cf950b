\* A keyboard that answers only the last byte of the query; key byte 2 is also a
\* scancode set.  Three late callbacks are one more than an interval.
CONSTANTS
    KeyByte = {2}
    Prompt = FALSE
    Late = 3
    ResendBound = 2
    WireBound = 2
SPECIFICATION Spec
INVARIANTS
    QueueBounded
    NoFalseAlarm
    StopAndWait
    RepliesReachCommand
PROPERTIES
    KbdSpec
    PipeSpec
    EchoAnswered
    TypingStarts
CHECK_DEADLOCK FALSE
