\* Keyboards that answer either way round, broken and silent devices, a mouse
\* in the second port, single and dual controllers, failing tests; one key.
SPECIFICATION FairSpec
CONSTANTS
    FirstDevices = {"keyboard", "hasty", "dead", "silent"}
    SecondDevices = {"keyboard", "mouse", "broken", "silent"}
    Slow = TRUE
    MaxStrikes = 1
INVARIANTS Identified Configured TimeoutsNoted
PROPERTIES AnswersKept InitEnds
CHECK_DEADLOCK FALSE
