\* A tick counter that wraps around within a wait.
CONSTANTS
    TickRange = 5
    ReadTimeout = 2
    WriteTimeout = 2
SPECIFICATION PortSpec
INVARIANTS
    RightDevice
PROPERTIES
    TimeoutsAreReal
    MainReturns

\* A call in a handler never ends when the controller hangs.
CHECK_DEADLOCK FALSE
