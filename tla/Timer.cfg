\* A tick counter that wraps around, at a multiple of the interval 2 and not of
\* 3; the offset 2 is not below the interval 2.
CONSTANTS
    TickRange = 10
    MaxCallbacks = 2
    Intervals = {2, 3}
    Offsets = {0, 2}
    MaxUpdates = 1
SPECIFICATION Spec
INVARIANTS
    Complete
PROPERTIES
    EvenlySpaced
    CalledAgain
