\* The timer, the keyboard, a line nobody handles, and the mouse on the slave.
CONSTANTS
    Line = {0, 1, 7, 12}
    MaxDepth = 2
SPECIFICATION FairSpec
INVARIANTS
    HandlersExclude
    MasterInService
PROPERTY TickAndKeyServed
