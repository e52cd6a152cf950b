CONSTANTS
    Ident <- Devices
    Installs <- KeyboardDriver
    MaxDrivers = 256
    Interrupting = {0}
    Fallible = TRUE
SPECIFICATION Spec
INVARIANTS
    CallsConnected
    NotFoundJustified
PROPERTIES
    WildOnlyMoved
    
    Served
    SilenceReported
CHECK_DEADLOCK FALSE
