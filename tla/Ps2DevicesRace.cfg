CONSTANTS
    Ident <- Keyboards
    Installs <- KeyboardDriver
    MaxDrivers = 256
    Interrupting = {0}
    Fallible = FALSE
SPECIFICATION Spec
INVARIANT NoWildCall
CHECK_DEADLOCK FALSE
