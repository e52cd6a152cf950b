\* Two lines of two characters; a byte holds three lines and less than four, as
\* 256 does of 80 characters.
SPECIFICATION Spec
CONSTANTS
    AddressRange = 6
    Width = 2
    Height = 2
    ByteRange = 6
    MainChars <- Chars
    IrqTexts <- Texts
    MaxText = 6
INVARIANTS ShowsText StoresBounded Recovers MemoryMoves
CHECK_DEADLOCK FALSE
