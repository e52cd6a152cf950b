\* Every key of the tables, until a byte comes that belongs to none; then a few
\* keys, and another such byte at any time.
CONSTANTS
    Plain <- set2_lookup_table
    Extended <- set2_extended_lookup_table
    Matching <- set2_matching_list
    MaxSequence = 10
    Strokes <- AllStrokes
    Noise <- NoiseBytes
    NoiseBound = 2
    AfterNoise <- SomeStrokes
SPECIFICATION Spec
INVARIANTS
    FlagsExplained
    LinesTellKeys
PROPERTIES
    KeysAsStruck
    Resynchronises
