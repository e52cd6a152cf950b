-------------------------- MODULE ScancodeParserMC --------------------------
(* Values for the run of ScancodeParser, and what it prints.               *)
EXTENDS ScancodeParser, ScancodeTables, Keystrokes

\* What the keyboard sends for a key that a table knows, and for the
\* others (external).
MakeAndBreak(c, prefix, code) ==
    {[bytes |-> prefix \o <<c>>, keys |-> <<Key(code, TRUE)>>],
     [bytes |-> prefix \o <<REL, c>>, keys |-> <<Key(code, FALSE)>>]}

PlainStrokes(codes) ==
    UNION {MakeAndBreak(c, <<>>, set2_lookup_table[c]) : c \in codes}
ExtendedStrokes(codes) ==
    UNION {MakeAndBreak(c, <<EXT>>, set2_extended_lookup_table[c]) : c \in codes}
PrintScreen ==
    {[bytes |-> kc_print_pressed_sequence,
      keys |-> <<Key("PRINT_SCREEN", TRUE)>>],
     [bytes |-> kc_print_released_sequence,
      keys |-> <<Key("PRINT_SCREEN", FALSE)>>]}

AllStrokes ==
    PlainStrokes(DOMAIN set2_lookup_table)
    \cup ExtendedStrokes(DOMAIN set2_extended_lookup_table) \cup PrintScreen

ASSUME StrokesRecognised == \A s \in Strokes : Recognised(s)

\* The Ctrl keys, which share a byte, a key that has a plain code only and
\* one that has an extended code only.
SomeStrokes == PlainStrokes({\h14, \h1C}) \cup ExtendedStrokes({\h14, \h1F})

\* Buffer overrun, which no table has, Pause's and the others' prefixes.
NoiseBytes == {\h00, \hE1, \hE0, \hF0}

Lines == [ks \in Keystroke |-> declare_keystroke(ks)]

\* Every keystroke declared, whatever the bytes were, is printed as one line,
\* which no other keystroke is printed as: the parser and the tables name no
\* key that keys.c cannot tell, and no character of a key breaks the line.
LinesTellKeys ==
    \A i \in DOMAIN out :
        LET line == Lines[out[i]]
        IN  /\ line[1] = "\n" /\ \A j \in 2..Len(line) : line[j] # "\n"
            /\ \A ks \in Keystroke : Lines[ks] = line => ks = out[i]
=============================================================================
