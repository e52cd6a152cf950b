--------------------------- MODULE ScancodeParser ---------------------------
(***************************************************************************)
(* ps2k_parse_byte: the bytes of scancode set 2, one interrupt each, are   *)
(* gathered into scancodes and declared as keystrokes.  (A keyboard of     *)
(* another set has all its bytes dropped, ps2k.c:248.)                     *)
(*                                                                         *)
(* The keyboard at the other end sends strokes, whole scancodes with the   *)
(* keystrokes they stand for, and sometimes bytes that stand for none:     *)
(* keys without an entry in the tables, or its error codes.                *)
(***************************************************************************)
EXTENDS Integers, Sequences, SequencesExt

CONSTANTS
    Plain, Extended, \* the lookup tables: functions from bytes to keycodes
    Matching,        \* the matching list: a sequence of entries
    MaxSequence,     \* PS2K_SCANCODE_SEQUENCE_MAX_LENGTH
    Strokes,         \* what the keyboard sends: [bytes, keys]
    Noise,           \* bytes that belong to no stroke
    NoiseBound,      \* bound: how many of these may come
    AfterNoise       \* bound: the strokes that may come after them

EXT == 224   \* 0xe0
REL == 240   \* 0xf0
Byte == 0..255

ASSUME ParserAssumption ==
    /\ DOMAIN Plain \subseteq Byte /\ DOMAIN Extended \subseteq Byte
    /\ MaxSequence \in Nat \ {0}
    /\ \A s \in Strokes : s.bytes \in Seq(Byte)
    /\ Noise \subseteq Byte /\ NoiseBound \in Nat
    /\ AfterNoise \subseteq Strokes

VARIABLES
    parser,  \* the scancode fields of struct ps2k_device
    out,     \* the keystrokes declared by the latest step
    wire,    \* bytes sent and not yet received
    due,     \* keystrokes sent and not yet declared
    noise    \* how many bytes of noise have been sent

vars == <<parser, out, wire, due, noise>>

\* extended_scancode, released_scancode, and of current_scancode_sequence the
\* first current_scancode_sequence_length bytes.
Parser == [ext : BOOLEAN, rel : BOOLEAN, seq : Seq(Byte)]
Clean == [ext |-> FALSE, rel |-> FALSE, seq |-> <<>>]

TypeOK ==
    /\ parser \in Parser
    /\ wire \in Seq(Byte)
    /\ noise \in 0..NoiseBound

Init ==
    /\ parser = Clean
    /\ out = <<>> /\ wire = <<>> /\ due = <<>>
    /\ noise = 0

-----------------------------------------------------------------------------
Key(code, pressed) == [keycode |-> code, pressed |-> pressed]

\* Mutations: one byte too late; only the length is reset.
Resynced_Late(p) == IF Len(p.seq) > MaxSequence THEN Clean ELSE p
Resynced_KeepsFlags(p) ==
    IF Len(p.seq) >= MaxSequence THEN [p EXCEPT !.seq = <<>>] ELSE p

\* A sequence that has become too long is dropped.
Resynced(p) == IF Len(p.seq) >= MaxSequence THEN Clean ELSE p

Taken(p, b) == LET q == Resynced(p) IN [q EXCEPT !.seq = Append(@, b)]

Result(p, keys) == [parser |-> p, keys |-> keys]

\* The entry of the table that the flags select.
Table(p) == IF p.ext THEN Extended ELSE Plain

\* The first entry of the matching list that is the whole sequence.
Matches(p) == SelectSeq(Matching, LAMBDA e : e.sequence = p.seq)

MatchResult(p) ==
    IF Matches(p) = <<>> THEN Result(p, <<>>)
    ELSE LET e == Head(Matches(p))
         IN  Result(Clean,
                (IF e.pressed THEN <<Key(e.keycode, TRUE)>> ELSE <<>>) \o
                (IF e.released THEN <<Key(e.keycode, FALSE)>> ELSE <<>>))

\* Mutation: the released flag survives a keystroke.
ParseByte_StaysReleased(p, b) ==
    LET q == Taken(p, b)
    IN  CASE b = EXT -> Result([q EXCEPT !.ext = TRUE], <<>>)
          [] b = REL -> Result([q EXCEPT !.rel = TRUE], <<>>)
          [] b \notin {EXT, REL} /\ b \in DOMAIN Table(q) ->
               Result([Clean EXCEPT !.rel = q.rel], <<Key(Table(q)[b], ~q.rel)>>)
          [] OTHER -> MatchResult(q)

ParseByte(p, b) ==
    LET q == Taken(p, b)
    IN  CASE b = EXT -> Result([q EXCEPT !.ext = TRUE], <<>>)
          [] b = REL -> Result([q EXCEPT !.rel = TRUE], <<>>)
          [] b \notin {EXT, REL} /\ b \in DOMAIN Table(q) ->
               Result(Clean, <<Key(Table(q)[b], ~q.rel)>>)
          [] OTHER -> MatchResult(q)

Receive ==
    /\ wire # <<>>
    /\ wire' = Tail(wire)
    /\ LET r == ParseByte(parser, Head(wire))
       IN  /\ parser' = r.parser
           /\ out' = r.keys
           /\ due' = SubSeq(due, Len(r.keys) + 1, Len(due))
    /\ UNCHANGED noise

-----------------------------------------------------------------------------
(* The keyboard (external).                                                *)

Strike ==
    /\ wire = <<>>
    /\ \E s \in IF noise = 0 THEN Strokes ELSE AfterNoise :
          wire' = s.bytes /\ due' = s.keys
    /\ out' = <<>>
    /\ UNCHANGED <<parser, noise>>

MakeNoise ==
    /\ wire = <<>> /\ noise < NoiseBound
    /\ \E b \in Noise : wire' = <<b>>
    /\ noise' = noise + 1
    /\ out' = <<>>
    /\ UNCHANGED <<parser, due>>

Next == Receive \/ Strike \/ MakeNoise

\* A byte is received, and keys go on being struck.
Spec == Init /\ [][Next]_vars /\ WF_vars(Receive) /\ WF_vars(Strike)

-----------------------------------------------------------------------------
(* Properties.                                                             *)

\* A parser that has taken the first k bytes of a scancode, and nothing else.
Prefix(bytes, k) ==
    LET seq == SubSeq(bytes, 1, k)
    IN  [ext |-> EXT \in ToSet(seq), rel |-> REL \in ToSet(seq), seq |-> seq]

\* The tables and the list know a stroke by all of its bytes, and no key by
\* the first ones only.
Recognised(s) ==
    LET last == Len(s.bytes)
        AfterByte(k) == Prefix(s.bytes, k)
        Flag(k) == s.bytes[k] \in {EXT, REL}
        InTable(k) == s.bytes[k] \in DOMAIN Table(AfterByte(k))
        InList(k) == Matches(AfterByte(k)) # <<>>
    IN  /\ last \in 1..MaxSequence
        /\ \A k \in 1..last - 1 : Flag(k) \/ ~(InTable(k) \/ InList(k))
        /\ ~Flag(last) /\ (InTable(last) \/ InList(last))
        /\ s.keys = IF InTable(last)
                    THEN <<Key(Table(AfterByte(last))[s.bytes[last]],
                               ~AfterByte(last).rel)>>
                    ELSE MatchResult(AfterByte(last)).keys

(* Until noise comes, keystrokes are declared as they were struck: the     *)
(* right key, pressed or released, in order, when its last byte arrives    *)
(* and not before.                                                         *)
KeysAsStruck ==
    [][wire # <<>> /\ wire' = Tail(wire) /\ noise = 0 =>
          out' = IF wire' = <<>> THEN due ELSE <<>>]_vars

(* The sequence stays within its array whatever the bytes are, and the     *)
(* flags are what it says: the parser never remembers a prefix that it has *)
(* dropped from the sequence, nor forgets one that it has kept.            *)
FlagsExplained ==
    /\ Len(parser.seq) <= MaxSequence
    /\ parser.ext <=> EXT \in ToSet(parser.seq)
    /\ parser.rel <=> REL \in ToSet(parser.seq)

(* After the last byte of noise the parser gets back in step: from some    *)
(* time on every stroke starts with a clean parser.                        *)
Resynchronises == <>[](wire = <<>> => parser = Clean)
=============================================================================
