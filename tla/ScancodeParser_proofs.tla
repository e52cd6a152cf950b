----------------------- MODULE ScancodeParser_proofs -----------------------
(***************************************************************************)
(* The parser's buffer and flags, for all tables, all keyboards and all    *)
(* foreign bytes; and its keystrokes, for all tables that recognise the    *)
(* keyboard's strokes.  The argument for these is InStep: until noise      *)
(* comes, the parser has taken a prefix of one stroke and nothing else.    *)
(***************************************************************************)
EXTENDS ScancodeParser, SequenceTheorems, TLAPS

\* FlagsExplained, of any state of the parser.
Explained(p) ==
    /\ Len(p.seq) <= MaxSequence
    /\ p.ext <=> EXT \in ToSet(p.seq)
    /\ p.rel <=> REL \in ToSet(p.seq)

ParserInv == TypeOK /\ FlagsExplained

-----------------------------------------------------------------------------
LEMMA CleanExplained == Clean \in Parser /\ Explained(Clean)
<1>1. ToSet(<<>>) = {}
  BY DEF ToSet
<1> QED
  BY <1>1, ParserAssumption DEF Clean, Parser, Explained, EXT, REL

LEMMA ToSetAppend ==
    ASSUME NEW s \in Seq(Byte), NEW b \in Byte
    PROVE  ToSet(Append(s, b)) = ToSet(s) \cup {b}
<1> DEFINE t == Append(s, b)
<1>1. t \in Seq(Byte) /\ Len(t) = Len(s) + 1
  OBVIOUS
<1>2. \A i \in 1..Len(s) : t[i] = s[i]
  OBVIOUS
<1>3. t[Len(s) + 1] = b
  OBVIOUS
<1>4. DOMAIN t = DOMAIN s \cup {Len(s) + 1}
  BY <1>1
<1> HIDE DEF t
<1> QED
  BY <1>2, <1>3, <1>4 DEF ToSet, t

\* A byte is taken into a buffer with room for it.
LEMMA TakenExplained ==
    ASSUME NEW p \in Parser, Explained(p), NEW b \in Byte
    PROVE  /\ Taken(p, b) \in Parser
           /\ Len(Taken(p, b).seq) <= MaxSequence
           /\ Taken(p, b).ext \/ b = EXT <=> EXT \in ToSet(Taken(p, b).seq)
           /\ Taken(p, b).rel \/ b = REL <=> REL \in ToSet(Taken(p, b).seq)
<1> DEFINE q == Resynced(p)
<1>1. q \in Parser /\ Explained(q) /\ Len(q.seq) < MaxSequence
  BY CleanExplained, ParserAssumption
  DEF Resynced, Parser, Explained, Clean
<1>2. Taken(p, b) = [q EXCEPT !.seq = Append(q.seq, b)]
  BY DEF Taken
<1> HIDE DEF q
<1>3. q.seq \in Seq(Byte) /\ Append(q.seq, b) \in Seq(Byte)
  BY <1>1 DEF Parser
<1>4. Taken(p, b) \in Parser
  <2> DEFINE t == Append(q.seq, b)
  <2>1. Taken(p, b) = [q EXCEPT !.seq = t] /\ t \in Seq(Byte)
    BY <1>2, <1>3
  <2> HIDE DEF t
  <2> QED
    BY <1>1, <2>1 DEF Parser
<1>5. /\ Taken(p, b).seq = Append(q.seq, b)
      /\ Taken(p, b).ext = q.ext
      /\ Taken(p, b).rel = q.rel
  BY <1>1, <1>2 DEF Parser
<1>6. ToSet(Append(q.seq, b)) = ToSet(q.seq) \cup {b}
  BY <1>3, ToSetAppend
<1>7. Len(Append(q.seq, b)) <= MaxSequence
  BY <1>1, <1>3, ParserAssumption
<1> QED
  BY <1>1, <1>4, <1>5, <1>6, <1>7 DEF Explained, EXT, REL

LEMMA MatchParser ==
    ASSUME NEW p PROVE MatchResult(p).parser \in {p, Clean}
  BY DEF MatchResult, Result

LEMMA ParseExplained ==
    ASSUME NEW p \in Parser, Explained(p), NEW b \in Byte
    PROVE  ParseByte(p, b).parser \in Parser /\ Explained(ParseByte(p, b).parser)
<1> DEFINE q == Taken(p, b)
<1>1. /\ q \in Parser
      /\ Len(q.seq) <= MaxSequence
      /\ q.ext \/ b = EXT <=> EXT \in ToSet(q.seq)
      /\ q.rel \/ b = REL <=> REL \in ToSet(q.seq)
  BY TakenExplained
<1> HIDE DEF q
<1>2. CASE b = EXT
  <2> DEFINE r == [q EXCEPT !.ext = TRUE]
  <2>1. ParseByte(p, b) = Result(r, <<>>)
    BY <1>2 DEF ParseByte, q, EXT, REL
  <2>2. r \in Parser /\ r.ext /\ r.rel = q.rel /\ r.seq = q.seq
    BY <1>1 DEF Parser
  <2> HIDE DEF r
  <2>3. Explained(r)
    BY <1>1, <1>2, <2>2 DEF Explained, EXT, REL
  <2> QED
    BY <2>1, <2>2, <2>3 DEF Result
<1>3. CASE b = REL
  <2> DEFINE r == [q EXCEPT !.rel = TRUE]
  <2>1. ParseByte(p, b) = Result(r, <<>>)
    BY <1>3 DEF ParseByte, q, EXT, REL
  <2>2. r \in Parser /\ r.rel /\ r.ext = q.ext /\ r.seq = q.seq
    BY <1>1 DEF Parser
  <2> HIDE DEF r
  <2>3. Explained(r)
    BY <1>1, <1>3, <2>2 DEF Explained, EXT, REL
  <2> QED
    BY <2>1, <2>2, <2>3 DEF Result
<1>4. CASE b \notin {EXT, REL} /\ b \in DOMAIN Table(q)
  <2>1. ParseByte(p, b).parser = Clean
    BY <1>4 DEF ParseByte, q, Result, EXT, REL
  <2> QED
    BY <2>1, CleanExplained
<1>5. CASE b \notin {EXT, REL} /\ b \notin DOMAIN Table(q)
  <2>1. ParseByte(p, b) = MatchResult(q)
    BY <1>5 DEF ParseByte, q
  <2>2. Explained(q)
    BY <1>1, <1>5 DEF Explained, EXT, REL
  <2> QED
    BY <1>1, <2>1, <2>2, MatchParser, CleanExplained
<1> QED
  BY <1>2, <1>3, <1>4, <1>5

-----------------------------------------------------------------------------
LEMMA ParserInit == Init => ParserInv
<1> SUFFICES ASSUME Init
             PROVE  ParserInv
  OBVIOUS
<1>1. FlagsExplained
  BY CleanExplained DEF Init, FlagsExplained, Explained
<1>2. TypeOK
  BY CleanExplained, ParserAssumption DEF Init, TypeOK
<1> QED
  BY <1>1, <1>2 DEF ParserInv

LEMMA ParserStep == ParserInv /\ [Next]_vars => ParserInv'
<1> SUFFICES ASSUME ParserInv, [Next]_vars
             PROVE  ParserInv'
  OBVIOUS
<1>1. CASE Receive
  <2>1. Head(wire) \in Byte /\ Tail(wire) \in Seq(Byte)
    BY <1>1 DEF ParserInv, TypeOK, Receive
  <2>2. parser' = ParseByte(parser, Head(wire)).parser
    BY <1>1 DEF Receive
  <2>3. parser \in Parser /\ Explained(parser)
    BY DEF ParserInv, TypeOK, FlagsExplained, Explained
  <2>4. parser' \in Parser /\ Explained(parser')
    BY <2>1, <2>2, <2>3, ParseExplained
  <2>5. FlagsExplained'
    BY <2>4 DEF FlagsExplained, Explained
  <2>6. TypeOK'
    BY <1>1, <2>1, <2>4 DEF ParserInv, TypeOK, Receive
  <2> QED
    BY <2>5, <2>6 DEF ParserInv
<1>2. CASE Strike
  <2>1. wire' \in Seq(Byte)
    BY <1>2, ParserAssumption DEF Strike
  <2> QED
    BY <1>2, <2>1 DEF ParserInv, TypeOK, FlagsExplained, Strike
<1>3. CASE MakeNoise
  <2>1. wire' \in Seq(Byte)
    BY <1>3, ParserAssumption DEF MakeNoise
  <2>2. noise' \in 0..NoiseBound
    BY <1>3, ParserAssumption DEF MakeNoise, ParserInv, TypeOK
  <2> QED
    BY <1>3, <2>1, <2>2 DEF ParserInv, TypeOK, FlagsExplained, MakeNoise
<1>4. CASE UNCHANGED vars
  BY <1>4 DEF ParserInv, TypeOK, FlagsExplained, vars
<1> QED
  BY <1>1, <1>2, <1>3, <1>4 DEF Next

\* The fields of the parser keep their types.
THEOREM ParserTypes == Spec => []TypeOK
<1>1. ParserInv => TypeOK
  BY DEF ParserInv
<1> QED
  BY <1>1, ParserInit, ParserStep, PTL DEF Spec

\* No input makes ps2k_parse_byte (ps2k.c:154) write behind the sequence's
\* array, whatever the tables list, and the flags always say what the sequence
\* says.
THEOREM BufferSafe == Spec => []FlagsExplained
<1>1. ParserInv => FlagsExplained
  BY DEF ParserInv
<1> QED
  BY <1>1, ParserInit, ParserStep, PTL DEF Spec
-----------------------------------------------------------------------------
(* Strokes, from their first byte to their last.                           *)

LEMMA PrefixParser ==
    ASSUME NEW bytes \in Seq(Byte), NEW k \in 0..Len(bytes)
    PROVE  /\ SubSeq(bytes, 1, k) \in Seq(Byte)
           /\ Len(SubSeq(bytes, 1, k)) = k
           /\ Prefix(bytes, k) \in Parser
           /\ Prefix(bytes, k).seq = SubSeq(bytes, 1, k)
<1>1. \A i \in 1..k : bytes[i] \in Byte
  OBVIOUS
<1>2. SubSeq(bytes, 1, k) \in Seq(Byte) /\ Len(SubSeq(bytes, 1, k)) = k
  BY <1>1, SubSeqProperties
<1> QED
  BY <1>2 DEF Prefix, Parser

LEMMA PrefixStart ==
    ASSUME NEW bytes PROVE Prefix(bytes, 0) = Clean
<1>1. SubSeq(bytes, 1, 0) = <<>> /\ ToSet(<<>>) = {}
  BY SubSeqEmpty DEF ToSet
<1>2. (EXT \in {}) = FALSE /\ (REL \in {}) = FALSE
  OBVIOUS
<1> QED
  BY <1>1, <1>2, Zenon DEF Prefix, Clean

\* The next byte is taken into a buffer that has room for it.
LEMMA PrefixTaken ==
    ASSUME NEW bytes \in Seq(Byte), Len(bytes) <= MaxSequence,
           NEW k \in 1..Len(bytes)
    PROVE  LET before == ToSet(SubSeq(bytes, 1, k - 1))
               now == SubSeq(bytes, 1, k)
           IN  /\ Taken(Prefix(bytes, k - 1), bytes[k])
                     = [ext |-> EXT \in before, rel |-> REL \in before,
                        seq |-> now]
               /\ ToSet(now) = before \cup {bytes[k]}
<1> DEFINE p == Prefix(bytes, k - 1)
           t == SubSeq(bytes, 1, k - 1)
<1>1. k - 1 \in 0..Len(bytes) /\ bytes[k] \in Byte
  OBVIOUS
<1>2. t \in Seq(Byte) /\ Len(t) = k - 1 /\ p \in Parser /\ p.seq = t
  BY <1>1, PrefixParser
<1>3. SubSeq(bytes, 1, k) = Append(t, bytes[k])
  <2>1. SubSeq(bytes, 1, k) = t \o <<bytes[k]>>
    BY SubSeqRecursiveSecond
  <2> HIDE DEF t
  <2> QED
    BY <1>1, <1>2, <2>1
<1>4. ToSet(Append(t, bytes[k])) = ToSet(t) \cup {bytes[k]}
  BY <1>1, <1>2, ToSetAppend
<1>5. p = [ext |-> EXT \in ToSet(t), rel |-> REL \in ToSet(t), seq |-> t]
  BY Zenon DEF Prefix
<1> HIDE DEF p, t
<1>6. Resynced(p) = p
  BY <1>2, ParserAssumption DEF Resynced
<1>7. Taken(p, bytes[k]) = [p EXCEPT !.seq = Append(t, bytes[k])]
  BY <1>2, <1>6 DEF Taken
<1>8. Taken(p, bytes[k])
        = [ext |-> p.ext, rel |-> p.rel, seq |-> Append(t, bytes[k])]
  <2> DEFINE u == Append(t, bytes[k])
  <2>1. Taken(p, bytes[k]) = [p EXCEPT !.seq = u]
    BY <1>7
  <2> HIDE DEF u
  <2>2. Taken(p, bytes[k]) = [ext |-> p.ext, rel |-> p.rel, seq |-> u]
    BY <1>2, <2>1 DEF Parser
  <2> QED
    BY <2>2 DEF u
<1>9. /\ p.ext = (EXT \in ToSet(t)) /\ p.rel = (REL \in ToSet(t))
  BY <1>5
<1> QED
  BY <1>3, <1>4, <1>8, <1>9, Zenon DEF p, t

LEMMA FlagSet ==
    ASSUME NEW e, NEW f, NEW seq, NEW q,
           q = [ext |-> e, rel |-> f, seq |-> seq]
    PROVE  /\ [q EXCEPT !.ext = TRUE] = [ext |-> TRUE, rel |-> f, seq |-> seq]
           /\ [q EXCEPT !.rel = TRUE] = [ext |-> e, rel |-> TRUE, seq |-> seq]
<1>1. ASSUME NEW v
      PROVE  /\ [q EXCEPT !.ext = v] = [ext |-> v, rel |-> f, seq |-> seq]
             /\ [q EXCEPT !.rel = v] = [ext |-> e, rel |-> v, seq |-> seq]
  OBVIOUS
<1> DEFINE v == TRUE
<1>2. v = TRUE
  OBVIOUS
<1> HIDE DEF v
<1>3. /\ [q EXCEPT !.ext = v] = [ext |-> v, rel |-> f, seq |-> seq]
      /\ [q EXCEPT !.rel = v] = [ext |-> e, rel |-> v, seq |-> seq]
  BY <1>1
<1> QED
  BY <1>3 DEF v

LEMMA PrefixByte ==
    ASSUME NEW s \in Strokes, Recognised(s), NEW k \in 1..Len(s.bytes)
    PROVE  ParseByte(Prefix(s.bytes, k - 1), s.bytes[k])
              = IF k = Len(s.bytes) THEN Result(Clean, s.keys)
                                    ELSE Result(Prefix(s.bytes, k), <<>>)
<1> DEFINE bytes == s.bytes
           b == bytes[k]
           p == Prefix(bytes, k - 1)
           q == Taken(p, b)
           r == Prefix(bytes, k)
<1>1. bytes \in Seq(Byte) /\ Len(bytes) <= MaxSequence
  BY ParserAssumption DEF Recognised
<1> DEFINE T == ToSet(SubSeq(bytes, 1, k - 1))
           u == SubSeq(bytes, 1, k)
<1>2. /\ q = [ext |-> EXT \in T, rel |-> REL \in T, seq |-> u]
      /\ ToSet(u) = T \cup {b}
  BY <1>1, PrefixTaken
<1>3. r = [ext |-> EXT \in ToSet(u), rel |-> REL \in ToSet(u), seq |-> u]
  BY Zenon DEF Prefix
<1>4. k # Len(bytes) =>
         b \in {EXT, REL} \/ (b \notin DOMAIN Table(r) /\ Matches(r) = <<>>)
  BY DEF Recognised
<1>5. k = Len(bytes) =>
         /\ b \notin {EXT, REL}
         /\ \/ b \in DOMAIN Table(r) /\ s.keys = <<Key(Table(r)[b], ~r.rel)>>
            \/ /\ b \notin DOMAIN Table(r) /\ Matches(r) # <<>>
               /\ s.keys = MatchResult(r).keys
  BY DEF Recognised
<1>6. ParseByte(p, b)
        = CASE b = EXT -> Result([q EXCEPT !.ext = TRUE], <<>>)
            [] b = REL -> Result([q EXCEPT !.rel = TRUE], <<>>)
            [] b \notin {EXT, REL} /\ b \in DOMAIN Table(q) ->
                 Result(Clean, <<Key(Table(q)[b], ~q.rel)>>)
            [] OTHER -> MatchResult(q)
  BY Zenon DEF ParseByte
<1> HIDE DEF bytes, b, p, q, r, T, u
<1>7. EXT # REL
  BY DEF EXT, REL
<1>8. /\ [q EXCEPT !.ext = TRUE] = [ext |-> TRUE, rel |-> REL \in T, seq |-> u]
      /\ [q EXCEPT !.rel = TRUE] = [ext |-> EXT \in T, rel |-> TRUE, seq |-> u]
  <2> DEFINE e == EXT \in T
             f == REL \in T
  <2>1. q = [ext |-> e, rel |-> f, seq |-> u]
    BY <1>2
  <2> HIDE DEF e, f
  <2>2. /\ [q EXCEPT !.ext = TRUE] = [ext |-> TRUE, rel |-> f, seq |-> u]
        /\ [q EXCEPT !.rel = TRUE] = [ext |-> e, rel |-> TRUE, seq |-> u]
    BY <2>1, FlagSet
  <2> QED
    BY <2>2, Zenon DEF e, f
<1>9. CASE b = EXT
  <2>1. (EXT \in ToSet(u)) = TRUE /\ (REL \in ToSet(u)) = (REL \in T)
    BY <1>2, <1>7, <1>9
  <2>2. r = [ext |-> TRUE, rel |-> REL \in T, seq |-> u]
    BY <1>3, <2>1, Zenon
  <2>3. [q EXCEPT !.ext = TRUE] = r
    BY <1>8, <2>2, Zenon
  <2> QED
    BY <1>4, <1>5, <1>6, <1>9, <2>3 DEF EXT, REL, bytes, b, p, r
<1>10. CASE b = REL
  <2>1. (EXT \in ToSet(u)) = (EXT \in T) /\ (REL \in ToSet(u)) = TRUE
    BY <1>2, <1>7, <1>10
  <2>2. r = [ext |-> EXT \in T, rel |-> TRUE, seq |-> u]
    BY <1>3, <2>1, Zenon
  <2>3. [q EXCEPT !.rel = TRUE] = r
    BY <1>8, <2>2, Zenon
  <2> QED
    BY <1>4, <1>5, <1>6, <1>10, <2>3 DEF EXT, REL, bytes, b, p, r
<1>11. CASE b \notin {EXT, REL}
  <2>1. r = q
    <3>1. (EXT \in ToSet(u)) = (EXT \in T) /\ (REL \in ToSet(u)) = (REL \in T)
      BY <1>2, <1>11
    <3> QED
      BY <1>2, <1>3, <3>1, Zenon
  <2>2. CASE b \in DOMAIN Table(q)
    <3>1. ParseByte(p, b) = Result(Clean, <<Key(Table(q)[b], ~q.rel)>>)
      BY <1>6, <1>11, <2>2
    <3>2. k = Len(bytes) /\ s.keys = <<Key(Table(q)[b], ~q.rel)>>
      BY <1>4, <1>5, <1>11, <2>1, <2>2
    <3> QED
      BY <3>1, <3>2 DEF bytes, b, p
  <2>3. CASE b \notin DOMAIN Table(q)
    <3>1. ParseByte(p, b) = MatchResult(q)
      BY <1>6, <1>11, <2>3
    <3>2. CASE k = Len(bytes)
      <4>1. Matches(q) # <<>> /\ s.keys = MatchResult(q).keys
        BY <1>5, <2>1, <2>3, <3>2
      <4>2. MatchResult(q) = Result(Clean, MatchResult(q).keys)
        BY <4>1 DEF MatchResult, Result
      <4> QED
        BY <3>1, <3>2, <4>1, <4>2 DEF bytes, b, p
    <3>3. CASE k # Len(bytes)
      <4>1. Matches(q) = <<>>
        BY <1>4, <1>11, <2>1, <3>3
      <4>2. MatchResult(q) = Result(r, <<>>)
        BY <2>1, <4>1 DEF MatchResult
      <4> QED
        BY <3>1, <3>3, <4>2 DEF bytes, b, p, r
    <3> QED
      BY <3>2, <3>3
  <2> QED
    BY <2>2, <2>3
<1> QED
  BY <1>9, <1>10, <1>11

-----------------------------------------------------------------------------
(* Without noise the parser is in step with the keyboard.                  *)

\* The first k bytes of a stroke have been received.
Midway ==
    \E s \in Strokes : \E k \in 0..Len(s.bytes) - 1 :
        /\ parser = Prefix(s.bytes, k)
        /\ wire = SubSeq(s.bytes, k + 1, Len(s.bytes))
        /\ due = s.keys

InStep == noise = 0 => (wire = <<>> /\ parser = Clean) \/ Midway

AllRecognised == \A s \in Strokes : Recognised(s)

\* One or two keystrokes are due.
LEMMA KeysAreFew ==
    ASSUME NEW s, Recognised(s)
    PROVE  \E S : s.keys \in Seq(S)
<1> DEFINE p == Prefix(s.bytes, Len(s.bytes))
           b == s.bytes[Len(s.bytes)]
<1>1. \/ s.keys = <<Key(Table(p)[b], ~p.rel)>>
      \/ Matches(p) # <<>> /\ s.keys = MatchResult(p).keys
  BY DEF Recognised
<1> HIDE DEF p
<1>2. CASE s.keys = <<Key(Table(p)[b], ~p.rel)>>
  <2>1. s.keys \in Seq({Key(Table(p)[b], ~p.rel)})
    BY <1>2
  <2> QED
    BY <2>1
<1>3. CASE Matches(p) # <<>> /\ s.keys = MatchResult(p).keys
  <2> DEFINE c == Head(Matches(p)).keycode
             S == {Key(c, TRUE), Key(c, FALSE)}
             pressed == IF Head(Matches(p)).pressed THEN <<Key(c, TRUE)>> ELSE <<>>
             released == IF Head(Matches(p)).released THEN <<Key(c, FALSE)>>
                                                      ELSE <<>>
  <2>1. s.keys = pressed \o released
    BY <1>3 DEF MatchResult, Result
  <2>2. pressed \in Seq(S) /\ released \in Seq(S)
    <3>1. <<>> \in Seq(S) /\ <<Key(c, TRUE)>> \in Seq(S)
          /\ <<Key(c, FALSE)>> \in Seq(S)
      <4> DEFINE x == Key(c, TRUE)
                 y == Key(c, FALSE)
      <4> HIDE DEF x, y
      <4>1. <<>> \in Seq({x, y}) /\ <<x>> \in Seq({x, y}) /\ <<y>> \in Seq({x, y})
        OBVIOUS
      <4> QED
        BY <4>1 DEF x, y
    <3> QED
      BY <3>1, Zenon
  <2> HIDE DEF pressed, released, S
  <2>3. s.keys \in Seq(S)
    BY <2>1, <2>2
  <2> QED
    BY <2>3
<1> QED
  BY <1>1, <1>2, <1>3

\* What the next byte of a stroke does.
LEMMA StrokeByte ==
    ASSUME AllRecognised, Midway, Receive
    PROVE  /\ out' = IF wire' = <<>> THEN due ELSE <<>>
           /\ (wire' = <<>> /\ parser' = Clean) \/ Midway'
<1>1. PICK s \in Strokes : \E j \in 0..Len(s.bytes) - 1 :
          /\ parser = Prefix(s.bytes, j)
          /\ wire = SubSeq(s.bytes, j + 1, Len(s.bytes))
          /\ due = s.keys
  BY DEF Midway
<1>2. Recognised(s) /\ s.bytes \in Seq(Byte)
  BY ParserAssumption DEF AllRecognised
<1>3. PICK j \in 0..Len(s.bytes) - 1 :
          /\ parser = Prefix(s.bytes, j)
          /\ wire = SubSeq(s.bytes, j + 1, Len(s.bytes))
          /\ due = s.keys
  BY <1>1
<1> DEFINE k == j + 1
<1>4. k \in 1..Len(s.bytes) /\ Len(s.bytes) \in k..Len(s.bytes) /\ k - 1 = j
  BY <1>2
<1>5. Head(wire) = s.bytes[k] /\ Tail(wire) = SubSeq(s.bytes, k + 1, Len(s.bytes))
  BY <1>3, <1>2, <1>4, HeadTailOfSubSeq
<1>6. /\ wire' = Tail(wire)
      /\ parser' = ParseByte(parser, Head(wire)).parser
      /\ out' = ParseByte(parser, Head(wire)).keys
      /\ due' = SubSeq(due, Len(out') + 1, Len(due))
  BY DEF Receive
<1>7. ParseByte(parser, Head(wire))
         = IF k = Len(s.bytes) THEN Result(Clean, s.keys)
                               ELSE Result(Prefix(s.bytes, k), <<>>)
  BY <1>3, <1>2, <1>4, <1>5, PrefixByte
<1>8. CASE k = Len(s.bytes)
  <2>1. wire' = <<>>
    BY <1>2, <1>4, <1>5, <1>6, <1>8, SubSeqEmpty
  <2>2. parser' = Clean /\ out' = s.keys
    BY <1>6, <1>7, <1>8 DEF Result
  <2> QED
    BY <1>3, <2>1, <2>2
<1>9. CASE k # Len(s.bytes)
  <2>1. k \in 0..Len(s.bytes) - 1
    BY <1>2, <1>4, <1>9
  <2>2. parser' = Prefix(s.bytes, k) /\ out' = <<>>
    BY <1>6, <1>7, <1>9 DEF Result
  <2>3. wire' = SubSeq(s.bytes, k + 1, Len(s.bytes))
    BY <1>5, <1>6
  <2>4. wire' # <<>>
    <3>1. \A i \in k + 1..Len(s.bytes) : s.bytes[i] \in Byte
      BY <1>2, <2>1
    <3>2. Len(wire') = Len(s.bytes) - k
      <4>1. Len(SubSeq(s.bytes, k + 1, Len(s.bytes)))
              = IF k + 1 <= Len(s.bytes) THEN Len(s.bytes) - (k + 1) + 1 ELSE 0
        BY <1>2, <2>1, <3>1, SubSeqProperties
      <4> QED
        BY <1>2, <2>1, <2>3, <4>1
    <3> QED
      BY <1>2, <2>1, <3>2
  <2>5. due' = due
    <3>1. PICK S : due \in Seq(S)
      BY <1>3, <1>2, KeysAreFew
    <3>2. SubSeq(due, 1, Len(due)) = due
      BY <3>1, SubSeqFull
    <3>3. Len(out') + 1 = 1
      BY <2>2
    <3> QED
      BY <1>6, <3>2, <3>3
  <2>6. Midway'
    BY <1>3, <2>1, <2>2, <2>3, <2>5 DEF Midway
  <2> QED
    BY <2>2, <2>4, <2>6
<1> QED
  BY <1>8, <1>9

LEMMA InitInStep == Init => InStep
  BY DEF Init, InStep

LEMMA NextInStep ==
    ASSUME AllRecognised, TypeOK, InStep, [Next]_vars
    PROVE  InStep'
<1>1. CASE Receive
  <2>1. UNCHANGED noise /\ wire # <<>>
    BY <1>1 DEF Receive
  <2> QED
    BY <1>1, <2>1, StrokeByte DEF InStep
<1>2. CASE Strike
  <2> SUFFICES ASSUME noise' = 0
               PROVE  Midway'
    BY DEF InStep
  <2>1. noise = 0 /\ wire = <<>> /\ parser' = parser
    BY <1>2 DEF Strike
  <2>2. PICK s \in Strokes : wire' = s.bytes /\ due' = s.keys
    <3>1. \E s \in IF noise = 0 THEN Strokes ELSE AfterNoise :
             wire' = s.bytes /\ due' = s.keys
      BY <1>2, Zenon DEF Strike
    <3>2. (IF noise = 0 THEN Strokes ELSE AfterNoise) = Strokes
      BY <2>1
    <3> QED
      BY <3>1, <3>2, Zenon
  <2>3. s.bytes \in Seq(Byte) /\ Len(s.bytes) >= 1
    <3>1. Len(s.bytes) \in 1..MaxSequence
      BY Zenon DEF AllRecognised, Recognised
    <3> QED
      BY <3>1, ParserAssumption
  <2>4. 0 \in 0..Len(s.bytes) - 1 /\ 0 + 1 = 1
    BY <2>3
  <2>5. parser' = Prefix(s.bytes, 0)
    <3>1. parser = Clean
      <4>1. ~Midway
        <5> SUFFICES ASSUME Midway PROVE FALSE
          OBVIOUS
        <5>1. PICK u \in Strokes : \E j \in 0..Len(u.bytes) - 1 :
                 wire = SubSeq(u.bytes, j + 1, Len(u.bytes))
          BY DEF Midway
        <5>2. PICK j \in 0..Len(u.bytes) - 1 :
                 wire = SubSeq(u.bytes, j + 1, Len(u.bytes))
          BY <5>1
        <5>3. u.bytes \in Seq(Byte)
          BY ParserAssumption
        <5>4. \A i \in j + 1..Len(u.bytes) : u.bytes[i] \in Byte
          BY <5>3
        <5>5. Len(wire) = Len(u.bytes) - j
          <6>1. Len(SubSeq(u.bytes, j + 1, Len(u.bytes)))
                  = IF j + 1 <= Len(u.bytes) THEN Len(u.bytes) - (j + 1) + 1
                                             ELSE 0
            BY <5>3, <5>4, SubSeqProperties
          <6> QED
            BY <5>2, <5>3, <6>1
        <5> QED
          BY <2>1, <5>3, <5>5
      <4> QED
        BY <2>1, <4>1 DEF InStep
    <3> QED
      BY <2>1, <3>1, PrefixStart
  <2>6. wire' = SubSeq(s.bytes, 0 + 1, Len(s.bytes))
    BY <2>2, <2>3, <2>4, SubSeqFull
  <2> QED
    BY <2>2, <2>4, <2>5, <2>6 DEF Midway
<1>3. CASE MakeNoise
  <2>1. noise' # 0
    BY <1>3 DEF MakeNoise, TypeOK
  <2> QED
    BY <2>1 DEF InStep
<1>4. CASE UNCHANGED vars
  BY <1>4 DEF vars, InStep, Midway
<1> QED
  BY <1>1, <1>2, <1>3, <1>4 DEF Next

\* Until noise comes, ps2k_parse_byte (ps2k.c:141-243) declares every keystroke
\* as it was struck, when its last byte arrives and not before, whatever the
\* tables and the list are, if they know every stroke by all of its bytes and
\* none by the first ones only.
THEOREM DeclaredAsStruck == AllRecognised => (Spec => KeysAsStruck)
<1> SUFFICES ASSUME AllRecognised
             PROVE  Spec => KeysAsStruck
  OBVIOUS
<1> DEFINE Declares ==
              wire # <<>> /\ wire' = Tail(wire) /\ noise = 0 =>
                 out' = IF wire' = <<>> THEN due ELSE <<>>
<1>1. Spec => []InStep
  <2>1. TypeOK /\ InStep /\ [Next]_vars => InStep'
    BY NextInStep
  <2> QED
    BY <2>1, InitInStep, ParserTypes, PTL DEF Spec
<1>2. InStep /\ [Next]_vars => [Declares]_vars
  <2> SUFFICES ASSUME InStep, Next, wire # <<>>, noise = 0
               PROVE  out' = IF wire' = <<>> THEN due ELSE <<>>
    OBVIOUS
  <2>1. Receive
    BY DEF Next, Strike, MakeNoise
  <2>2. Midway
    BY DEF InStep
  <2> QED
    BY <2>1, <2>2, StrokeByte
<1> HIDE DEF Declares
<1>3. Spec => [][Declares]_vars
  BY <1>1, <1>2, PTL DEF Spec
<1> QED
  BY <1>3 DEF KeysAsStruck, Declares
=============================================================================
