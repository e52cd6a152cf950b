------------------------------ MODULE TextMode ------------------------------
(***************************************************************************)
(* text_mode.c: printing a character at the cursor, wrapping and           *)
(* scrolling.  Main and the interrupt handlers print through one cursor    *)
(* without any protection.  Main's print_char is one action per access to  *)
(* the cursor or the screen, reg being the processor register a value is   *)
(* in between; a handler runs to its end between two of them.  The cursor  *)
(* has two unsigned bytes.                                                 *)
(***************************************************************************)
EXTENDS MemMove, Integers

CONSTANTS
    Width, Height, \* SCREEN_WIDTH, SCREEN_HEIGHT
    ByteRange,     \* the values of a byte, 256
    MainChars,     \* the characters main prints
    IrqTexts,      \* the texts handlers print
    MaxText        \* bound: characters printed while nothing was disturbed

ASSUME TextModeAssumption ==
    /\ Width \in Nat \ {0} /\ Height \in Nat \ {0, 1}
    /\ ByteRange \in Nat /\ Width < ByteRange /\ Height + 1 < ByteRange
    /\ Width * Height < AddressRange
    /\ \A str \in IrqTexts : str \in Seq(Range(str))

Size == Width * Height
Blank == "blank"

VARIABLES
    x, y,      \* curs_pos
    screen,    \* TM_SCREEN
    pc,        \* main's place in print_char
    ch,        \* its argument
    reg,       \* the register
    again,     \* whether wrap_curs is called the second time
    text,      \* history: all that was printed, until disturbed
    disturbed, \* history: whether a handler printed inside main's print_char
    calm,      \* history: main's calls begun since then, up to 3
    stored     \* history: the cell written last

cursor == <<x, y, screen, stored>>
history == <<text, disturbed, calm>>
vars == <<cursor, pc, ch, reg, again, history>>

Init ==
    /\ x = 0 /\ y = 0 /\ stored = 0
    /\ screen = [a \in 0..Size - 1 |-> Blank]
    /\ pc = <<"idle", "call">> /\ ch = Blank /\ reg = 0 /\ again = FALSE
    /\ text = <<>> /\ disturbed = FALSE /\ calm = 3

-----------------------------------------------------------------------------
(* A whole print_char, for the handlers.                                   *)

\* Mutation: the last line is not blanked.
move_lines_up_KeepsLast(scr) == memmove(scr, 0, Width, Width * (Height - 1))

move_lines_up(scr) ==
    memset(memmove(scr, 0, Width, Width * (Height - 1)),
           Width * (Height - 1), Blank, Width)

\* A store beyond the screen hits memory that is not shown.
Stored(scr, cell, c) == IF cell < Size THEN [scr EXCEPT ![cell] = c] ELSE scr

WrapX(s) ==
    IF s.x < Width THEN s
    ELSE [s EXCEPT !.x = @ - Width, !.y = (@ + 1) % ByteRange]
WrapY(s) ==
    LET excess == s.y - (Height - 1)
    IN  IF s.y < Height THEN s
        ELSE [s EXCEPT !.y = Height - 1,
                       !.scr = FoldLeft(LAMBDA scr, i : move_lines_up(scr),
                                        s.scr, Upwards(excess))]
wrap_curs(s) == WrapY(WrapX(s))

print_char(s, c) ==
    LET w == wrap_curs(s)
        cell == w.y * Width + w.x
    IN  CASE c = "\n" ->
                wrap_curs([w EXCEPT !.x = 0, !.y = (@ + 1) % ByteRange])
          [] c = "\r" -> [w EXCEPT !.x = 0]
          [] OTHER ->
                [w EXCEPT !.scr = Stored(@, cell, c), !.cell = cell,
                          !.x = (@ + 1) % ByteRange]

print_string(s, str) == FoldLeft(print_char, s, str)

-----------------------------------------------------------------------------
(* Main's print_char, access by access.                                    *)

Goto(kind, name) == pc' = <<kind, name>>
Here(kind, name) == pc = <<kind, name>>

\* The read-modify-writes of the cursor: what each adds, and what follows.
Adds ==
    [wrap_x |-> 0 - Width, wrap_y |-> 1, scrolled |-> -1, newline |-> 1, next |-> 1]
After(op) ==
    CASE op = "wrap_x" -> <<"load", "wrap_y">>
      [] op \in {"wrap_y", "scrolled"} -> <<"test", "y">>
      [] op = "newline" -> <<"test", "x">>
      [] op = "next" -> <<"idle", "call">>

Load ==
    /\ pc[1] = "load"
    /\ reg' = IF pc[2] \in {"wrap_x", "next"} THEN x ELSE y
    /\ Goto("store", pc[2])
    /\ UNCHANGED <<cursor, ch, again, history>>

Store ==
    /\ pc[1] = "store"
    /\ LET sum == (reg + Adds[pc[2]]) % ByteRange
       IN  IF pc[2] \in {"wrap_x", "next"} THEN x' = sum /\ UNCHANGED y
                                           ELSE y' = sum /\ UNCHANGED x
    /\ pc' = After(pc[2])
    /\ again' = (again \/ pc[2] = "newline")
    /\ UNCHANGED <<screen, stored, ch, reg, history>>

\* A call of print_char; text is what the caller has printed so far.
PrintChar(c) ==
    /\ Here("idle", "call")
    /\ disturbed \/ Len(text) < MaxText
    /\ ch' = c /\ again' = FALSE /\ Goto("test", "x")
    /\ calm' = IF calm = 3 THEN 3 ELSE calm + 1
    /\ text' = IF disturbed THEN text ELSE Append(text, c)
    /\ UNCHANGED <<cursor, reg, disturbed>>

\* Mutation: a line may have one character more.
TestX_OneMore ==
    /\ Here("test", "x")
    /\ IF x > Width THEN Goto("load", "wrap_x") ELSE Goto("test", "y")
    /\ UNCHANGED <<cursor, ch, reg, again, history>>

TestX ==
    /\ Here("test", "x")
    /\ IF x >= Width THEN Goto("load", "wrap_x") ELSE Goto("test", "y")
    /\ UNCHANGED <<cursor, ch, reg, again, history>>

\* Mutation: the cursor may be one line below the screen.
TestY_OneMore ==
    /\ Here("test", "y")
    /\ IF y > Height THEN Goto("lines", "up")
       ELSE IF again THEN Goto("idle", "call") ELSE Goto("switch", "ch")
    /\ UNCHANGED <<cursor, ch, reg, again, history>>

TestY ==
    /\ Here("test", "y")
    /\ IF y >= Height THEN Goto("lines", "up")
       ELSE IF again THEN Goto("idle", "call") ELSE Goto("switch", "ch")
    /\ UNCHANGED <<cursor, ch, reg, again, history>>

LinesUp ==
    /\ Here("lines", "up")
    /\ screen' = move_lines_up(screen)
    /\ Goto("load", "scrolled")
    /\ UNCHANGED <<x, y, stored, ch, reg, again, history>>

\* The switch; a character's row and column are read one after the other.
Switch ==
    /\ Here("switch", "ch")
    /\ CASE ch = "\n" -> x' = 0 /\ Goto("load", "newline")
         [] ch = "\r" -> x' = 0 /\ Goto("idle", "call")
         [] OTHER -> Goto("row", "y") /\ UNCHANGED x
    /\ UNCHANGED <<y, screen, stored, ch, reg, again, history>>

Row ==
    /\ Here("row", "y") /\ reg' = y * Width /\ Goto("column", "x")
    /\ UNCHANGED <<cursor, ch, again, history>>
Column ==
    /\ Here("column", "x") /\ reg' = reg + x /\ Goto("cell", "ch")
    /\ UNCHANGED <<cursor, ch, again, history>>
Cell ==
    /\ Here("cell", "ch")
    /\ screen' = Stored(screen, reg, ch) /\ stored' = reg
    /\ Goto("load", "next")
    /\ UNCHANGED <<x, y, ch, reg, again, history>>

\* A handler prints between two of main's accesses.
Interrupt(str) ==
    /\ LET s == print_string([x |-> x, y |-> y, scr |-> screen, cell |-> stored], str)
       IN  x' = s.x /\ y' = s.y /\ screen' = s.scr /\ stored' = s.cell
    /\ disturbed' = (disturbed \/ pc[1] # "idle")
    /\ disturbed' \/ Len(text) + Len(str) <= MaxText
    /\ text' = IF disturbed' THEN <<>> ELSE text \o str
    /\ calm' = IF pc[1] = "idle" THEN calm ELSE 0
    /\ UNCHANGED <<pc, ch, reg, again>>

Main ==
    \/ \E c \in MainChars : PrintChar(c)
    \/ TestX \/ TestY \/ Load \/ Store \/ LinesUp \/ Switch \/ Row \/ Column \/ Cell

Next == Main \/ \E str \in IrqTexts : Interrupt(str)
Spec == Init /\ [][Next]_vars

-----------------------------------------------------------------------------
(* Properties.                                                             *)

\* The layout of a text on an endless sheet: where it ends, and the cells.
Put(sheet, c) ==
    LET full == sheet.col = Width
        row == IF full THEN sheet.row + 1 ELSE sheet.row
        col == IF full THEN 0 ELSE sheet.col
    IN  CASE c = "\n" -> [sheet EXCEPT !.row = row + 1, !.col = 0]
          [] c = "\r" -> [sheet EXCEPT !.row = row, !.col = 0]
          [] OTHER -> [row |-> row, col |-> col + 1,
                       cells |-> [p \in DOMAIN sheet.cells \cup {<<row, col>>} |->
                                     IF p = <<row, col>> THEN c ELSE sheet.cells[p]]]
Sheet == FoldLeft(Put, [row |-> 0, col |-> 0, cells |-> [p \in {} |-> Blank]], text)

\* As long as no handler prints inside main's print_char, the screen shows the
\* last lines of all that main and the handlers have printed, laid out in
\* lines of the screen's width, and the cursor is behind the last character.
ShowsText ==
    pc[1] = "idle" /\ ~disturbed =>
        LET sheet == Sheet
            top == IF sheet.row < Height THEN 0 ELSE sheet.row - (Height - 1)
        IN  /\ x = sheet.col /\ y = sheet.row - top
            /\ \A r \in 0..Height - 1, c \in 0..Width - 1 :
                  screen[r * Width + c] =
                      IF <<top + r, c>> \in DOMAIN sheet.cells
                      THEN sheet.cells[<<top + r, c>>] ELSE Blank

\* Whatever handlers print at whatever moment, no character is stored further
\* behind the screen than a line of ByteRange characters would reach.
StoresBounded == stored < Width * (Height - 1) + ByteRange

\* Main's third call after it was disturbed stores on the screen again.
Recovers == calm = 3 /\ Here("cell", "ch") => reg < Size

\* memmove copies overlapping regions right in both directions, wherever they
\* lie below the last address, and memset fills what it is told to.
MemoryMoves == MovesWell(AddressRange)
=============================================================================
