----------------------------- MODULE Keystrokes -----------------------------
(***************************************************************************)
(* keys.h and keys.c: the keycodes, the characters some of them stand for, *)
(* and declare_keystroke, which prints a line for a keystroke.  What it    *)
(* prints is a sequence of pieces; a newline is a piece of its own.        *)
(***************************************************************************)
EXTENDS Naturals, SequencesExt

Place(s, x) == CHOOSE i \in DOMAIN s : s[i] = x

\* enum keycode, from 0 on.
keycodes == <<
    "F1", "F2", "F3", "F4", "F5", "F6", "F7", "F8", "F9", "F10", "F11",
    "F12", "SPACE", "BACKSPACE", "ESCAPE", "ENTER", "TAB", "END", "HOME",
    "PAGE_DOWN", "PAGE_UP", "CURSOR_LEFT", "CURSOR_DOWN", "CURSOR_RIGHT",
    "CURSOR_UP", "INSERT", "DELETE", "LEFT_ALT", "RIGHT_ALT", "LEFT_SHIFT",
    "RIGHT_SHIFT", "LEFT_CTRL", "RIGHT_CTRL", "TICK", "BACKTICK", "COMMA",
    "SEMICOLON", "LEFT_BRACKET", "RIGHT_BRACKET", "LEFT_SQUARE_BRACKET",
    "RIGHT_SQUARE_BRACKET", "LEFT_SQUIGLE_BRACKET", "RIGHT_SQUIGLE_BRACKET",
    "BACKSLASH", "SLASH", "DOT", "EQUAL", "MINUS", "PLUS", "ASTERISK", "0",
    "1", "2", "3", "4", "5", "6", "7", "8", "9", "CAPS_LOCK", "SCROLL_LOCK",
    "NUM_LOCK", "KEYPAD_DOT", "KEYPAD_EQUAL", "KEYPAD_MINUS", "KEYPAD_PLUS",
    "KEYPAD_ASTERISK", "KEYPAD_ENTER", "KEYPAD_0", "KEYPAD_1", "KEYPAD_2",
    "KEYPAD_3", "KEYPAD_4", "KEYPAD_5", "KEYPAD_6", "KEYPAD_7", "KEYPAD_8",
    "KEYPAD_9", "A", "B", "C", "D", "E", "F", "G", "H", "I", "J", "K", "L",
    "M", "N", "O", "P", "Q", "R", "S", "T", "U", "V", "W", "X", "Y", "Z",
    "WWW_SEARCH", "WWW_FAVOURITES", "WWW_REFRESH", "WWW_STOP", "WWW_FORWARD",
    "WWW_BACK", "WWW_HOME", "PREVIOUS_TRACK", "NEXT_TRACK", "VOLUME_DOWN",
    "VOLUME_UP", "PLAY_PAUSE", "STOP", "MUTE", "MEDIA_SELECT", "RIGHT_GUI",
    "LEFT_GUI", "CALCULATOR", "MY_COMPUTER", "EMAIL", "APPS", "POWER",
    "SLEEP", "WAKE", "PRINT_SCREEN", "PAUSE">>
KEYCODES_AMOUNT == Len(keycodes)
Keycode == ToSet(keycodes)
Number(k) == Place(keycodes, k) - 1
Keystroke == [keycode : Keycode, pressed : BOOLEAN]

-----------------------------------------------------------------------------
(* keycodes_data, in groups; a key in no group has no character.           *)

Characters(keys, chars) ==
    [k \in ToSet(keys) |-> chars[Place(keys, k)]]

Whitespace == Characters(<<"SPACE", "ENTER">>, <<" ", "\n">>)
Symbols ==
    Characters(
        <<"TICK", "BACKTICK", "COMMA", "SEMICOLON", "LEFT_BRACKET",
          "RIGHT_BRACKET", "LEFT_SQUARE_BRACKET", "RIGHT_SQUARE_BRACKET",
          "LEFT_SQUIGLE_BRACKET", "RIGHT_SQUIGLE_BRACKET", "BACKSLASH",
          "SLASH", "DOT", "EQUAL", "MINUS", "PLUS", "ASTERISK">>,
        <<"'", "grave", ",", ";", "(", ")", "[", "]", "{", "}", "\\", "/", ".",
          "=", "-", "+", "*">>)
DigitChars == <<"0", "1", "2", "3", "4", "5", "6", "7", "8", "9">>
Digits == Characters(DigitChars, DigitChars)
Keypad ==
    Characters(
        <<"KEYPAD_DOT", "KEYPAD_EQUAL", "KEYPAD_MINUS", "KEYPAD_PLUS",
          "KEYPAD_ASTERISK">> \o [i \in 1..10 |-> keycodes[Place(keycodes, "KEYPAD_0") + i - 1]],
        <<".", "=", "-", "+", "*">> \o DigitChars)
LetterChars ==
    <<"a", "b", "c", "d", "e", "f", "g", "h", "i", "j", "k", "l", "m",
      "n", "o", "p", "q", "r", "s", "t", "u", "v", "w", "x", "y", "z">>
Letters ==
    Characters([i \in 1..26 |-> keycodes[Place(keycodes, "A") + i - 1]],
               LetterChars)

ascii == Whitespace @@ Symbols @@ Digits @@ Keypad @@ Letters

-----------------------------------------------------------------------------
HexDigits == DigitChars \o <<"A", "B", "C", "D", "E", "F">>
print_hex8(n) == <<HexDigits[(n \div 16) + 1], HexDigits[(n % 16) + 1]>>

Outcome(pressed) == IF pressed THEN <<"pressed">> ELSE <<"released">>

\* Mutation: ENTER's character is printed as it is.
declare_keystroke_Raw(ks) ==
    <<"\n", "keycode ">> \o print_hex8(Number(ks.keycode)) \o
    (IF ks.keycode \in DOMAIN ascii THEN <<" ('", ascii[ks.keycode], "') ">>
                                    ELSE <<"       ">>) \o
    Outcome(ks.pressed)

declare_keystroke(ks) ==
    <<"\n", "keycode ">> \o print_hex8(Number(ks.keycode)) \o
    (IF ks.keycode \in DOMAIN ascii
     THEN <<" ('", IF ascii[ks.keycode] = "\n" THEN "\\n" ELSE ascii[ks.keycode], "') ">>
     ELSE <<"       ">>) \o
    Outcome(ks.pressed)
=============================================================================
