--------------------------- MODULE ScancodeTables ---------------------------
(***************************************************************************)
(* The scancode tables of ps2k_scancodes.c.  An entry that does not exist  *)
(* is left out; E0 33 exists without a keycode, which makes it the first   *)
(* one of the enumeration, F1.                                             *)
(***************************************************************************)
EXTENDS Integers, Sequences

LookupTable(entries) ==
    [c \in {e[1] : e \in entries} |->
        LET entry == CHOOSE e \in entries : e[1] = c IN entry[2]]

set2_lookup_table == LookupTable({
    <<\h01, "F9">>, <<\h03, "F5">>, <<\h04, "F3">>, <<\h05, "F1">>,
    <<\h06, "F2">>, <<\h07, "F12">>, <<\h09, "F10">>, <<\h0A, "F8">>,
    <<\h0B, "F6">>, <<\h0C, "F4">>, <<\h0D, "TAB">>, <<\h0E, "BACKTICK">>,
    <<\h11, "LEFT_ALT">>, <<\h12, "LEFT_SHIFT">>, <<\h14, "LEFT_CTRL">>,
    <<\h15, "Q">>, <<\h16, "1">>, <<\h1A, "Z">>, <<\h1B, "S">>, <<\h1C, "A">>,
    <<\h1D, "W">>, <<\h1E, "2">>, <<\h21, "C">>, <<\h22, "X">>, <<\h23, "D">>,
    <<\h24, "E">>, <<\h25, "4">>, <<\h26, "3">>, <<\h29, "SPACE">>,
    <<\h2A, "V">>, <<\h2B, "F">>, <<\h2C, "T">>, <<\h2D, "R">>, <<\h2E, "5">>,
    <<\h31, "N">>, <<\h32, "B">>, <<\h33, "H">>, <<\h34, "G">>, <<\h35, "Y">>,
    <<\h36, "6">>, <<\h3A, "M">>, <<\h3B, "J">>, <<\h3C, "U">>, <<\h3D, "7">>,
    <<\h3E, "8">>, <<\h41, "DOT">>, <<\h42, "K">>, <<\h43, "I">>,
    <<\h44, "O">>, <<\h45, "0">>, <<\h46, "9">>, <<\h49, "DOT">>,
    <<\h4A, "SLASH">>, <<\h4B, "L">>, <<\h4C, "SEMICOLON">>, <<\h4D, "P">>,
    <<\h4E, "MINUS">>, <<\h52, "TICK">>, <<\h54, "LEFT_SQUARE_BRACKET">>,
    <<\h55, "EQUAL">>, <<\h58, "CAPS_LOCK">>, <<\h59, "RIGHT_SHIFT">>,
    <<\h5A, "ENTER">>, <<\h5B, "RIGHT_SQUARE_BRACKET">>,
    <<\h5D, "BACKSLASH">>, <<\h66, "BACKSPACE">>, <<\h69, "KEYPAD_1">>,
    <<\h6B, "KEYPAD_4">>, <<\h6C, "KEYPAD_7">>, <<\h70, "KEYPAD_0">>,
    <<\h71, "KEYPAD_DOT">>, <<\h72, "KEYPAD_2">>, <<\h73, "KEYPAD_5">>,
    <<\h74, "KEYPAD_6">>, <<\h75, "KEYPAD_8">>, <<\h76, "ESCAPE">>,
    <<\h77, "NUM_LOCK">>, <<\h78, "F11">>, <<\h79, "KEYPAD_PLUS">>,
    <<\h7A, "KEYPAD_3">>, <<\h7B, "KEYPAD_MINUS">>,
    <<\h7C, "KEYPAD_ASTERISK">>, <<\h7D, "KEYPAD_9">>,
    <<\h7E, "SCROLL_LOCK">>, <<\h83, "F7">>})

set2_extended_lookup_table == LookupTable({
    <<\h10, "WWW_SEARCH">>, <<\h11, "RIGHT_ALT">>, <<\h14, "RIGHT_CTRL">>,
    <<\h15, "PREVIOUS_TRACK">>, <<\h18, "WWW_FAVOURITES">>,
    <<\h1F, "LEFT_GUI">>, <<\h20, "WWW_REFRESH">>, <<\h21, "VOLUME_DOWN">>,
    <<\h23, "MUTE">>, <<\h27, "RIGHT_GUI">>, <<\h28, "WWW_STOP">>,
    <<\h2B, "CALCULATOR">>, <<\h2F, "APPS">>, <<\h30, "WWW_FORWARD">>,
    <<\h33, "F1">>, <<\h34, "PLAY_PAUSE">>, <<\h37, "POWER">>,
    <<\h38, "WWW_BACK">>, <<\h3A, "WWW_HOME">>, <<\h3B, "STOP">>,
    <<\h3F, "SLEEP">>, <<\h40, "MY_COMPUTER">>, <<\h48, "EMAIL">>,
    <<\h4A, "MEDIA_SELECT">>, <<\h4D, "NEXT_TRACK">>,
    <<\h50, "MEDIA_SELECT">>, <<\h5A, "KEYPAD_ENTER">>, <<\h5E, "WAKE">>,
    <<\h69, "END">>, <<\h6B, "CURSOR_LEFT">>, <<\h6C, "HOME">>,
    <<\h70, "INSERT">>, <<\h71, "DELETE">>, <<\h72, "CURSOR_DOWN">>,
    <<\h74, "CURSOR_RIGHT">>, <<\h75, "CURSOR_UP">>, <<\h7A, "PAGE_DOWN">>,
    <<\h7D, "PAGE_UP">>})

kc_print_pressed_sequence == <<\hE0, \h12, \hE0, \h7C>>
kc_print_released_sequence == <<\hE0, \hF0, \h7C, \hE0, \hF0, \h12>>
kc_pause_sequence ==
    <<\hE1, \h14, \h77, \hE1, \hF0, \h14, \hF0, \h77>>

\* A match declares the key pressed, released, or first one and then the
\* other.
set2_matching_list == <<
    [sequence |-> kc_print_pressed_sequence, keycode |-> "PRINT_SCREEN",
     pressed |-> TRUE, released |-> FALSE],
    [sequence |-> kc_print_released_sequence, keycode |-> "PRINT_SCREEN",
     pressed |-> FALSE, released |-> TRUE],
    [sequence |-> kc_pause_sequence, keycode |-> "PAUSE",
     pressed |-> TRUE, released |-> TRUE]>>
=============================================================================
