---------------------------- MODULE TextModeMC ----------------------------
(* An instance of TextMode: a complaint is a line of its own, a keystroke a *)
(* few characters.                                                          *)
EXTENDS TextMode

Chars == {"a", "\n", "\r"}
Texts == {<<"\n", "b">>, <<"b">>}
=============================================================================
