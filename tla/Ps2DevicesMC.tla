---------------------------- MODULE Ps2DevicesMC ----------------------------
(* Values for the runs of Ps2Devices.                                      *)
EXTENDS Ps2Devices

\* An MF2 keyboard, with and without the second byte of its id (the wait for
\* that byte gives up as a rule, see Ps2Port), and a standard mouse.
Keyboard == [long |-> FALSE, id |-> <<171, 0>>]
LongKeyboard == [long |-> TRUE, id |-> <<171, 131>>]
Mouse == [long |-> FALSE, id |-> <<0, 0>>]
Keyboards == {Keyboard}
Devices == {Keyboard, LongKeyboard, Mouse}

\* ps2k_device_driver, the one driver of the repository.
KeyboardDriver == <<[long |-> FALSE, id |-> <<171, 0>>]>>
=============================================================================
