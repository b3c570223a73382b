----------------------------- MODULE MCInputPath -----------------------------
(***************************************************************************)
(* Small instances of InputPath for TLC.                                   *)
(***************************************************************************)
EXTENDS InputPath

Only(kinds) == [s \in Source |-> IF s = 0 THEN kinds ELSE {}]

\* One keyboard, on USB or wireless, with two computers.
Keyboard == [slots |-> 2, attached |-> Only({"keyboard"}), edges |-> FALSE]
Wireless == [Keyboard EXCEPT !.attached =
                [s \in Source |-> IF s = 0 THEN {} ELSE {"keyboard"}]]

\* A USB and a wireless keyboard with one computer.
Sharing == [slots |-> 1, attached |-> [s \in Source |-> {"keyboard"}], edges |-> FALSE]

\* A mouse with a companion and two computers.
Mouse == [slots |-> 2, attached |-> Only({"mouse"}), edges |-> TRUE]

\* A keyboard and a mouse used together, with one computer.
Chords == [slots |-> 1, attached |-> Only(Kind), edges |-> FALSE]

AllSetups == {Keyboard, Wireless, Sharing, Mouse, Chords}
KeyboardSetups == {Keyboard}
SharingSetups == {Sharing}
=============================================================================
