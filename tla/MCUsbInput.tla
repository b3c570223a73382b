----------------------------- MODULE MCUsbInput -----------------------------
(***************************************************************************)
(* Small instances of UsbInput for TLC: a device is a keyboard, or a       *)
(* receiver with two mice.                                                 *)
(***************************************************************************)
EXTENDS UsbInput

MCModels == {<<"keyboard">>, <<"mouse", "mouse">>}
=============================================================================
