------------------------------ MODULE MCSerialHil ------------------------------
(***************************************************************************)
(* Which firmware is run with which host script.                           *)
(***************************************************************************)
EXTENDS SerialHil

Checked == {<<"binary", "console">>, <<"echo", "console">>, <<"echo", "hil">>}
Flown   == {<<"binary", "hil">>}
=============================================================================
