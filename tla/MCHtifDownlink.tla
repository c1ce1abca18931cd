---------------------------- MODULE MCHtifDownlink ----------------------------
(***************************************************************************)
(* Small instances of HtifDownlink.  The agent's messages contain the two  *)
(* bytes that have to be stuffed.                                          *)
(***************************************************************************)
EXTENDS HtifDownlink

\* CRC16-CCITT's published check value, over the ASCII digits 1 to 9.
ASSUME CrcCheckValue == crc16_ccitt([i \in 1 .. 9 |-> 48 + i]) = 10673

Messages == {<<FLAG>>, <<ESC, 0, 5>>}
=============================================================================
