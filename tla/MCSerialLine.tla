---------------------------- MODULE MCSerialLine ----------------------------
(* SerialLine for TLC: four messages of one and two bytes.                   *)
EXTENDS SerialLine

TheLengths == <<1, 2, 1, 2>>
=============================================================================
