---------------------------- MODULE MCOutputPath ----------------------------
(* OutputPath for TLC: two writers, one of which writes a malformed packet.  *)
EXTENDS OutputPath, TLC

CONSTANTS w1, w2

TheWriters == {w1, w2}
TheMalformed == {<<w1, 2>>}
=============================================================================
