---------------------------- MODULE MCSerialLine -----------------------------
(***************************************************************************)
(* A buffer of a few bytes: long enough for a line to be erased to any     *)
(* length, retyped and overrun.                                            *)
(***************************************************************************)
EXTENDS SerialLine
=============================================================================
