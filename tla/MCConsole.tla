------------------------------ MODULE MCConsole ------------------------------
(***************************************************************************)
(* Console with every kind of key.                                         *)
(***************************************************************************)
EXTENDS Console

MCKeys == {"nul", "a", "C", "D", "bs", "etx", "esc", "cr"}
=============================================================================
