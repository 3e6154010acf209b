--------------------------- MODULE MCMiniDbReader ---------------------------
(* Instances of MiniDbReader for TLC. *)
EXTENDS MiniDbReader, MCMiniDb
=============================================================================
