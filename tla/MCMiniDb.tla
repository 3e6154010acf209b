------------------------------ MODULE MCMiniDb ------------------------------
(* Instances of MiniDb for TLC. *)
EXTENDS MiniDb

W(a, b) == [k \in Key |-> IF k = "a" THEN a ELSE b]
\* set("a"), set("b"), del("a"), batch([set a, set b]).
MCWrites == {W("set", "keep"), W("keep", "set"), W("del", "keep"), W("set", "set")}
\* set("a"), batch([set a, set b]), enough for a read that sees half a batch.
MCFewWrites == {W("set", "keep"), W("set", "set")}
\* Sets and deletes of every key.
MCSetOrDel == [Key -> {"set", "del"}]
=============================================================================
