--------------------------- MODULE MCToolCallStep ---------------------------
(* Instances of ToolCallStep for TLC.  Keys name a tool with its arguments. *)
EXTENDS ToolCallStep

MCName == {"a"}
MCToLowerCase == [n \in MCName |-> n]
A == <<"/", "a">>

MCAccessLists == {file("read", A, FALSE), file("write", A, FALSE), all}
MCAccessOf ==
  [k \in Key |->
     CASE k = "read"   -> file("read", A, FALSE)
       [] k = "search" -> file("read", A, FALSE)
       [] k = "edit"   -> file("write", A, FALSE)
       [] OTHER        -> all]
=============================================================================
