-------------------------- MODULE MCToolScheduler ---------------------------
(* Instance of ToolScheduler for TLC: two spellings of one directory name, *)
(* a file below it and the root directory.                                 *)
EXTENDS ToolScheduler

MCName == {"src", "SRC", "a"}
MCToLowerCase == [n \in MCName |-> IF n = "SRC" THEN "src" ELSE n]

Root == <<"/">>
Src == <<"/", "src">>
SrcShout == <<"\\", "SRC", "/", "/">>
SrcA == <<"/", "src", "\\", "a">>
A == <<"/", "a", "/">>

MCAccessLists ==
  { none, all,
    file("read", SrcA, FALSE),
    file("write", SrcA, FALSE),
    file("search", SrcShout, TRUE),
    file("search", Root, TRUE),
    file("readwrite", A, FALSE),
    file("write", Src, TRUE) }
=============================================================================
