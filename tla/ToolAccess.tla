----------------------------- MODULE ToolAccess -----------------------------
(***************************************************************************)
(* The resource accesses a tool call declares and the conflict relation    *)
(* between two access lists (loop/tool-access.ts).                         *)
(*                                                                         *)
(* A path is a sequence of tokens: the separators "/" and "\" and the      *)
(* names between them.  A name stands for a spelling, and toLowerCase maps *)
(* it to its folded spelling.  An access list is a set of accesses, since  *)
(* the code only asks whether SOME pair of accesses conflicts.             *)
(***************************************************************************)
EXTENDS Naturals, Sequences, SequencesExt

CONSTANTS
  Name,         \* the spellings of a file or directory name
  toLowerCase,  \* the function String.prototype.toLowerCase on Name
  AccessLists   \* the access lists the tools of the instance declare

Slash == "/"
Backslash == "\\"

(* Folding a folded name changes nothing, and no name is a separator. *)
ASSUME ToLowerCaseAssumption ==
  /\ toLowerCase \in [Name -> Name]
  /\ \A n \in Name : toLowerCase[toLowerCase[n]] = toLowerCase[n]
  /\ Slash \notin Name /\ Backslash \notin Name

ToolFileAccessOperation == {"read", "write", "readwrite", "search"}

(* A path is not empty and has a separator between any two names. *)
IsPath(path) ==
  /\ path \in Seq(Name \cup {Slash, Backslash})
  /\ path # << >>
  /\ \A i \in 1..(Len(path) - 1) : path[i] \in Name => path[i + 1] \notin Name

(* The tools declare canonical paths (resolvePathAccessPath), so all are   *)
(* absolute: they begin with a separator or, on win32, with a drive.       *)
ASSUME AccessListsAssumption ==
  /\ \A a \in UNION AccessLists :
       a.kind = "all" \/ (a.kind = "file" /\ IsPath(a.path))
  /\ \A a, b \in UNION AccessLists :
       a.kind = "file" /\ b.kind = "file" => (a.path[1] \in Name <=> b.path[1] \in Name)

---------------------------------------------------------------------------
(* normalizePath: both separators become "/", runs of separators become    *)
(* one, names are folded and a trailing separator goes unless it is alone. *)

Collapse(acc, token) ==
  IF token = Slash /\ acc # << >> /\ Last(acc) = Slash
    THEN acc
    ELSE Append(acc, token)

CollapseSlashes(path) == FoldLeft(Collapse, << >>, path)

FoldToken(token) == IF token \in Name THEN toLowerCase[token] ELSE Slash

\* Mutant: the spelling of the names is kept.
normalizePath_CaseSensitive(path) ==
  LET kept == CollapseSlashes([i \in DOMAIN path |->
                                IF path[i] \in Name THEN path[i] ELSE Slash])
  IN  IF Len(kept) > 1 /\ Last(kept) = Slash THEN Front(kept) ELSE kept

normalizePath(path) ==
  LET folded == CollapseSlashes([i \in DOMAIN path |-> FoldToken(path[i])])
  IN  IF Len(folded) > 1 /\ Last(folded) = Slash THEN Front(folded) ELSE folded

(* A directory's prefix: the normalized path with exactly one "/" behind it. *)
PathPrefix(normalized) ==
  IF normalized # << >> /\ Last(normalized) = Slash
    THEN normalized
    ELSE Append(normalized, Slash)

fileAccessesOverlap(left, right) ==
  LET leftPath  == normalizePath(left.path)
      rightPath == normalizePath(right.path)
  IN  \/ leftPath = rightPath
      \/ left.recursive /\ IsPrefix(PathPrefix(leftPath), rightPath)
      \/ right.recursive /\ IsPrefix(PathPrefix(rightPath), leftPath)

fileOperationWrites(operation) == operation \in {"write", "readwrite"}

fileOperationsConflict(left, right) ==
  fileOperationWrites(left) \/ fileOperationWrites(right)

resourceAccessesConflict(left, right) ==
  \/ left.kind = "all"
  \/ right.kind = "all"
  \/ /\ fileOperationsConflict(left.operation, right.operation)
     /\ fileAccessesOverlap(left, right)

(* ToolAccesses.conflict *)
conflict(left, right) ==
  \E l \in left : \E r \in right : resourceAccessesConflict(l, r)

(* The conflicting pairs of access lists, computed once. *)
Conflicts == {pair \in AccessLists \X AccessLists : conflict(pair[1], pair[2])}

(* The constructors the builtin tools use. *)
none == {}
all == {[kind |-> "all"]}
file(operation, path, recursive) ==
  {[kind |-> "file", operation |-> operation, path |-> path,
    recursive |-> recursive]}

---------------------------------------------------------------------------
(* Reference: what an access MEANS, independent of the string work above.  *)
(* A file is the sequence of the folded names on the way to it; an access  *)
(* touches its own file and, when recursive, everything below it.          *)

Named(names, token) ==
  IF token \in Name THEN Append(names, toLowerCase[token]) ELSE names

FileOf(path) == FoldLeft(Named, << >>, path)

Touches(access, f) ==
  \/ access.kind = "all"
  \/ f = FileOf(access.path)
  \/ access.recursive /\ IsPrefix(FileOf(access.path), f)

Writes(access) == access.kind = "all" \/ access.operation \in {"write", "readwrite"}

(* The files the instance talks about: the longer of two overlapping paths *)
(* is always among them, so they decide whether two accesses share a file. *)
FileUniverse ==
  {FileOf(a.path) : a \in {b \in UNION AccessLists : b.kind = "file"}} \cup {<< >>}

(* Two access lists share a file that one of them may change. *)
SharesWrittenFile(left, right) ==
  \E l \in left, r \in right :
    /\ Writes(l) \/ Writes(r)
    /\ \E f \in FileUniverse : Touches(l, f) /\ Touches(r, f)

SharedWrites ==
  {pair \in AccessLists \X AccessLists : SharesWrittenFile(pair[1], pair[2])}
=============================================================================
