---------------------------- MODULE MiniDbReader ----------------------------
(***************************************************************************)
(* The cached read-only instance of a shard that another process writes    *)
(* (minidb/src/cluster/lock-pool.ts, withReader): every read compares the  *)
(* fingerprint of the shard's files with the one stored beside the cached  *)
(* instance and, when they differ, applies the appended frames or opens    *)
(* the shard anew.                                                         *)
(*                                                                         *)
(* A fingerprint is mtime and size of each file: here which db.wal it is   *)
(* and how long, and which db.snapshot.                                    *)
(***************************************************************************)
EXTENDS MiniDb

CONSTANT MaxReads     \* bound: reads

ASSUME ReaderAssumption == MaxReads \in Nat

(* pc, the cached instance (data; gen and off, its WAL mark; fp) and the   *)
(* read (parts, need, reads).  torn is history: the instance was opened    *)
(* with the snapshot from before a swap of db.wal and the log from after.  *)
VARIABLE reader
vars == <<dbVars, reader>>

Fingerprint == [wal |-> <<walGen, Len(file)>>, snap |-> snapGen]
NoFingerprint == [wal |-> << >>, snap |-> -1]

ReaderInit ==
  reader = [pc |-> "idle", data |-> Empty, gen |-> 0, off |-> 0, fp |-> NoFingerprint,
            torn |-> FALSE, parts |-> NoFingerprint, need |-> 0, reads |-> 0]

Goto(label) == [reader EXCEPT !.pc = label]

(* acquireReader, refreshReader: `parts` are read before anything else.    *)
(* (Reads that come during a refresh share its result: not followed.)      *)
beginRead ==
  /\ reader.pc = "idle" /\ reader.reads < MaxReads
  /\ reader' = [Goto(CASE reader.fp = Fingerprint -> "serve"
                       [] reader.fp # Fingerprint /\ reader.fp.snap = snapGen -> "catchUp"
                       [] OTHER -> "snapshot")
                  EXCEPT !.parts = Fingerprint, !.need = LastAcked, !.reads = @ + 1]
  /\ UNCHANGED dbVars

(* catchUpWal scans strictly: it stops at the first torn frame. *)
CleanEnd == Max({n \in reader.off..Len(file) : \A i \in reader.off + 1..n : file[i] # Torn})

(* Frames appended to the same file are applied; the stored fingerprint is *)
(* the one taken before.  A file that was swapped or cut is opened anew.   *)
tryCatchUpReader ==
  /\ reader.pc = "catchUp"
  /\ reader' = IF reader.gen # walGen \/ Len(file) < reader.off THEN Goto("snapshot")
               ELSE [Goto("serve") EXCEPT
                       !.data = FoldLeft(Replayed, @, SubSeq(file, reader.off + 1, CleanEnd)),
                       !.off = CleanEnd, !.fp = reader.parts]
  /\ UNCHANGED dbVars

(* openReader: recover() reads the snapshot (gen is no mark until openWal  *)
(* sets it: here it remembers which db.wal belongs to this snapshot) ...   *)
openSnapshot ==
  /\ reader.pc = "snapshot"
  /\ reader' = [Goto("wal") EXCEPT !.data = View(snapshot), !.gen = walGen]
  /\ UNCHANGED dbVars

\* Mutant: the records of the snapshot win over the log.
openWal_SnapshotWins ==
  /\ reader.pc = "wal"
  /\ reader' = [Goto("stamp") EXCEPT
                  !.data = [k \in Key |-> IF @[k] # 0 THEN @[k]
                                          ELSE FoldLeft(Replayed, Empty, file)[k]],
                  !.gen = walGen, !.off = Len(Truncated(file)),
                  !.torn = (reader.gen # walGen)]
  /\ UNCHANGED dbVars

(* ... and then whatever file db.wal is by now. *)
openWal ==
  /\ reader.pc = "wal"
  /\ reader' = [Goto("stamp") EXCEPT !.data = FoldLeft(Replayed, @, file),
                                     !.gen = walGen, !.off = Len(Truncated(file)),
                                     !.torn = (reader.gen # walGen)]
  /\ UNCHANGED dbVars

(* The fingerprint is taken when the instance is open. *)
stamp ==
  /\ reader.pc = "stamp"
  /\ reader' = [Goto("serve") EXCEPT !.fp = Fingerprint]
  /\ UNCHANGED dbVars

serve ==
  /\ reader.pc = "serve"
  /\ reader' = [Goto("idle") EXCEPT !.parts = NoFingerprint, !.need = 0]
  /\ UNCHANGED dbVars

Read ==
  \/ beginRead \/ tryCatchUpReader \/ openSnapshot \/ openWal \/ stamp \/ serve

(* The writer's process goes on, or dies and is restarted; a power failure *)
(* would end the reader too and is left to the runs of MiniDb.             *)
Write ==
  /\ Writers \/ Compaction \/ kill
  /\ UNCHANGED reader

(* I/O completes and awaits return: flushes, the rotation and a read under *)
(* way go on.  Nobody has to write, compact, read or die.                  *)
Fairness ==
  /\ WF_vars((flushStart \/ flushFrame \/ flushEnd) /\ UNCHANGED reader)
  /\ WF_vars(Rotation /\ Write)
  /\ \A n \in 1..MaxOps :
       WF_vars(n \in Op /\ (passGate(n) \/ commit(n) \/ commitSealed(n)) /\ UNCHANGED reader)
  /\ WF_vars(openWal)

Init == DbInit /\ ReaderInit
Spec == Init /\ [][Write \/ Read]_vars /\ Fairness

-----------------------------------------------------------------------------
(* withReader: what a read sees is the store as it was after some first    *)
(* part of the committed operations (as long as no write of the log has    *)
(* failed), however reader and writer interleave, with one exception: a    *)
(* rotation that replaced db.wal between the two reads of an open.  The    *)
(* next open ends it.                                                      *)
ReadsAPrefix ==
  reader.pc = "serve" /\ failures = 0 /\ ~reader.torn => View(reader.data) \in StatesFrom(0)

(* lock-pool.ts: "a read that starts after another process's write         *)
(* resolved always observes it".                                           *)
ReadsAcked ==
  reader.pc = "serve" /\ failures = 0 => View(reader.data) \in StatesFrom(reader.need)

(* The comment on the retries of an open (lock-pool.ts:304-305) has it     *)
(* that a rotation makes it fail; what it serves if it does not fail:      *)
NoOpenIsTorn ==
  reader.pc = "serve" /\ failures = 0 => View(reader.data) \in StatesFrom(0)
=============================================================================
