------------------------------- MODULE MiniDb -------------------------------
(***************************************************************************)
(* The storage engine of minidb in one process (minidb/src/index.ts,       *)
(* wal.ts, snapshot.ts, compaction.ts, recovery.ts): writes go to an       *)
(* in-memory store and a write-ahead log with group commit; a compaction   *)
(* writes a snapshot beside them and swaps both files; recovery loads the  *)
(* snapshot and replays the log.                                           *)
(*                                                                         *)
(* An operation is a set() or del() of one key or a batch(), numbered in   *)
(* the order of the calls; the value a set stores is its number, and 0 is  *)
(* no record.  A frame is the number of its operation, or Torn for what    *)
(* is left of a frame whose write failed.  Byte offsets are counted in     *)
(* frames.                                                                 *)
(***************************************************************************)
EXTENDS Naturals, Sequences, SequencesExt, FiniteSets

CONSTANTS
  Key,
  Writes,           \* the operations clients issue: [Key -> "keep" | "set" | "del"]
  Policies,         \* fsync policies: "always", "everysec"
  MaxOps,           \* bound: operations
  MaxExpired,       \* bound: operations with a TTL that elapses
  MaxCompactions,   \* bound: compactions
  MaxWriteFaults,   \* bound: WAL writes that fail
  MaxAborts,        \* bound: compactions that fail
  MaxCrashes        \* bound: crashes and power losses

ASSUME MiniDbAssumption ==
  /\ Writes \subseteq [Key -> {"keep", "set", "del"}]
  /\ Policies \subseteq {"always", "everysec"}
  /\ {MaxOps, MaxExpired, MaxCompactions, MaxWriteFaults, MaxAborts, MaxCrashes} \subseteq Nat

VARIABLES
  ops,        \* what each operation writes
  status,     \* where each operation is
  prev,       \* the records each operation overwrote
  store,      \* Store.map
  own,        \* keys whose record still has the seq its operation gave it
  expired,    \* sets whose TTL has elapsed
  policy,     \* fsyncPolicy
  queue,      \* WAL.queue
  inflight,   \* the batch of the flush under way
  landed,     \* how many of its frames are in the file
  file,       \* frames of db.wal
  synced,     \* how many of them are fsynced
  sealed,     \* the WAL is sealed or closed: appends are rejected
  snapshot,   \* db.snapshot
  oldSnap, oldWal,   \* what a rename replaced, until the directory is fsynced
  walGen, snapGen,   \* which db.wal and db.snapshot these are
  comp,       \* the compaction: phase, base, snap, todo, tail, copied
  rotateLock,
  base,       \* the store as recovered after the last power failure
  log,        \* operations appended since, in order
  failures,   \* WAL writes that failed
  aborts,     \* compactions that failed
  crashes

opVars == <<ops, status, prev, expired>>
memVars == <<store, own>>
walVars == <<queue, inflight, landed, sealed>>
diskVars == <<file, synced, snapshot, oldSnap, oldWal, walGen, snapGen>>
ghostVars == <<base, log, failures, aborts, crashes>>
dbVars == <<opVars, memVars, walVars, diskVars, comp, rotateLock, policy, ghostVars>>

Empty == [k \in Key |-> 0]
Torn == 0
NoCompaction == [phase |-> "none", base |-> 0, snap |-> Empty, todo |-> {},
                 tail |-> << >>, copied |-> 0, count |-> 0]
Op == 1..Len(ops)

(* What a reader of the store sees: an elapsed TTL hides the record. *)
View(st) == [k \in Key |-> IF st[k] \in expired THEN 0 ELSE st[k]]

(* applyOp on the store. *)
Applied(st, n) ==
  [k \in Key |-> CASE ops[n][k] = "set" -> n
                   [] ops[n][k] = "del" -> 0
                   [] OTHER -> st[k]]

(* frameToOps and applyFrames: a set whose TTL has elapsed deletes; a torn *)
(* frame is skipped (resync).                                              *)
Replayed(st, n) ==
  IF n = Torn THEN st
  ELSE [k \in Key |-> IF ops[n][k] = "set" /\ n \in expired THEN 0
                      ELSE Applied(st, n)[k]]

(* recover(): the snapshot, then the log on top of it. *)
recover(snap, wal) == FoldLeft(Replayed, View(snap), wal)

DbInit ==
  /\ ops = << >> /\ status = << >> /\ prev = << >> /\ expired = {}
  /\ store = Empty /\ own = {}
  /\ policy \in Policies
  /\ queue = << >> /\ inflight = << >> /\ landed = 0 /\ sealed = FALSE
  /\ file = << >> /\ synced = 0 /\ snapshot = Empty /\ oldSnap = {} /\ oldWal = {}
  /\ walGen = 0 /\ snapGen = 0
  /\ comp = NoCompaction /\ rotateLock = FALSE
  /\ base = Empty /\ log = << >> /\ failures = 0 /\ aborts = 0 /\ crashes = 0

-----------------------------------------------------------------------------
(* set(), del() or batch() is called. *)
issue(w) ==
  /\ Len(ops) < MaxOps
  /\ ops' = Append(ops, w)
  /\ status' = Append(status, "parked")
  /\ prev' = Append(prev, Empty)
  /\ UNCHANGED <<expired, memVars, walVars, diskVars, comp, rotateLock, policy, ghostVars>>

IsDel(n) ==
  \E k \in Key : ops[n][k] = "del" /\ \A j \in Key \ {k} : ops[n][j] = "keep"
SetStatus(n, s) == status' = [status EXCEPT ![n] = s]

(* Writers wait for a rotation before they prepare; a del() of a key that  *)
(* is not there is over, a batch() with that delete goes on.               *)
passGate(n) ==
  /\ status[n] = "parked" /\ ~rotateLock
  /\ \/ SetStatus(n, "gated")
     \/ /\ IsDel(n) /\ View(store) = View(Applied(store, n))
        /\ SetStatus(n, "done")
  /\ UNCHANGED <<ops, prev, expired, memVars, walVars, diskVars, comp, rotateLock,
                 policy, ghostVars>>

(* Keys added while the snapshot iterates over Store.map are visited too,  *)
(* deleted ones are not.                                                   *)
Todo(before, after) ==
  IF comp.phase # "snapshot" THEN comp.todo
  ELSE {k \in Key : after[k] # 0 /\ (k \in comp.todo \/ before[k] = 0)}

\* Mutant: the store is changed only when the frame has been written.
commit_AppendOnly(n) ==
  /\ status[n] \in {"gated", "retry"} /\ ~sealed
  /\ queue' = Append(queue, n) /\ log' = Append(log, n)
  /\ SetStatus(n, "pending")
  /\ prev' = [prev EXCEPT ![n] = View(store)]
  /\ UNCHANGED <<ops, expired, memVars, inflight, landed, sealed, diskVars, rotateLock, policy,
                 comp, base, failures, aborts, crashes>>

(* commit: the frame is queued and the store changed in one tick. *)
commit(n) ==
  /\ status[n] = "gated" \/ (status[n] = "retry" /\ ~rotateLock)
  /\ ~sealed
  /\ queue' = Append(queue, n) /\ log' = Append(log, n)
  /\ SetStatus(n, "pending")
  /\ prev' = [prev EXCEPT ![n] = View(store)]
  /\ store' = Applied(store, n)
  /\ own' = {k \in Key : IF ops[n][k] = "keep" THEN k \in own ELSE ops[n][k] = "set"}
  /\ comp' = [comp EXCEPT !.todo = Todo(store, Applied(store, n))]
  /\ UNCHANGED <<ops, expired, inflight, landed, sealed, diskVars, rotateLock, policy,
                 base, failures, aborts, crashes>>

(* retryOnWalSeal: a rotation began after the gate.  The append is         *)
(* refused, the change rolled back a microtask later, and the operation    *)
(* tries again after the rotation.                                         *)
commitSealed(n) ==
  /\ status[n] = "gated" /\ sealed
  /\ SetStatus(n, "retry")
  /\ store' = [k \in Key |-> IF ops[n][k] = "keep" THEN store[k] ELSE View(store)[k]]
  /\ own' = {k \in own : ops[n][k] = "keep"}
  /\ UNCHANGED <<ops, prev, expired, walVars, diskVars, comp, rotateLock, policy, ghostVars>>

(* A TTL elapses. *)
expire(n) ==
  /\ \E k \in Key : ops[n][k] = "set"
  /\ n \notin expired /\ Cardinality(expired) < MaxExpired
  /\ expired' = expired \cup {n}
  /\ UNCHANGED <<ops, status, prev, memVars, walVars, diskVars, comp, rotateLock,
                 policy, ghostVars>>

(* expireKey: whoever meets an elapsed record removes it. *)
reap(k) ==
  /\ store[k] \in expired
  /\ store' = [store EXCEPT ![k] = 0]
  /\ comp' = [comp EXCEPT !.todo = Todo(store, store')]
  /\ UNCHANGED <<opVars, own, walVars, diskVars, rotateLock, policy, ghostVars>>

-----------------------------------------------------------------------------
(* flushBatch takes everything queued; only one flush is under way. *)
flushStart ==
  /\ inflight = << >> /\ queue # << >>
  /\ inflight' = queue /\ queue' = << >>
  /\ UNCHANGED <<opVars, memVars, landed, sealed, diskVars, comp, rotateLock, policy, ghostVars>>

(* writev: the frames land in order. *)
flushFrame ==
  /\ landed < Len(inflight)
  /\ file' = Append(file, inflight[landed + 1]) /\ landed' = landed + 1
  /\ UNCHANGED <<opVars, memVars, queue, inflight, sealed, synced, snapshot, oldSnap, oldWal,
                 walGen, snapGen, comp, rotateLock, policy, ghostVars>>

StatusOf(batch, s) ==
  [n \in Op |-> IF n \in ToSet(batch) THEN s ELSE status[n]]

(* With "always" an fsync; then the writers are told. *)
flushEnd ==
  /\ inflight # << >> /\ landed = Len(inflight)
  /\ synced' = IF policy = "always" THEN Len(file) ELSE synced
  /\ inflight' = << >> /\ landed' = 0
  /\ status' = StatusOf(inflight, "acked")
  /\ UNCHANGED <<ops, prev, expired, memVars, queue, sealed, file, snapshot, oldSnap, oldWal,
                 walGen, snapGen, comp, rotateLock, policy, ghostVars>>

\* Mutant: records are rolled back although a later operation wrote them.
RestoreKeys_Unguarded(m, n) ==
  [ store |-> [k \in Key |-> IF ops[n][k] # "keep" THEN prev[n][k] ELSE m.store[k]],
    own   |-> {k \in m.own : ops[n][k] = "keep"} ]

(* restoreKey for every key of a rejected operation: only a record that    *)
(* is still the operation's own is rolled back.                            *)
RestoreKeys(m, n) ==
  LET Restored(k) ==
        \/ ops[n][k] = "set" /\ m.store[k] = n /\ k \in m.own
        \/ ops[n][k] = "del" /\ m.store[k] = 0
  IN  [ store |-> [k \in Key |-> IF Restored(k) THEN prev[n][k] ELSE m.store[k]],
        own   |-> {k \in m.own : ~Restored(k)} ]

(* The write fails, perhaps in the middle of a frame, or the fsync fails.  *)
(* The batch is rejected.                                                  *)
flushFails ==
  /\ inflight # << >> /\ failures < MaxWriteFaults
  /\ failures' = failures + 1
  /\ \/ landed < Len(inflight) /\ file' \in {file, Append(file, Torn)}
     \/ landed = Len(inflight) /\ policy = "always" /\ file' = file
  /\ inflight' = << >> /\ landed' = 0
  /\ status' = StatusOf(inflight, "failed")
  /\ LET m == FoldLeft(RestoreKeys, [store |-> store, own |-> own], inflight)
     IN  /\ store' = m.store /\ own' = m.own
         /\ comp' = [comp EXCEPT !.todo = Todo(store, m.store)]
  /\ UNCHANGED <<ops, prev, expired, queue, sealed, synced, snapshot, oldSnap, oldWal, walGen,
                 snapGen, rotateLock, policy, base, log, aborts, crashes>>

(* The once-a-second fsync. *)
syncTimer ==
  /\ policy = "everysec" /\ synced < Len(file)
  /\ synced' = Len(file)
  /\ UNCHANGED <<opVars, memVars, walVars, file, snapshot, oldSnap, oldWal, walGen, snapGen,
                 comp, rotateLock, policy, ghostVars>>

-----------------------------------------------------------------------------
Flushed == queue = << >> /\ inflight = << >>
Phase(p) == comp.phase = p
Gap == SubSeq(file, comp.copied + 1, Len(file))

compact ==
  /\ Phase("none") /\ comp.count < MaxCompactions
  /\ comp' = [NoCompaction EXCEPT !.phase = "fence", !.count = comp.count + 1]
  /\ UNCHANGED <<opVars, memVars, walVars, diskVars, rotateLock, policy, ghostVars>>

(* Phase 1: everything up to baseOffset is in the store. *)
fence ==
  /\ Phase("fence") /\ Flushed
  /\ comp' = [comp EXCEPT !.phase = "snapshot", !.base = Len(file), !.copied = Len(file),
                          !.todo = {k \in Key : store[k] # 0}]
  /\ UNCHANGED <<opVars, memVars, walVars, diskVars, rotateLock, policy, ghostVars>>

(* Phase 2: records are written one by one while writers go on. *)
snapshotKey(k) ==
  /\ Phase("snapshot") /\ k \in comp.todo
  /\ comp' = [comp EXCEPT !.snap[k] = View(store)[k], !.todo = @ \ {k}]
  /\ UNCHANGED <<opVars, memVars, walVars, diskVars, rotateLock, policy, ghostVars>>

snapshotWritten ==
  /\ Phase("snapshot") /\ comp.todo = {}
  /\ comp' = [comp EXCEPT !.phase = "precopy"]
  /\ UNCHANGED <<opVars, memVars, walVars, diskVars, rotateLock, policy, ghostVars>>

(* Phase 2.5: a pass of the pre-copy. *)
preCopy ==
  /\ Phase("precopy") /\ Flushed /\ Gap # << >>
  /\ comp' = [comp EXCEPT !.tail = @ \o Gap, !.copied = Len(file)]
  /\ UNCHANGED <<opVars, memVars, walVars, diskVars, rotateLock, policy, ghostVars>>

(* Phase 3 begins: the lock is set and the WAL sealed in one tick. *)
seal ==
  /\ Phase("precopy")
  /\ rotateLock' = TRUE /\ sealed' = TRUE
  /\ comp' = [comp EXCEPT !.phase = "drain"]
  /\ UNCHANGED <<opVars, memVars, queue, inflight, landed, diskVars, policy, ghostVars>>

(* The rest of the tail is copied; close() fsyncs the old WAL. *)
drainAndClose ==
  /\ Phase("drain") /\ Flushed
  /\ synced' = Len(file)
  /\ comp' = [comp EXCEPT !.tail = @ \o Gap, !.copied = Len(file), !.phase = "renameSnap"]
  /\ UNCHANGED <<opVars, memVars, walVars, file, snapshot, oldSnap, oldWal, walGen, snapGen,
                 rotateLock, policy, ghostVars>>

renameSnapshot ==
  /\ Phase("renameSnap")
  /\ snapshot' = comp.snap /\ oldSnap' = {snapshot} /\ snapGen' = snapGen + 1
  /\ comp' = [comp EXCEPT !.phase = "syncSnap"]
  /\ UNCHANGED <<opVars, memVars, walVars, file, synced, oldWal, walGen, rotateLock,
                 policy, ghostVars>>

\* Mutant: the directory is not fsynced.
fsyncDir_Forgotten(from, to) ==
  /\ Phase(from)
  /\ UNCHANGED <<oldSnap, oldWal>>
  /\ comp' = [comp EXCEPT !.phase = to]
  /\ UNCHANGED <<opVars, memVars, walVars, file, synced, snapshot, walGen, snapGen,
                 rotateLock, policy, ghostVars>>

(* Best effort: it never throws. *)
fsyncDir(from, to) ==
  /\ Phase(from)
  /\ oldSnap' = {} /\ oldWal' = {}
  /\ comp' = [comp EXCEPT !.phase = to]
  /\ UNCHANGED <<opVars, memVars, walVars, file, synced, snapshot, walGen, snapGen,
                 rotateLock, policy, ghostVars>>

renameWal ==
  /\ Phase("renameWal")
  /\ file' = comp.tail /\ oldWal' = {file} /\ walGen' = walGen + 1
  /\ synced' = Len(comp.tail)
  /\ comp' = [comp EXCEPT !.phase = "syncWal"]
  /\ UNCHANGED <<opVars, memVars, walVars, snapshot, oldSnap, snapGen, rotateLock, policy,
                 ghostVars>>

(* A fresh WAL is opened on the new file and writers go on. *)
openFresh ==
  /\ Phase("open")
  /\ sealed' = FALSE /\ rotateLock' = FALSE
  /\ comp' = [NoCompaction EXCEPT !.count = comp.count]
  /\ UNCHANGED <<opVars, memVars, queue, inflight, landed, diskVars, policy, ghostVars>>

\* Mutant: the lock that parks writers is not released.
compactFails_KeepsLock ==
  /\ aborts < MaxAborts
  /\ \/ comp.phase \in {"snapshot", "precopy"}
     \/ comp.phase \in {"drain", "renameSnap", "renameWal", "open"} /\ Flushed
  /\ aborts' = aborts + 1
  /\ sealed' = FALSE
  /\ synced' = IF sealed THEN Len(file) ELSE synced
  /\ comp' = [NoCompaction EXCEPT !.count = comp.count]
  /\ UNCHANGED <<opVars, memVars, queue, inflight, landed, file, snapshot, oldSnap, oldWal, walGen,
                 snapGen, rotateLock, policy, base, log, failures, crashes>>

(* A step of the compaction fails.  Past the seal the catch closes the     *)
(* old WAL and opens a fresh one on whatever file the path names.          *)
compactFails ==
  /\ aborts < MaxAborts
  /\ \/ comp.phase \in {"snapshot", "precopy"}
     \/ comp.phase \in {"drain", "renameSnap", "renameWal", "open"} /\ Flushed
  /\ aborts' = aborts + 1
  /\ sealed' = FALSE /\ rotateLock' = FALSE
  /\ synced' = IF sealed THEN Len(file) ELSE synced
  /\ comp' = [NoCompaction EXCEPT !.count = comp.count]
  /\ UNCHANGED <<opVars, memVars, queue, inflight, landed, file, snapshot, oldSnap, oldWal, walGen,
                 snapGen, policy, base, log, failures, crashes>>

(* The blocking part, once it has begun. *)
Rotation ==
  \/ drainAndClose \/ renameSnapshot \/ fsyncDir("syncSnap", "renameWal")
  \/ renameWal \/ fsyncDir("syncWal", "open") \/ openFresh

Compaction ==
  \/ compact \/ fence \/ snapshotWritten \/ preCopy \/ seal \/ Rotation \/ compactFails
  \/ \E k \in Key : snapshotKey(k)

-----------------------------------------------------------------------------
(* What the disk may hold when the process dies now, and when power fails: *)
(* what was written but not fsynced may be lost, a rename may be undone.   *)
AfterKill == [snap |-> snapshot, wal |-> file]
AfterPowerLoss ==
  [snap : {snapshot} \cup oldSnap,
   wal  : {SubSeq(file, 1, n) : n \in synced..Len(file)} \cup oldWal]

(* recover() truncates a torn tail. *)
Truncated(wal) ==
  IF wal # << >> /\ Last(wal) = Torn THEN Front(wal) ELSE wal

(* MiniDb.open() on what is left: recovery, temporary files removed. *)
reopen(disk) ==
  /\ crashes < MaxCrashes
  /\ crashes' = crashes + 1
  /\ snapshot' = disk.snap /\ file' = Truncated(disk.wal)
  /\ store' = recover(disk.snap, disk.wal)
  /\ own' = {}
  /\ status' = [n \in Op |-> IF status[n] \in {"acked", "failed"} THEN status[n]
                            ELSE "lost"]
  /\ queue' = << >> /\ inflight' = << >> /\ landed' = 0 /\ sealed' = FALSE
  /\ comp' = [NoCompaction EXCEPT !.count = comp.count] /\ rotateLock' = FALSE
  /\ UNCHANGED <<ops, prev, expired, policy, walGen, snapGen, failures, aborts>>

(* The process dies: what it has written stays, fsynced or not. *)
kill ==
  /\ reopen(AfterKill)
  /\ synced' = Min({synced, Len(file')})
  /\ log' = SubSeq(log, 1, Len(log) - Len(queue) - Len(inflight) + landed)
  /\ UNCHANGED <<oldSnap, oldWal, base>>

powerLoss ==
  \E disk \in AfterPowerLoss :
    /\ reopen(disk)
    /\ synced' = Len(file')
    /\ oldSnap' = {} /\ oldWal' = {}
    /\ base' = store' /\ log' = << >>

Writers ==
  \/ \E w \in Writes : issue(w)
  \/ \E n \in Op : passGate(n) \/ commit(n) \/ commitSealed(n) \/ expire(n)
  \/ \E k \in Key : reap(k)
  \/ flushStart \/ flushFrame \/ flushEnd \/ flushFails \/ syncTimer

DbNext == Writers \/ Compaction \/ kill \/ powerLoss
DbSpec == DbInit /\ [][DbNext]_dbVars

-----------------------------------------------------------------------------
Acked == {i \in DOMAIN log : status[log[i]] = "acked"}

(* What a power failure may leave of the renames of the rotation under     *)
(* way; one that a killed process left behind is not covered (open() does  *)
(* not fsync it).                                                          *)
SnapRenamed == comp.phase \in {"syncSnap", "renameWal", "syncWal", "open"}
WalRenamed == comp.phase \in {"syncWal", "open"}
ProtectedDisks ==
  [snap : {snapshot} \cup IF SnapRenamed THEN oldSnap ELSE {},
   wal  : {SubSeq(file, 1, n) : n \in synced..Len(file)}
            \cup IF WalRenamed THEN oldWal ELSE {}]

(* What the store was after the first i or more of the committed           *)
(* operations.                                                             *)
StatesFrom(i) == {View(FoldLeft(Applied, base, SubSeq(log, 1, n))) : n \in i..Len(log)}
LastAcked == Max(Acked \cup {0})

(* compaction.ts, recovery.ts: as long as no write of the log has failed,  *)
(* recovery after a crash at any moment rebuilds the store as it was after *)
(* some first part of the committed operations, each of them whole, and    *)
(* that part has every acknowledged write (after a power failure: with     *)
(* fsyncPolicy "always").                                                  *)
RecoversAPrefix ==
  failures = 0 =>
    /\ recover(snapshot, file) \in StatesFrom(LastAcked)
    /\ \A d \in ProtectedDisks :
         recover(d.snap, d.wal) \in StatesFrom(IF policy = "always" THEN LastAcked ELSE 0)

Written(i, k) == ops[log[i]][k] # "keep"
ValueBy(i, k) == View(Applied(Empty, log[i]))[k]
NoFailedDel(k) == \A i \in DOMAIN log : status[log[i]] = "failed" => ops[log[i]][k] # "del"
CrashDisks == {AfterKill} \cup (IF policy = "always" THEN ProtectedDisks ELSE {})
Survives(k, d) ==
  \A i \in Acked : Written(i, k) =>
    \E j \in i..Len(log) : Written(j, k) /\ recover(d.snap, d.wal)[k] = ValueBy(j, k)

(* runCompaction's catch, restoreKey: even when writes and compactions     *)
(* fail, no key falls back behind its last acknowledged write, unless a    *)
(* delete of that key has failed.                                          *)
AckedWritesSurvive ==
  \A d \in CrashDisks : \A k \in Key : NoFailedDel(k) => Survives(k, d)

(* restoreKey: "The restore is skipped when [...] a later same-key op      *)
(* committed", so that a delete that failed too takes no key back.         *)
FailedDelsAreSkipped == \A d \in CrashDisks : \A k \in Key : Survives(k, d)

(* set(), del(), batch(): each changes the store in the tick that queues   *)
(* its frame, recovery replays the same frames.  So as long as no write of *)
(* the log has failed and nothing is on its way to the file, the store is  *)
(* what a restart would rebuild: commits that a rotation refused, records  *)
(* that expired, rotations and earlier crashes included.                   *)
MemoryIsDurable ==
  Flushed /\ failures = 0 => View(store) = recover(snapshot, file)

(* "If the WAL write ultimately fails, roll the store [...] back to the    *)
(* pre-op record so in-memory state never diverges from what is durable"   *)
(* (set()): also when frames of the rejected batch are in the file.        *)
NeverDiverges == Flushed => View(store) = recover(snapshot, file)

(* compact(): a rotation, failed or not, does not leave a write parked.    *)
EveryWriteAnswered ==
  \A n \in 1..MaxOps :
    (n \in Op /\ status[n] \in {"parked", "gated", "retry", "pending"}) ~>
      (n \in Op => status[n] \in {"acked", "failed", "done", "lost"})
=============================================================================
