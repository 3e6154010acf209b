------------------------- MODULE MiniDbReaderProofs -------------------------
(***************************************************************************)
(* Proofs about MiniDbReader, on top of the writer's invariant: what the   *)
(* reader has is what the first m committed operations give, and as long   *)
(* as the log file is the one its mark is in, the file behind the mark is  *)
(* the log behind the first m.                                             *)
(***************************************************************************)
EXTENDS MiniDbReader, MiniDbProofs

(***************************************************************************)
(* The inductive invariant.                                                *)
(***************************************************************************)
FpType == [wal : Seq(Nat), snap : Int]
ReaderType ==
  reader \in [pc : {"idle", "serve", "catchUp", "snapshot", "wal", "stamp"}, data : State,
              gen : Nat, off : Nat, fp : FpType, torn : BOOLEAN, parts : FpType, need : Nat, reads : Nat]
GenOK == walGen \in Nat /\ snapGen \in Nat /\ reader.gen <= walGen

\* As long as the log file is the one the mark is in, what lies behind the mark
\* is the log behind the operations the reader has seen.
Marked(m) ==
  /\ reader.off <= Len(file) /\ m = Cut(reader.off)
  /\ \A p \in 1..Len(file) : p > reader.off => file[p] = log[Cut(p)]
\* The reader has seen the first m operations, and no part of another.
SeenOK ==
  failures = 0 /\ ~reader.torn /\ reader.pc \notin {"snapshot", "wal"} =>
    \E m \in 0..Landed : /\ \A k \in Key : Exact(Ctx, reader.data[k], k, m)
                         /\ reader.gen = walGen => Marked(m)
\* Between its two files it has a snapshot that goes with the log file, as long
\* as that is not replaced.
HalfOK ==
  reader.pc = "wal" /\ reader.gen = walGen /\ failures = 0 =>
    \A k \in Key : Exact(Ctx, OnDisk(reader.data, file, Len(file), k), k, Landed)

ReaderInv == DbInv /\ ReaderType /\ GenOK /\ SeenOK /\ HalfOK

-----------------------------------------------------------------------------
(***************************************************************************)
(* Replay in two parts.                                                    *)
(***************************************************************************)
\* Frames that follow the first m of a sequence go on where those end.
Follows(u, w, m) == m + Len(u) <= Len(w) /\ \A i \in 1..Len(u) : u[i] = w[m + i]

\* Replaying them on top of what those give is replaying all.
LEMMA KeptOn ==
  ASSUME NEW o, NEW v, NEW w \in Seq(Nat), NEW u \in Seq(Nat), NEW m \in Nat, Follows(u, w, m), NEW k
  PROVE  Kept(o, Kept(o, v, w, m, k), u, Len(u), k) = Kept(o, v, w, m + Len(u), k)
<1> DEFINE n == Len(u)
           x == Kept(o, v, w, m, k)
           M == m + n
<1>1. n \in Nat /\ n \in 0..Len(u) /\ m \in 0..Len(w) /\ M \in 0..Len(w) /\ Len(w) \in Nat
  BY DEF Follows
<1>6. \A i \in 1..n : u[i] = w[m + i]
  BY DEF Follows
<1>4. n \in 0..Len(u)
  BY <1>1
<1>5. m \in 0..Len(w)
  BY <1>1
<1>7. \A y : \/ (\A i \in 1..n : ~Touches(o, u[i], k)) /\ Kept(o, y, u, n, k) = y
             \/ \E i \in 1..n :
                  /\ Touches(o, u[i], k)
                  /\ \A j \in 1..n : Touches(o, u[j], k) => j <= i
                  /\ Kept(o, y, u, n, k) = Put(o, u[i], k)
  <2> HIDE DEF n
  <2> TAKE y
  <2> QED BY <1>4, KeptCases, SMTT(30)
<1>2. CASE \E i \in 1..n : Touches(o, u[i], k)
  <2>1. \/ (\A i \in 1..n : ~Touches(o, u[i], k)) /\ Kept(o, x, u, n, k) = x
        \/ \E i \in 1..n :
             /\ Touches(o, u[i], k)
             /\ \A j \in 1..n : Touches(o, u[j], k) => j <= i
             /\ Kept(o, x, u, n, k) = Put(o, u[i], k)
    BY <1>7
  <2>2. PICK i \in 1..n : /\ Touches(o, u[i], k)
                          /\ \A j \in 1..n : Touches(o, u[j], k) => j <= i
                          /\ Kept(o, x, u, n, k) = Put(o, u[i], k)
    BY <1>2, <2>1
  <2>3. /\ m + i \in 1..M /\ w[m + i] = u[i]
    <3>1. w[m + i] = u[i]
      BY <1>6
    <3>2. m + i \in 1..(m + n)
      <4> HIDE DEF n
      <4> QED BY <1>1
    <3> QED BY <3>1, <3>2
  <2>4. ASSUME NEW j \in 1..M, Touches(o, w[j], k) PROVE j <= m + i
    <3>1. CASE j <= m
      BY <1>1, <3>1
    <3>2. CASE j > m
      <4>1. j - m \in 1..n /\ m + (j - m) = j
        BY <1>1, <3>2
      <4>2. Touches(o, u[j - m], k)
        BY <1>6, <2>4, <4>1
      <4>3. j - m <= i
        BY <2>2, <4>1, <4>2
      <4> QED BY <1>1, <4>3
    <3> QED BY <1>1, <3>1, <3>2
  <2> DEFINE p == m + i
  <2>5. p \in 1..M /\ Touches(o, w[p], k) /\ (\A j \in 1..M : Touches(o, w[j], k) => j <= p) /\ w[p] = u[i]
    BY <2>2, <2>3, <2>4
  <2> HIDE DEF p, M, n, x
  <2>6. Kept(o, v, w, M, k) = Put(o, w[p], k)
    BY <1>1, <2>5, KeptDecided
  <2> QED BY <2>2, <2>5, <2>6 DEF M, n, x
<1>3. CASE \A i \in 1..n : ~Touches(o, u[i], k)
  <2>1. Kept(o, x, u, n, k) = x
    <3> HIDE DEF n, x, M
    <3> QED BY <1>3, <1>7
  <2>2. \A j \in 1..M : Touches(o, w[j], k) => j \in 1..m
    <3> SUFFICES ASSUME NEW j \in 1..M, Touches(o, w[j], k), j > m PROVE FALSE
      BY <1>1
    <3>1. j - m \in 1..n /\ m + (j - m) = j
      BY <1>1
    <3> QED BY <1>3, <1>6, <3>1
  <2>3. \/ (\A i \in 1..m : ~Touches(o, w[i], k)) /\ x = v
        \/ \E i \in 1..m :
             /\ Touches(o, w[i], k)
             /\ \A j \in 1..m : Touches(o, w[j], k) => j <= i
             /\ x = Put(o, w[i], k)
    BY <1>5, KeptCases
  <2>4. CASE (\A i \in 1..m : ~Touches(o, w[i], k)) /\ x = v
    <3>1. \A j \in 1..M : ~Touches(o, w[j], k)
      BY <2>2, <2>4
    <3>2. Kept(o, v, w, M, k) = v
      <4> HIDE DEF n, x, M
      <4> QED BY <1>1, <3>1, KeptCases
    <3> QED BY <2>1, <2>4, <3>2
  <2>5. ASSUME NEW i \in 1..m, Touches(o, w[i], k), \A j \in 1..m : Touches(o, w[j], k) => j <= i,
               x = Put(o, w[i], k)
        PROVE  Kept(o, x, u, n, k) = Kept(o, v, w, M, k)
    <3>1. i \in 1..M /\ \A j \in 1..M : Touches(o, w[j], k) => j <= i
      BY <1>1, <2>2, <2>5
    <3>2. Kept(o, v, w, M, k) = Put(o, w[i], k)
      <4> HIDE DEF n, x, M
      <4> QED BY <1>1, <2>5, <3>1, KeptDecided
    <3> QED BY <2>1, <2>5, <3>2
  <2> QED BY <2>3, <2>4, <2>5
<1> QED BY <1>2, <1>3

\* What applying frames to the reader's records shows.
LEMMA ReplayShown ==
  ASSUME Basic, NEW st \in State, NEW w \in Seq(Nat), \A i \in 1..Len(w) : w[i] \in 0..Len(ops)
  PROVE  /\ FoldLeft(Replayed, st, w) \in State
         /\ \A k \in Key : Shown(expired, FoldLeft(Replayed, st, w)[k])
                             = Shown(expired, Kept(ops, st[k], w, Len(w), k))
<1>0. ops \in Seq(OpType) /\ expired \subseteq 1..Len(ops) /\ 0 \notin expired
  BY Ranges DEF Basic, DbTypeOK, OpsType
<1>1. \A i \in DOMAIN w : w[i] \in 0..Len(ops)
  OBVIOUS
<1>2. FoldLeft(Replayed, st, w) = [k \in Key |-> Value(ops, expired, st[k], w, 1..Len(w), k)]
  BY <1>0, <1>1, ReplayIsValue
<1>3. ASSUME NEW k \in Key
      PROVE  /\ Value(ops, expired, st[k], w, 1..Len(w), k) \in Nat
             /\ Shown(expired, Value(ops, expired, st[k], w, 1..Len(w), k))
                  = Shown(expired, Kept(ops, st[k], w, Len(w), k))
  <2> DEFINE x == Kept(ops, st[k], w, Len(w), k)
             y == Value(ops, expired, st[k], w, 1..Len(w), k)
  <2>1. y = x \/ y = Shown(expired, x)
    BY DEF Value, Kept, Shown, Never
  <2>2. x \in Nat
    <3> DEFINE z == st[k]
               n == Len(w)
    <3>1. z \in Nat /\ n \in 0..Len(w)
      BY DEF State
    <3> HIDE DEF z, n
    <3>2. Kept(ops, z, w, n, k) \in Nat
      BY <3>1, KeptType
    <3> QED BY <3>2 DEF z, n
  <2> HIDE DEF x, y
  <2>3. y \in Nat /\ Shown(expired, y) = Shown(expired, x)
    <3>1. Shown(expired, x) \in Nat /\ Shown(expired, Shown(expired, x)) = Shown(expired, x)
      BY <1>0, <2>2 DEF Shown
    <3> QED BY <2>1, <2>2, <3>1
  <2> QED BY <2>3 DEF x, y
<1> QED BY <1>2, <1>3 DEF State

-----------------------------------------------------------------------------
(***************************************************************************)
(* Types and generations.                                                  *)
(***************************************************************************)
\* The fields of the reader.
LEMMA ReaderFields ==
  ASSUME ReaderType
  PROVE  /\ reader.data \in State /\ reader.gen \in Nat /\ reader.off \in Nat
         /\ reader.fp \in FpType /\ reader.parts \in FpType /\ reader.torn \in BOOLEAN
         /\ reader.need \in Nat /\ reader.reads \in Nat
         /\ reader.pc \in {"idle", "serve", "catchUp", "snapshot", "wal", "stamp"}
<1> QED BY DEF ReaderType

\* Both fingerprints are of the type.
LEMMA Fingerprints ==
  ASSUME walGen \in Nat, snapGen \in Nat, file \in Seq(Nat)
  PROVE  Fingerprint \in FpType /\ NoFingerprint \in FpType
<1>1. Len(file) \in Nat
  OBVIOUS
<1>2. <<walGen, Len(file)>> \in Seq(Nat) /\ << >> \in Seq(Nat)
  BY <1>1
<1> QED BY <1>2 DEF Fingerprint, NoFingerprint, FpType

\* catchUpWal stops somewhere between the mark and the end of the file, and at
\* the end when no frame is torn.
LEMMA CleanEndFacts ==
  ASSUME ReaderType, file \in Seq(Nat), reader.off <= Len(file)
  PROVE  /\ CleanEnd \in Nat /\ reader.off <= CleanEnd /\ CleanEnd <= Len(file)
         /\ (\A i \in 1..Len(file) : file[i] # Torn) => CleanEnd = Len(file)
<1> DEFINE a == reader.off
           n == Len(file)
           S == {p \in a..n : \A i \in a + 1..p : file[i] # Torn}
<1>1. a \in Nat /\ n \in Nat /\ a <= n
  BY ReaderFields
<1>2. a \in S /\ S \in SUBSET (0..n)
  BY <1>1
<1>3. Max(S) \in S /\ \A y \in S : y <= Max(S)
  <2> HIDE DEF a, n, S
  <2> QED BY <1>1, <1>2, MaxInRange
<1>4. CleanEnd = Max(S)
  BY DEF CleanEnd
<1>5. ASSUME \A i \in 1..Len(file) : file[i] # Torn PROVE Max(S) = n
  <2>1. n \in S
    BY <1>1, <1>5
  <2>2. n <= Max(S) /\ Max(S) \in a..n
    BY <1>3, <2>1
  <2> QED BY <1>1, <2>2
<1>6. Max(S) \in a..n
  BY <1>3
<1> HIDE DEF S
<1> QED BY <1>1, <1>4, <1>5, <1>6

Writing == Writers \/ Compaction \/ kill \/ UNCHANGED dbVars

\* A file keeps its generation, unless it is swapped for the next.
LEMMA GenNext ==
  ASSUME walGen \in Nat, snapGen \in Nat, Writing
  PROVE  /\ walGen' \in Nat /\ snapGen' \in Nat /\ walGen <= walGen'
         /\ renameWal => walGen' # walGen
         /\ renameSnapshot => snapGen' # snapGen
<1> USE DEF opVars, memVars, walVars, diskVars, ghostVars
<1>1. CASE Writers
  <2>1. UNCHANGED <<walGen, snapGen>>
    BY <1>1 DEF Writers, issue, passGate, commit, commitSealed, expire, reap, flushStart,
       flushFrame, flushEnd, flushFails, syncTimer
  <2> QED BY <2>1 DEF renameWal, renameSnapshot
<1>2. CASE Compaction /\ ~renameWal /\ ~renameSnapshot
  <2>1. UNCHANGED <<walGen, snapGen>>
    BY <1>2 DEF Compaction, compact, fence, snapshotKey, snapshotWritten, preCopy, seal, Rotation,
       drainAndClose, fsyncDir, openFresh, compactFails
  <2> QED BY <1>2, <2>1
<1>3. CASE renameWal
  BY <1>3 DEF renameWal, renameSnapshot
<1>4. CASE renameSnapshot
  BY <1>4 DEF renameWal, renameSnapshot
<1>5. CASE kill \/ UNCHANGED dbVars
  <2>1. UNCHANGED <<walGen, snapGen>>
    BY <1>5 DEF kill, reopen, dbVars
  <2> QED BY <2>1 DEF renameWal, renameSnapshot
<1> QED BY <1>1, <1>2, <1>3, <1>4, <1>5 DEF Writing

\* A process that dies leaves the file as it is, if no frame of it is torn, and
\* the log up to what has landed.
LEMMA KillFacts ==
  ASSUME DbInv, kill, failures = 0
  PROVE  file' = file /\ Landed' = Landed /\ \A i \in 1..Landed : log'[i] = log[i]
<1>1. Landed \in Nat /\ Landed <= Len(log) /\ log \in Seq(Nat) /\ file \in Seq(Nat)
  BY Ranges DEF DbInv, Basic
<1>2. /\ log' = SubSeq(log, 1, Landed) /\ queue' = << >> /\ inflight' = << >> /\ landed' = 0
      /\ file' = Truncated(file)
  BY DEF kill, reopen, AfterKill, Landed, Taken
<1>3. Len(log') = Landed /\ \A i \in 1..Landed : log'[i] = log[i]
  BY <1>1, <1>2
<1>4. Landed' = Landed
  <2>1. Len(queue') = 0 /\ Len(inflight') = 0 /\ landed' = 0
    BY <1>2
  <2> QED BY <1>1, <1>3, <2>1 DEF Landed, Taken
<1>5. file' = file
  <2>1. \A i \in 1..Len(file) : file[i] # Torn
    BY DEF DbInv, NothingFailed
  <2>2. ~(file # << >> /\ Last(file) = Torn)
    BY <1>1, <2>1, EmptySeq DEF Last
  <2> QED BY <1>2, <2>2 DEF Truncated
<1> QED BY <1>3, <1>4, <1>5

-----------------------------------------------------------------------------
(***************************************************************************)
(* The writer's steps.                                                     *)
(***************************************************************************)
\* The mark stays where it is as long as the file does.
LEMMA MarkedStays ==
  ASSUME Basic, ReaderType, NEW m \in 0..Landed, Marked(m), UNCHANGED <<file, reader>>,
         Landed' = Landed, \A i \in 1..Landed : log'[i] = log[i]
  PROVE  Marked(m)'
<1>1. Landed \in Nat /\ Len(file) \in Nat /\ reader.off \in Nat /\ m \in Nat
  BY Ranges, ReaderFields
<1>2. \A p : Cut(p)' = Cut(p)
  BY DEF Cut
<1>3. ASSUME NEW p \in 1..Len(file), p > reader.off PROVE Cut(p) \in 1..Landed
  BY <1>1, <1>3 DEF Cut, Marked
<1> QED BY <1>2, <1>3 DEF Marked, Cut

\* The frame that lands is behind the mark.
LEMMA MarkedFrame ==
  ASSUME Basic, ReaderType, NEW m \in 0..Landed, Marked(m), flushFrame, UNCHANGED reader
  PROVE  Marked(m)'
<1> DEFINE n == Len(file)
           x == log[Landed + 1]
<1>1. /\ Landed \in Nat /\ n \in Nat /\ file \in Seq(Nat) /\ reader.off \in Nat /\ reader.off <= n
      /\ m = Cut(reader.off)
  BY Ranges, ReaderFields DEF Marked
<1>2. file' = Append(file, x) /\ Landed' = Landed + 1 /\ log' = log /\ x \in Nat
  BY NextFrame
<1> HIDE DEF x
<1>3. /\ Len(file') = n + 1 /\ file'[n + 1] = x /\ \A i \in 1..n : file'[i] = file[i]
      /\ \A i \in 1..(n + 1) : i \in 1..n \/ i = n + 1
  BY <1>1, <1>2, AppendFacts
<1>4. /\ Landed' - Len(file') + reader.off = Landed - n + reader.off
      /\ \A p \in Nat : Landed' - Len(file') + p = Landed - n + p
      /\ Landed - n + (n + 1) = Landed + 1
  BY <1>1, <1>2, <1>3
<1>5. ASSUME NEW p \in 1..(n + 1), p > reader.off PROVE file'[p] = log[Landed - n + p]
  <2>1. CASE p \in 1..n
    BY <1>3, <1>5, <2>1 DEF Marked, Cut
  <2>2. CASE p = n + 1
    BY <1>3, <1>4, <2>2 DEF x
  <2> QED BY <1>3, <2>1, <2>2
<1>6. reader.off <= Len(file')
  BY <1>1, <1>3
<1> QED BY <1>1, <1>2, <1>3, <1>4, <1>5, <1>6 DEF Marked, Cut

\* What the reader has seen stays the first part of the log.
LEMMA SeenWrite ==
  ASSUME DbInv, ReaderType, GenOK, SeenOK, Writing, UNCHANGED reader
  PROVE  SeenOK'
<1> SUFFICES ASSUME failures' = 0, ~reader.torn, reader.pc \notin {"snapshot", "wal"}
             PROVE  \E m \in 0..Landed' : /\ \A k \in Key : Exact(Ctx', reader.data[k], k, m)
                                          /\ reader.gen = walGen' => Marked(m)'
  BY DEF SeenOK
<1>0. Basic /\ [DbNext]_dbVars
  BY DEF DbInv, Basic, Writing, DbNext
<1>00. Landed \in Nat /\ Landed <= Len(log) /\ reader.gen \in Nat /\ walGen \in Nat
  BY <1>0, Ranges, ReaderFields DEF GenOK
<1>1. ~flushFails
  BY <1>0, FailedBatch
<1>2. failures = 0
  BY <1>0, <1>1, FailedNext
<1>3. PICK m \in 0..Landed : /\ \A k \in Key : Exact(Ctx, reader.data[k], k, m)
                             /\ reader.gen = walGen => Marked(m)
  BY <1>2 DEF SeenOK
<1>4. Later(Ctx, Ctx', m)
  <2>1. CASE kill
    BY <1>0, <1>3, <2>1, LaterKill
  <2>2. CASE ~kill
    <3>1. [Writers \/ Compaction]_dbVars
      BY <2>2 DEF Writing
    <3>2. m \in 0..Len(log)
      BY <1>00, <1>3
    <3> QED BY <1>0, <3>1, <3>2, LaterNext
  <2> QED BY <2>1, <2>2
<1>5. \A k \in Key : Exact(Ctx', reader.data[k], k, m)
  BY <1>3, <1>4, ExactLater
<1>6. reader.gen = walGen' => walGen' = walGen /\ Marked(m)
  BY <1>00, <1>3, GenNext DEF GenOK
<1>7. CASE kill
  <2>1. file' = file /\ Landed' = Landed /\ \A i \in 1..Landed : log'[i] = log[i]
    BY <1>2, <1>7, KillFacts
  <2>2. reader.gen = walGen' => Marked(m)'
    BY <1>0, <1>6, <2>1, MarkedStays
  <2> QED BY <1>5, <2>1, <2>2
<1>8. CASE flushFrame
  <2>1. Landed' = Landed + 1
    BY <1>0, <1>8, NextFrame
  <2>2. reader.gen = walGen' => Marked(m)'
    BY <1>0, <1>6, <1>8, MarkedFrame
  <2>3. m \in 0..Landed'
    BY <1>00, <2>1
  <2> QED BY <1>5, <2>2, <2>3
<1>9. CASE ~kill /\ ~flushFrame
  <2>0. [Writers \/ Compaction]_dbVars
    BY <1>9 DEF Writing
  <2>1. Landed' = Landed /\ \A i \in 1..Landed : log'[i] = log[i]
    <3>1. Landed' = Landed
      BY <1>0, <1>1, <1>9, <2>0, LandedNext
    <3>2. \A i \in 1..Len(log) : log'[i] = log[i]
      BY <1>0, <2>0, LaterNext
    <3>3. \A i \in 1..Landed : i \in 1..Len(log)
      BY <1>00
    <3> QED BY <3>1, <3>2, <3>3
  <2>2. ~renameWal => file' = file
    <3>1. CASE renameSnapshot
      BY <3>1 DEF renameSnapshot
    <3>2. CASE ~renameSnapshot
      BY <1>0, <1>1, <1>9, <2>0, <3>2, LandedNext DEF Quiet
    <3> QED BY <3>1, <3>2
  <2>3. reader.gen = walGen' => ~renameWal
    BY <1>00, <1>6, GenNext DEF GenOK
  <2>4. reader.gen = walGen' => Marked(m)'
    BY <1>0, <1>6, <2>1, <2>2, <2>3, MarkedStays
  <2> QED BY <1>5, <2>1, <2>4
<1> QED BY <1>7, <1>8, <1>9

\* The snapshot it has goes on going with the log file, as long as that is not
\* replaced.
LEMMA HalfWrite ==
  ASSUME DbInv, ReaderType, GenOK, HalfOK, Writing, UNCHANGED reader
  PROVE  HalfOK'
<1> DEFINE s == reader.data
<1> SUFFICES ASSUME reader.pc = "wal", reader.gen = walGen', failures' = 0, NEW k \in Key
             PROVE  Exact(Ctx', Kept(ops', s[k], file', Len(file'), k), k, Landed')
  BY DEF HalfOK, OnDisk
<1>0. Basic /\ [DbNext]_dbVars /\ FramesOK
  BY DEF DbInv, Basic, Writing, DbNext
<1>1. ~flushFails
  BY <1>0, FailedBatch
<1>2. failures = 0
  BY <1>0, <1>1, FailedNext
<1>3. walGen' = walGen /\ ~renameWal
  BY GenNext, ReaderFields DEF GenOK
<1>4. Exact(Ctx, Kept(ops, s[k], file, Len(file), k), k, Landed)
  BY <1>2, <1>3 DEF HalfOK, OnDisk
<1>5. /\ Landed \in Nat /\ Landed \in 0..Len(log) /\ file \in Seq(Nat) /\ Len(file) \in 0..Len(file)
      /\ \A i \in 1..Len(file) : file[i] \in 0..Len(ops)
  BY <1>0, Ranges DEF FramesOK
<1>6. CASE kill
  <2>1. file' = file /\ Landed' = Landed /\ ops' = ops
    BY <1>2, <1>6, KillFacts DEF kill, reopen
  <2>2. Later(Ctx, Ctx', Landed)
    BY <1>0, <1>5, <1>6, LaterKill
  <2> DEFINE v == Kept(ops, s[k], file, Len(file), k)
  <2>3. Exact(Ctx, v, k, Landed)
    BY <1>4
  <2> HIDE DEF v
  <2>4. Exact(Ctx', v, k, Landed)
    BY <2>2, <2>3, ExactLater
  <2> QED BY <2>1, <2>4 DEF v
<1>7. CASE flushFrame
  <2> DEFINE c == Ctx
             m == Landed
             x == log[Landed + 1]
             v == Kept(ops, s[k], file, Len(file), k)
  <2>1. /\ m + 1 \in 1..Len(log) /\ x \in Nat /\ x # 0 /\ file' = Append(file, x) /\ Landed' = m + 1
        /\ Ctx' = c /\ ops' = ops
    BY <1>0, <1>7, NextFrame
  <2>2. Len(file') = Len(file) + 1
    BY <1>5, <2>1
  <2>3. Kept(ops, s[k], Append(file, x), Len(file) + 1, k) =
          IF Touches(ops, x, k) THEN Put(ops, x, k) ELSE v
    BY <1>5, <2>1, KeptLast
  <2>4. Exact(c, v, k, m)
    BY <1>4
  <2>5. /\ c.log \in Seq(Nat) /\ m \in Nat /\ m + 1 <= Len(c.log) /\ c.log[m + 1] = x /\ c.ops = ops
        /\ Touches(ops, x, k) <=> Wrote(c, m + 1, k)
    BY <1>0, <1>5, <2>1, CtxFields, Ranges DEF Wrote, Touches, Torn
  <2> HIDE DEF c, m, x, v, s
  <2>6. /\ ~Wrote(c, m + 1, k) /\ Exact(c, v, k, m) => Exact(c, v, k, m + 1)
        /\ Wrote(c, m + 1, k) => Exact(c, Put(c.ops, c.log[m + 1], k), k, m + 1)
    BY <2>1, <2>5, GoodNext
  <2> QED BY <2>1, <2>2, <2>3, <2>4, <2>5, <2>6
<1>8. CASE ~kill /\ ~flushFrame
  <2>1. [Writers \/ Compaction]_dbVars
    BY <1>8 DEF Writing
  <2>2. Landed' = Landed
    BY <1>0, <1>1, <1>8, <2>1, LandedNext
  <2>3. file' = file
    <3>1. CASE renameSnapshot
      BY <3>1 DEF renameSnapshot
    <3>2. CASE ~renameSnapshot
      BY <1>0, <1>1, <1>3, <1>8, <2>1, <3>2, LandedNext DEF Quiet
    <3> QED BY <3>1, <3>2
  <2> DEFINE w == file
             n == Len(file)
             m == Landed
             v == Kept(ops, s[k], w, n, k)
  <2>4. w \in Seq(Nat) /\ n \in 0..Len(w) /\ m \in 0..Len(log) /\ \A i \in 1..Len(w) : w[i] \in 0..Len(ops)
    BY <1>5
  <2>5. Exact(Ctx, v, k, m)
    BY <1>4
  <2>6. Kept(ops', s[k], w, n, k) = v
    <3> HIDE DEF w, n, m, s
    <3> QED BY <1>0, <2>1, <2>4, FilesLater
  <2>7. Later(Ctx, Ctx', m)
    <3> HIDE DEF m
    <3> QED BY <1>0, <2>1, <2>4, LaterNext
  <2>8. Exact(Ctx', v, k, m)
    <3> HIDE DEF v, m
    <3> QED BY <2>5, <2>7, ExactLater
  <2> HIDE DEF v
  <2> QED BY <2>2, <2>3, <2>6, <2>8
<1> QED BY <1>6, <1>7, <1>8

-----------------------------------------------------------------------------
(***************************************************************************)
(* The reader's steps.                                                     *)
(***************************************************************************)
\* Catching up from the mark: the reader has then seen all that has landed.
LEMMA CaughtUp ==
  ASSUME DbInv, ReaderType, failures = 0, NEW m \in 0..Landed, Marked(m), NEW k \in Key,
         Exact(Ctx, reader.data[k], k, m)
  PROVE  Exact(Ctx, FoldLeft(Replayed, reader.data, SubSeq(file, reader.off + 1, Len(file)))[k], k, Landed)
<1> DEFINE a == reader.off
           n == Len(file)
           u == SubSeq(file, a + 1, n)
           st == reader.data
           y == FoldLeft(Replayed, st, u)[k]
           x == st[k]
           b == base[k]
<1>0. Basic
  BY DEF DbInv, Basic
<1>1. /\ a \in Nat /\ n \in Nat /\ a <= n /\ file \in Seq(Nat) /\ log \in Seq(Nat)
      /\ Landed \in Nat /\ Landed <= Len(log) /\ Len(log) \in Nat /\ st \in State
  BY <1>0, Ranges, ReaderFields DEF Marked
<1>2. u \in Seq(Nat) /\ Len(u) = n - a /\ \A i \in 1..(n - a) : u[i] = file[a + i]
  <2>1. u \in Seq(Nat)
    BY <1>1
  <2>2. /\ Len(SubSeq(file, a + 1, Len(file))) = Len(file) - a
        /\ \A i \in 1..(Len(file) - a) : SubSeq(file, a + 1, Len(file))[i] = file[a + i]
    <3> HIDE DEF a
    <3> QED BY <1>1, SuffixFacts
  <2> QED BY <2>1, <2>2
<1>3. m = Landed - n + a
  BY DEF Marked, Cut
<1>4. m + Len(u) = Landed /\ m \in Nat
  BY <1>1, <1>2, <1>3
<1>5. Follows(u, log, m)
  <2>1. ASSUME NEW i \in 1..Len(u) PROVE u[i] = log[m + i]
    <3>1. a + i \in 1..n /\ a + i > a /\ Landed - n + (a + i) = m + i /\ i \in 1..(n - a)
      <4> DEFINE l == Len(u)
      <4>1. i \in 1..l /\ l = n - a
        BY <1>2
      <4> HIDE DEF a, n, l
      <4> QED BY <1>1, <1>3, <4>1
    <3>2. file[a + i] = log[Landed - n + (a + i)]
      BY <3>1 DEF Marked, Cut
    <3> QED BY <1>2, <3>1, <3>2
  <2> QED BY <1>1, <1>4, <2>1 DEF Follows
<1>6. \A i \in 1..Len(u) : u[i] \in 0..Len(ops)
  <2>1. \A i \in 1..n : file[i] \in 0..Len(ops)
    BY <1>0 DEF Basic, FramesOK
  <2>2. \A i \in 1..Len(u) : a + i \in 1..n /\ i \in 1..(n - a)
    <3> HIDE DEF a, n, u
    <3> QED BY <1>1, <1>2
  <2> QED BY <1>2, <2>1, <2>2
<1>7. Shown(expired, y) = Shown(expired, Kept(ops, x, u, Len(u), k))
  <2> HIDE DEF u, st
  <2>1. \A j \in Key : Shown(expired, FoldLeft(Replayed, st, u)[j])
                         = Shown(expired, Kept(ops, st[j], u, Len(u), j))
    BY <1>0, <1>1, <1>2, <1>6, ReplayShown
  <2> QED BY <2>1
<1> DEFINE z == Kept(ops, b, log, m, k)
<1>8. Shown(expired, x) = Shown(expired, z)
  BY CtxFields DEF Exact
<1>9. Shown(expired, Kept(ops, x, u, Len(u), k)) = Shown(expired, Kept(ops, z, u, Len(u), k))
  <2>1. Len(u) \in 0..Len(u)
    BY <1>2
  <2> DEFINE l == Len(u)
  <2> HIDE DEF u, x, z, l
  <2>2. l \in 0..Len(u) /\ u \in Seq(Nat)
    BY <1>2, <2>1 DEF l
  <2>3. Shown(expired, Kept(ops, x, u, l, k)) = Shown(expired, Kept(ops, z, u, l, k))
    BY <1>8, <2>2, KeptShown
  <2> QED BY <2>3 DEF l
<1>10. Kept(ops, z, u, Len(u), k) = Kept(ops, b, log, m + Len(u), k)
  <2>1. u \in Seq(Nat) /\ log \in Seq(Nat) /\ m \in Nat
    BY <1>1, <1>2, <1>4
  <2> HIDE DEF u, b
  <2> QED BY <1>5, <2>1, KeptOn
<1>11. Shown(expired, y) = Shown(expired, Kept(ops, b, log, Landed, k))
  <2> HIDE DEF y, x, z, b, u
  <2> QED BY <1>4, <1>7, <1>9, <1>10
<1> QED BY <1>11, CtxFields DEF Exact

\* What the files hold is what a reader of the snapshot has of it.
LEMMA SnapshotRead ==
  ASSUME DbInv, failures = 0, NEW k \in Key
  PROVE  Exact(Ctx, Kept(ops, View(snapshot)[k], file, Len(file), k), k, Landed)
<1> DEFINE x == View(snapshot)[k]
           z == snapshot[k]
           n == Len(file)
<1>0. Basic
  BY DEF DbInv, Basic
<1>1. file \in Seq(Nat) /\ n \in 0..Len(file)
  BY <1>0, Ranges
<1>2. Shown(expired, x) = Shown(expired, z)
  BY <1>0, ViewShown
<1>3. Exact(Ctx, Kept(ops, z, file, n, k), k, Landed)
  BY CtxFields DEF DbInv, DiskOK, OnDisk, Good
<1> HIDE DEF x, z, n
<1>4. Shown(expired, Kept(ops, x, file, n, k)) = Shown(expired, Kept(ops, z, file, n, k))
  BY <1>1, <1>2, KeptShown
<1> DEFINE y == Kept(ops, x, file, n, k)
<1>5. Exact(Ctx, y, k, Landed)
  BY <1>3, <1>4, CtxFields DEF Exact
<1> QED BY <1>5 DEF x, n

\* Opening the log on top of the snapshot: likewise.
LEMMA Opened ==
  ASSUME DbInv, ReaderType, NEW k \in Key,
         Exact(Ctx, Kept(ops, reader.data[k], file, Len(file), k), k, Landed)
  PROVE  Exact(Ctx, FoldLeft(Replayed, reader.data, file)[k], k, Landed)
<1> DEFINE st == reader.data
           y == FoldLeft(Replayed, st, file)[k]
           v == Kept(ops, st[k], file, Len(file), k)
<1>0. Basic
  BY DEF DbInv, Basic
<1>1. file \in Seq(Nat) /\ st \in State /\ \A i \in 1..Len(file) : file[i] \in 0..Len(ops)
  BY <1>0, Ranges, ReaderFields DEF Basic, FramesOK
<1>2. Shown(expired, y) = Shown(expired, v)
  <2> HIDE DEF st
  <2> QED BY <1>0, <1>1, ReplayShown
<1>3. Exact(Ctx, v, k, Landed)
  OBVIOUS
<1> HIDE DEF y, v
<1>4. Exact(Ctx, y, k, Landed)
  BY <1>2, <1>3, CtxFields DEF Exact
<1> QED BY <1>4 DEF y

\* What a step of the reader leaves of the fields.
LEMMA ReadType ==
  ASSUME DbInv, ReaderType, GenOK, Read
  PROVE  ReaderType' /\ GenOK'
<1>0. Basic /\ UNCHANGED dbVars
  BY DEF DbInv, Basic, Read, beginRead, tryCatchUpReader, openSnapshot, openWal, stamp, serve
<1>1. UNCHANGED <<walGen, snapGen>> /\ walGen \in Nat /\ snapGen \in Nat /\ reader.gen <= walGen
  BY <1>0 DEF dbVars, diskVars, GenOK
<1>2. /\ file \in Seq(Nat) /\ Len(file) \in Nat /\ snapshot \in State
      /\ \A i \in 1..Len(file) : file[i] \in 0..Len(ops)
  BY <1>0, Ranges DEF Basic, DbTypeOK, DiskType, FramesOK
<1>3. Fingerprint \in FpType /\ NoFingerprint \in FpType
  BY <1>1, <1>2, Fingerprints
<1>4. CASE beginRead
  <2>1. LastAcked \in Nat
    BY <1>0, LastAckedFacts, Ranges
  <2> HIDE DEF Fingerprint
  <2> DEFINE to == CASE reader.fp = Fingerprint -> "serve"
                     [] reader.fp # Fingerprint /\ reader.fp.snap = snapGen -> "catchUp"
                     [] OTHER -> "snapshot"
  <2>2. to \in {"serve", "catchUp", "snapshot"}
    OBVIOUS
  <2>3. reader' = [Goto(to) EXCEPT !.parts = Fingerprint, !.need = LastAcked, !.reads = @ + 1]
    BY <1>4 DEF beginRead
  <2> DEFINE f == Fingerprint
             l == LastAcked
             r == reader.reads + 1
  <2>4. f \in FpType /\ l \in Nat /\ r \in Nat
    BY <1>3, <2>1, ReaderFields
  <2>5. reader' = [[reader EXCEPT !.pc = to] EXCEPT !.parts = f, !.need = l, !.reads = r]
    BY <2>3 DEF Goto, ReaderType
  <2> HIDE DEF to, f, l, r
  <2>6. ReaderType'
    BY <2>2, <2>4, <2>5 DEF ReaderType
  <2>7. reader'.gen = reader.gen
    BY <2>5 DEF ReaderType
  <2> QED BY <1>1, <2>6, <2>7 DEF GenOK
<1>5. CASE tryCatchUpReader
  <2>1. CASE reader.gen # walGen \/ Len(file) < reader.off
    <3>1. reader' = Goto("snapshot")
      BY <1>5, <2>1 DEF tryCatchUpReader
    <3> QED BY <1>1, <3>1 DEF ReaderType, GenOK, Goto
  <2>2. CASE ~(reader.gen # walGen \/ Len(file) < reader.off)
    <3> DEFINE x == FoldLeft(Replayed, reader.data, SubSeq(file, reader.off + 1, CleanEnd))
               e == CleanEnd
    <3>1. e \in Nat /\ reader.off <= e /\ e <= Len(file) /\ reader.off \in Nat /\ reader.data \in State
      BY <1>2, <2>2, CleanEndFacts, ReaderFields
    <3>2. x \in State
      <4> DEFINE u == SubSeq(file, reader.off + 1, e)
                 st == reader.data
      <4>1. u \in Seq(Nat) /\ Len(u) = e - reader.off /\ \A i \in 1..Len(u) : u[i] = file[reader.off + i]
        <5> DEFINE a == reader.off
        <5>1. a \in Nat /\ e \in Nat /\ a <= e /\ e <= Len(file)
          BY <3>1
        <5> HIDE DEF e, a
        <5>2. /\ SubSeq(file, a + 1, e) \in Seq(Nat) /\ Len(SubSeq(file, a + 1, e)) = e - a
              /\ \A i \in 1..(e - a) : SubSeq(file, a + 1, e)[i] = file[a + i]
          BY <1>2, <5>1
        <5> QED BY <5>2 DEF a
      <4>2. \A i \in 1..Len(u) : u[i] \in 0..Len(ops)
        <5>1. \A i \in 1..Len(u) : reader.off + i \in 1..Len(file)
          <6> DEFINE a == reader.off
                     n == Len(file)
                     l == Len(u)
          <6>1. a \in Nat /\ e \in Nat /\ a <= e /\ e <= n /\ n \in Nat /\ l = e - a
            BY <1>2, <3>1, <4>1
          <6> HIDE DEF a, n, l, e
          <6>2. \A i \in 1..l : a + i \in 1..n
            BY <6>1
          <6> QED BY <6>2 DEF a, n, l
        <5> QED BY <1>2, <4>1, <5>1
      <4>3. st \in State
        BY <3>1
      <4> HIDE DEF u, st
      <4>4. FoldLeft(Replayed, st, u) \in State
        BY <1>0, <4>1, <4>2, <4>3, ReplayShown
      <4> QED BY <4>4 DEF u, st, e
    <3>3. reader' = [Goto("serve") EXCEPT !.data = x, !.off = e, !.fp = reader.parts]
      BY <1>5, <2>2 DEF tryCatchUpReader, Goto
    <3> HIDE DEF x, e
    <3> QED BY <1>1, <3>1, <3>2, <3>3 DEF ReaderType, GenOK, Goto
  <2> QED BY <2>1, <2>2
<1>6. CASE openSnapshot
  <2>1. View(snapshot) \in State
    BY <1>2 DEF View, State
  <2> DEFINE x == View(snapshot)
             g == walGen
  <2>2. reader' = [[reader EXCEPT !.pc = "wal"] EXCEPT !.data = x, !.gen = g]
    BY <1>6 DEF openSnapshot, Goto
  <2>3. x \in State /\ g \in Nat
    BY <1>1, <2>1
  <2> HIDE DEF x, g
  <2>4. ReaderType'
    BY <2>2, <2>3 DEF ReaderType
  <2>5. reader'.gen = g
    BY <2>2 DEF ReaderType
  <2> QED BY <1>1, <2>4, <2>5 DEF GenOK, g
<1>7. CASE openWal
  <2> DEFINE x == FoldLeft(Replayed, reader.data, file)
             e == Len(Truncated(file))
  <2>1. x \in State
    <3> DEFINE st == reader.data
    <3>1. st \in State
      BY ReaderFields
    <3> HIDE DEF st
    <3>2. FoldLeft(Replayed, st, file) \in State
      BY <1>0, <1>2, <3>1, ReplayShown
    <3> QED BY <3>2 DEF st
  <2>2. e \in Nat
    BY <1>2, TruncatedFacts
  <2> DEFINE g == walGen
             t == (reader.gen # walGen)
  <2>3. g \in Nat /\ t \in BOOLEAN
    BY <1>1
  <2>4. reader' = [[reader EXCEPT !.pc = "stamp"] EXCEPT !.data = x, !.gen = g, !.off = e, !.torn = t]
    BY <1>7 DEF openWal, Goto
  <2> HIDE DEF x, e, g, t
  <2>5. ReaderType'
    BY <2>1, <2>2, <2>3, <2>4 DEF ReaderType
  <2>6. reader'.gen = g
    BY <2>4 DEF ReaderType
  <2> QED BY <1>1, <2>5, <2>6 DEF GenOK, g
<1>8. CASE stamp
  <2>1. reader' = [Goto("serve") EXCEPT !.fp = Fingerprint]
    BY <1>8 DEF stamp
  <2> QED BY <1>1, <1>3, <2>1 DEF ReaderType, GenOK, Goto
<1>9. CASE serve
  <2>1. reader' = [Goto("idle") EXCEPT !.parts = NoFingerprint, !.need = 0]
    BY <1>9 DEF serve
  <2> QED BY <1>1, <1>3, <2>1 DEF ReaderType, GenOK, Goto
<1> QED BY <1>4, <1>5, <1>6, <1>7, <1>8, <1>9 DEF Read

\* What the reader has seen after a step of its own.
LEMMA SeenRead ==
  ASSUME DbInv, ReaderType, GenOK, SeenOK, HalfOK, Read
  PROVE  SeenOK' /\ HalfOK'
<1>0. Basic /\ UNCHANGED dbVars
  BY DEF DbInv, Basic, Read, beginRead, tryCatchUpReader, openSnapshot, openWal, stamp, serve
<1>1. /\ UNCHANGED <<walGen, snapGen, file, log, snapshot, expired, failures>>
      /\ Landed' = Landed /\ Ctx' = Ctx /\ \A p : Cut(p)' = Cut(p)
  BY <1>0 DEF dbVars, diskVars, opVars, ghostVars, walVars, Landed, Taken, Ctx, Cut
<1>2. /\ file \in Seq(Nat) /\ Len(file) \in Nat /\ Landed \in Nat
      /\ failures = 0 => \A i \in 1..Len(file) : file[i] # Torn
  BY <1>0, Ranges DEF DbInv, NothingFailed
\* Nothing has changed but the place.
<1>3. ASSUME UNCHANGED <<reader.data, reader.gen, reader.off, reader.torn>>,
             reader.pc \notin {"snapshot", "wal"}, reader'.pc # "wal"
      PROVE  SeenOK' /\ HalfOK'
  <2>1. \A m : Marked(m)' <=> Marked(m)
    BY <1>1, <1>3 DEF Marked, Cut
  <2>2. HalfOK'
    BY <1>3 DEF HalfOK
  <2>3. ASSUME failures = 0, ~reader.torn
        PROVE  \E m \in 0..Landed : /\ \A k \in Key : Exact(Ctx, reader.data[k], k, m)
                                    /\ reader.gen = walGen => Marked(m)'
    BY <1>3, <2>1, <2>3 DEF SeenOK
  <2> QED BY <1>1, <1>3, <2>2, <2>3 DEF SeenOK
\* The reader has seen all that has landed.
<1>4. ASSUME reader'.pc # "wal",
             failures = 0 /\ ~reader'.torn => /\ \A k \in Key : Exact(Ctx, reader'.data[k], k, Landed)
                                              /\ reader'.off = Len(file)
      PROVE  SeenOK' /\ HalfOK'
  <2>1. HalfOK'
    BY <1>4 DEF HalfOK
  <2>2. ASSUME failures = 0, ~reader'.torn PROVE Marked(Landed)'
    <3>1. reader'.off = Len(file) /\ Landed = Landed - Len(file) + Len(file)
      BY <1>2, <1>4, <2>2
    <3>2. \A p \in 1..Len(file) : ~(p > Len(file))
      BY <1>2
    <3>3. Len(file) <= Len(file)
      BY <1>2
    <3> QED BY <1>1, <3>1, <3>2, <3>3 DEF Marked, Cut
  <2>3. Landed \in 0..Landed
    BY <1>2
  <2> DEFINE m == Landed
  <2>4. ASSUME failures = 0, ~reader'.torn
        PROVE  \E j \in 0..Landed : /\ \A k \in Key : Exact(Ctx, reader'.data[k], k, j)
                                    /\ reader'.gen = walGen => Marked(j)'
    BY <1>1, <1>4, <2>2, <2>3, <2>4 DEF Marked
  <2> QED BY <1>1, <2>1, <2>4 DEF SeenOK
<1>5. CASE beginRead
  <2>1. /\ UNCHANGED <<reader.data, reader.gen, reader.off, reader.torn>> /\ reader.pc = "idle"
        /\ reader'.pc \in {"serve", "catchUp", "snapshot"}
    BY <1>5 DEF beginRead, Goto, ReaderType
  <2> QED BY <1>3, <2>1
<1>6. CASE tryCatchUpReader
  <2>1. CASE reader.gen # walGen \/ Len(file) < reader.off
    <3>1. /\ UNCHANGED <<reader.data, reader.gen, reader.off, reader.torn>> /\ reader.pc = "catchUp"
          /\ reader'.pc = "snapshot"
      BY <1>6, <2>1 DEF tryCatchUpReader, Goto, ReaderType
    <3> QED BY <1>3, <3>1
  <2>2. CASE ~(reader.gen # walGen \/ Len(file) < reader.off)
    <3> DEFINE x == FoldLeft(Replayed, reader.data, SubSeq(file, reader.off + 1, CleanEnd))
    <3>1. reader' = [Goto("serve") EXCEPT !.data = x, !.off = CleanEnd, !.fp = reader.parts]
      BY <1>6, <2>2 DEF tryCatchUpReader, Goto
    <3>2. /\ reader'.pc = "serve" /\ reader'.data = x /\ reader'.off = CleanEnd /\ reader.pc = "catchUp"
          /\ reader'.torn = reader.torn
      <4> HIDE DEF x
      <4> QED BY <1>6, <3>1 DEF Goto, ReaderType, tryCatchUpReader
    <3>3. ASSUME failures = 0, ~reader.torn
          PROVE  (\A k \in Key : Exact(Ctx, x[k], k, Landed)) /\ CleanEnd = Len(file)
      <4>1. CleanEnd = Len(file)
        BY <1>2, <2>2, <3>3, CleanEndFacts, ReaderFields
      <4>2. PICK m \in 0..Landed : /\ \A k \in Key : Exact(Ctx, reader.data[k], k, m)
                                   /\ reader.gen = walGen => Marked(m)
        BY <3>2, <3>3 DEF SeenOK
      <4>3. Marked(m)
        BY <2>2, <4>2
      <4>4. \A k \in Key :
              Exact(Ctx, FoldLeft(Replayed, reader.data, SubSeq(file, reader.off + 1, Len(file)))[k], k, Landed)
        BY <3>3, <4>2, <4>3, CaughtUp
      <4> QED BY <4>1, <4>4
    <3> HIDE DEF x
    <3> QED BY <1>4, <3>2, <3>3
  <2> QED BY <2>1, <2>2
<1>7. CASE openSnapshot
  <2>1. reader'.pc = "wal" /\ reader'.data = View(snapshot)
    BY <1>7 DEF openSnapshot, Goto, ReaderType
  <2>2. ops' = ops
    BY <1>0 DEF dbVars, opVars
  <2> DEFINE x == View(snapshot)
  <2>3. failures = 0 => \A k \in Key : Exact(Ctx, Kept(ops, x[k], file, Len(file), k), k, Landed)
    BY SnapshotRead
  <2> HIDE DEF x
  <2>4. HalfOK'
    BY <1>1, <2>1, <2>2, <2>3 DEF HalfOK, OnDisk, x
  <2>5. SeenOK'
    BY <2>1 DEF SeenOK
  <2> QED BY <2>4, <2>5
<1>8. CASE openWal
  <2> DEFINE x == FoldLeft(Replayed, reader.data, file)
             e == Len(Truncated(file))
  <2>1. reader' = [Goto("stamp") EXCEPT !.data = x, !.gen = walGen, !.off = e,
                                        !.torn = (reader.gen # walGen)]
    BY <1>8 DEF openWal, Goto
  <2>2. /\ reader'.pc = "stamp" /\ reader'.data = x /\ reader'.off = e /\ reader.pc = "wal"
        /\ ~reader'.torn => reader.gen = walGen
    <3> HIDE DEF x, e
    <3> QED BY <1>8, <2>1 DEF Goto, ReaderType, openWal
  <2>3. ASSUME failures = 0, ~reader'.torn
        PROVE  (\A k \in Key : Exact(Ctx, x[k], k, Landed)) /\ e = Len(file)
    <3>1. \A k \in Key : Exact(Ctx, x[k], k, Landed)
      BY <2>2, <2>3, Opened DEF HalfOK, OnDisk
    <3>2. e = Len(file)
      <4>1. e \in Nat /\ e <= Len(file) /\ \A i \in 1..Len(file) : i > e => file[i] = Torn
        BY <1>2, TruncatedFacts
      <4> HIDE DEF e
      <4>2. CASE e < Len(file)
        <5>1. Len(file) \in 1..Len(file) /\ Len(file) > e
          BY <1>2, <4>1, <4>2
        <5> QED BY <1>2, <2>3, <4>1, <5>1
      <4> QED BY <1>2, <4>1, <4>2
    <3> QED BY <3>1, <3>2
  <2> HIDE DEF x, e
  <2> QED BY <1>4, <2>2, <2>3
<1>9. CASE stamp
  <2>1. /\ UNCHANGED <<reader.data, reader.gen, reader.off, reader.torn>> /\ reader.pc = "stamp" /\ reader'.pc = "serve"
    BY <1>9 DEF stamp, Goto, ReaderType
  <2> QED BY <1>3, <2>1
<1>10. CASE serve
  <2>1. /\ UNCHANGED <<reader.data, reader.gen, reader.off, reader.torn>> /\ reader.pc = "serve" /\ reader'.pc = "idle"
    BY <1>10 DEF serve, Goto, ReaderType
  <2> QED BY <1>3, <2>1
<1> QED BY <1>5, <1>6, <1>7, <1>8, <1>9, <1>10 DEF Read

-----------------------------------------------------------------------------
(***************************************************************************)
(* The invariant, and what a read sees.                                    *)
(***************************************************************************)
LEMMA ReaderInvInit == Init => ReaderInv
<1> SUFFICES ASSUME Init PROVE ReaderInv
  OBVIOUS
<1>1. DbInv
  BY DbInvInit DEF Init
<1>2. ReaderType /\ reader.data = Empty /\ reader.gen = 0 /\ reader.off = 0 /\ reader.pc = "idle"
  BY EmptyTypes DEF Init, ReaderInit, ReaderType, NoFingerprint, FpType
<1>3. /\ walGen = 0 /\ snapGen = 0 /\ base = Empty /\ Len(log) = 0 /\ Len(file) = 0 /\ log \in Seq(Nat)
      /\ Landed = 0
  <2>1. /\ walGen = 0 /\ snapGen = 0 /\ base = Empty /\ log = << >> /\ file = << >>
        /\ queue = << >> /\ inflight = << >> /\ landed = 0
    BY DEF Init, DbInit
  <2>2. Len(log) = 0 /\ Len(file) = 0 /\ Len(queue) = 0 /\ Len(inflight) = 0 /\ log \in Seq(Nat)
    BY <2>1
  <2>3. landed = 0
    BY <2>1
  <2>4. Landed = 0
    BY <2>2, <2>3 DEF Landed, Taken
  <2> QED BY <2>1, <2>2, <2>4
<1>4. GenOK
  BY <1>2, <1>3 DEF GenOK
<1>5. Marked(0)
  BY <1>2, <1>3 DEF Marked, Cut
<1>6. \A k \in Key : Exact(Ctx, reader.data[k], k, 0)
  <2> SUFFICES ASSUME NEW k \in Key PROVE Exact(Ctx, reader.data[k], k, 0)
    OBVIOUS
  <2>1. Kept(ops, Empty[k], log, 0, k) = Empty[k]
    BY <1>3, KeptNone
  <2> QED BY <1>2, <1>3, <2>1, CtxFields DEF Exact
<1>7. SeenOK
  BY <1>2, <1>3, <1>5, <1>6 DEF SeenOK
<1>8. HalfOK
  BY <1>2 DEF HalfOK
<1> QED BY <1>1, <1>2, <1>4, <1>7, <1>8 DEF ReaderInv

\* Every step keeps the invariant.
LEMMA ReaderInvNext == ReaderInv /\ [Write \/ Read]_vars => ReaderInv'
<1> SUFFICES ASSUME ReaderInv, [Write \/ Read]_vars PROVE ReaderInv'
  OBVIOUS
<1>0. DbInv /\ ReaderType /\ GenOK /\ SeenOK /\ HalfOK
  BY DEF ReaderInv
<1>1. CASE Write \/ UNCHANGED vars
  <2>1. Writing /\ UNCHANGED reader
    BY <1>1 DEF Write, Writing, vars
  <2>2. [DbNext]_dbVars
    BY <2>1 DEF Writing, DbNext
  <2>3. DbInv'
    BY <1>0, <2>2, DbInvNext
  <2>4. ReaderType' /\ GenOK'
    <3>1. ReaderType'
      BY <1>0, <2>1 DEF ReaderType
    <3>2. walGen' \in Nat /\ snapGen' \in Nat /\ walGen <= walGen'
      BY <1>0, <2>1, GenNext DEF GenOK
    <3>3. reader.gen \in Nat /\ walGen \in Nat /\ reader.gen <= walGen
      BY <1>0, ReaderFields DEF GenOK
    <3> QED BY <2>1, <3>1, <3>2, <3>3 DEF GenOK
  <2>5. SeenOK'
    BY <1>0, <2>1, SeenWrite
  <2>6. HalfOK'
    BY <1>0, <2>1, HalfWrite
  <2> QED BY <2>3, <2>4, <2>5, <2>6 DEF ReaderInv
<1>2. CASE Read
  <2>1. UNCHANGED dbVars
    BY <1>2 DEF Read, beginRead, tryCatchUpReader, openSnapshot, openWal, stamp, serve
  <2>2. DbInv'
    BY <1>0, <2>1, DbInvNext
  <2> QED BY <1>0, <1>2, <2>2, ReadType, SeenRead DEF ReaderInv
<1> QED BY <1>1, <1>2

\* The invariant says what a read sees.
LEMMA PrefixFromReader == ReaderInv => ReadsAPrefix
<1> SUFFICES ASSUME ReaderInv, reader.pc = "serve", failures = 0, ~reader.torn
             PROVE  View(reader.data) \in StatesFrom(0)
  BY DEF ReadsAPrefix
<1>0. Basic /\ ReaderType
  BY DEF ReaderInv, DbInv, Basic
<1>1. PICK m \in 0..Landed : \A k \in Key : Exact(Ctx, reader.data[k], k, m)
  BY DEF ReaderInv, SeenOK
<1>2. m \in 0..Len(log)
  BY <1>0, <1>1, Ranges
<1>3. View(FoldLeft(Applied, base, SubSeq(log, 1, m)))
        = [k \in Key |-> Shown(expired, Kept(ops, base[k], log, m, k))]
  <2>1. base \in State /\ log \in Seq(Nat) /\ ops \in Seq(OpType) /\ \A i \in DOMAIN log : log[i] \in 1..Len(ops)
    BY <1>0 DEF Basic, DbTypeOK, GhostType, OpsType, FramesOK
  <2> DEFINE b == base
             u == log
  <2>2. b \in State /\ u \in Seq(Nat) /\ m \in 0..Len(u) /\ \A i \in DOMAIN u : u[i] \in 1..Len(ops)
    BY <1>2, <2>1
  <2> HIDE DEF b, u
  <2>3. View(FoldLeft(Applied, b, SubSeq(u, 1, m)))
          = [k \in Key |-> Shown(expired, Kept(ops, b[k], u, m, k))]
    BY <2>1, <2>2, CommittedIsKept
  <2> QED BY <2>3 DEF b, u
<1>4. View(reader.data) = [k \in Key |-> Shown(expired, Kept(ops, base[k], log, m, k))]
  <2>1. \A k \in Key : Shown(expired, reader.data[k]) = Shown(expired, Kept(ops, base[k], log, m, k))
    BY <1>1, CtxFields DEF Exact
  <2> QED BY <2>1 DEF View, Shown
<1> QED BY <1>2, <1>3, <1>4 DEF StatesFrom

\* withReader: a read sees the store as it was after a first part of the committed
\* operations, whatever the writer and its compactions do meanwhile, as long as no
\* write of the log has failed and no rotation has replaced db.wal between the two
\* reads of the last open.
THEOREM ReadsFindAPrefix == Spec => []ReadsAPrefix
<1> QED BY ReaderInvInit, ReaderInvNext, PrefixFromReader, PTL DEF Spec
=============================================================================
