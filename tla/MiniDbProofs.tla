---------------------------- MODULE MiniDbProofs ----------------------------
(***************************************************************************)
(* Proofs about MiniDb, for all keys, operations and bounds.               *)
(*                                                                         *)
(* Replay folds frames into a store.  The first part puts it in closed     *)
(* form: what a key holds in the end is what the last frame that touches   *)
(* it put there (Kept).  The invariant then says, for the store, for what  *)
(* a rejected write is rolled back to and for every pair of files a crash  *)
(* may meet, that each key has a right value after the first m committed   *)
(* operations (Good): exactly theirs when no write of the log failed, and  *)
(* never older than a write that was not rejected.  Its remaining parts    *)
(* say how much of the log has landed, what the compaction has copied,     *)
(* and which of its records the log behind the fence repairs.              *)
(***************************************************************************)
EXTENDS MiniDb, QueueLemmas

(***************************************************************************)
(* Replay in closed form: the last frame that touches a key decides.       *)
(***************************************************************************)
Shown(e, v) == IF v \in e THEN 0 ELSE v
Touches(o, n, k) == n # Torn /\ o[n][k] # "keep"
Put(o, n, k) == IF o[n][k] = "set" THEN n ELSE 0
Touching(o, w, t, k) == {i \in t : Touches(o, w[i], k)}

\* The value of key k when the frames of w at the positions t are applied to v,
\* those of e having no effect but to delete.
Value(o, e, v, w, t, k) ==
  IF Touching(o, w, t, k) = {} THEN v
  ELSE Shown(e, Put(o, w[Max(Touching(o, w, t, k))], k))

Never == {}    \* no TTL has elapsed
State == [Key -> Nat]
OpType == [Key -> {"keep", "set", "del"}]

\* Taking the last of the chosen frames away.
LEMMA ValueStep ==
  ASSUME NEW o, NEW e, NEW v, NEW w \in Seq(Nat), NEW t \in SUBSET (1..Len(w)), t # {}, NEW k
  PROVE  Value(o, e, v, w, t, k) =
           IF Touches(o, w[Max(t)], k) THEN Shown(e, Put(o, w[Max(t)], k))
           ELSE Value(o, e, v, w, t \ {Max(t)}, k)
<1>0. Len(w) \in Nat
  OBVIOUS
<1>1. Max(t) \in t /\ \A y \in t : y <= Max(t)
  BY <1>0, MaxFacts
<1> DEFINE H == Touching(o, w, t, k)
           J == Touching(o, w, t \ {Max(t)}, k)
<1>2. CASE Touches(o, w[Max(t)], k)
  <2>1. Max(t) \in H /\ H # {} /\ H \in SUBSET (1..Len(w))
    BY <1>1, <1>2 DEF Touching
  <2>2. Max(H) \in H /\ \A y \in H : y <= Max(H)
    BY <1>0, <2>1, MaxFacts
  <2>3. Max(H) \in t /\ Max(t) <= Max(H) /\ Max(H) <= Max(t)
    BY <1>1, <2>1, <2>2 DEF Touching
  <2>4. Max(H) = Max(t)
    <3>1. Max(H) \in 1..Len(w) /\ Max(t) \in 1..Len(w)
      BY <1>1, <2>3
    <3> QED BY <3>1, <2>3
  <2> QED
    BY <1>2, <2>1, <2>4 DEF Value
<1>3. CASE ~Touches(o, w[Max(t)], k)
  <2>1. H = J
    BY <1>3 DEF Touching
  <2> QED
    BY <1>3, <2>1 DEF Value
<1> QED BY <1>2, <1>3

\* Either no frame touches the key, or the last one that does decides.
LEMMA ValueCases ==
  ASSUME NEW o, NEW e, NEW v, NEW w \in Seq(Nat), NEW t \in SUBSET (1..Len(w)), NEW k
  PROVE  \/ /\ \A i \in t : ~Touches(o, w[i], k)
            /\ Value(o, e, v, w, t, k) = v
         \/ \E i \in t :
              /\ Touches(o, w[i], k)
              /\ \A j \in t : Touches(o, w[j], k) => j <= i
              /\ Value(o, e, v, w, t, k) = Shown(e, Put(o, w[i], k))
<1>0. Len(w) \in Nat
  OBVIOUS
<1> DEFINE H == Touching(o, w, t, k)
<1>1. CASE H = {}
  BY <1>1 DEF Value, Touching
<1>2. CASE H # {}
  <2>1. H \in SUBSET (1..Len(w))
    BY DEF Touching
  <2>2. Max(H) \in H /\ \A y \in H : y <= Max(H)
    BY <1>0, <1>2, <2>1, MaxFacts
  <2> QED
    BY <1>2, <2>2 DEF Value, Touching
<1> QED BY <1>1, <1>2

\* FoldLeft, as the function on sets of positions that defines it.
LEMMA ReplayIsValue ==
  ASSUME NEW st \in State, NEW w \in Seq(Nat), ops \in Seq(OpType),
         \A i \in DOMAIN w : w[i] \in 0..Len(ops), expired \subseteq 1..Len(ops)
  PROVE  FoldLeft(Replayed, st, w) = [k \in Key |-> Value(ops, expired, st[k], w, 1..Len(w), k)]
<1> DEFINE n == Len(w)
           D == SUBSET (1..n)
           Body(f, t) == IF t = {} THEN st ELSE Replayed(f[t \ {Max(t)}], w[Max(t)])
           c == CHOOSE f : f = [t \in D |-> Body(f, t)]
           Part(t) == [k \in Key |-> Value(ops, expired, st[k], w, t, k)]
           g == [t \in D |-> Part(t)]
<1>0. n \in Nat /\ DOMAIN w = 1..n
  BY LenProperties
<1>1. FoldLeft(Replayed, st, w) = c[1..n]
  BY <1>0 DEF FoldLeft, MapThenFoldSet
<1>2. ASSUME NEW t \in D PROVE g[t] = Body(g, t)
  <2>1. CASE t = {}
    <3>1. Part({}) = st
      BY DEF Value, Touching, State
    <3> QED BY <2>1, <3>1
  <2>2. CASE t # {}
    <3> DEFINE r == t \ {Max(t)}
               m == w[Max(t)]
    <3>1. r \in D /\ m \in 0..Len(ops)
      <4>1. Max(t) \in t
        BY <1>0, <2>2, MaxFacts
      <4> QED BY <1>0, <4>1
    <3>2. \A k \in Key : Value(ops, expired, st[k], w, t, k) =
             IF Touches(ops, m, k) THEN Shown(expired, Put(ops, m, k))
             ELSE Value(ops, expired, st[k], w, r, k)
      <4>1. t \in SUBSET (1..Len(w))
        BY <1>0
      <4>2. ASSUME NEW v, NEW k
            PROVE  Value(ops, expired, v, w, t, k) =
                     IF Touches(ops, w[Max(t)], k) THEN Shown(expired, Put(ops, w[Max(t)], k))
                     ELSE Value(ops, expired, v, w, t \ {Max(t)}, k)
        <5> HIDE DEF n, D
        <5> QED BY <4>1, <2>2, ValueStep
      <4> QED BY <4>2
    <3>3. m # 0 => ops[m] \in OpType
      BY <3>1
    <3> HIDE DEF m, r
    <3>4. Part(t) = Replayed(Part(r), m)
      <4>1. CASE m = 0
        BY <3>2, <4>1 DEF Replayed, Torn, Touches
      <4>2. CASE m # 0
        BY <3>1, <3>2, <3>3, <4>2 DEF Replayed, Torn, Touches, Put, Shown, Applied, OpType
      <4> QED BY <4>1, <4>2
    <3>5. Body(g, t) = Replayed(g[r], m)
      BY <2>2 DEF r, m
    <3> QED BY <3>1, <3>4, <3>5
  <2> QED BY <2>1, <2>2
<1>3. g = [t \in D |-> Body(g, t)]
  BY <1>2
<1>4. c = [t \in D |-> Body(c, t)]
  BY <1>3
<1> DEFINE B == {c[t] : t \in D} \cup {g[t] : t \in D}
           G == [i \in 1..n |-> [a \in B |-> Replayed(a, w[i])]]
<1> HIDE DEF c, g
<1>5. \A t \in D : t # {} => Max(t) \in 1..n /\ t \ {Max(t)} \in D
  BY <1>0, MaxFacts
<1>6. Iterates(c, n, st, G)
  BY <1>4, <1>5 DEF Iterates, FoldStep
<1>7. Iterates(g, n, st, G)
  BY <1>3, <1>5 DEF Iterates, FoldStep
<1>8. c[1..n] = g[1..n]
  <2>1. 1..n \in SUBSET (1..n)
    OBVIOUS
  <2> HIDE DEF n, D, G, B
  <2> QED BY <1>0, <1>6, <1>7, <2>1, IterationUnique
<1> QED
  BY <1>0, <1>1, <1>8 DEF g

\* Applying operations to a store, likewise (no TTL counts).
LEMMA ApplyIsValue ==
  ASSUME NEW st \in State, NEW w \in Seq(Nat), ops \in Seq(OpType),
         \A i \in DOMAIN w : w[i] \in 1..Len(ops)
  PROVE  FoldLeft(Applied, st, w) = [k \in Key |-> Value(ops, Never, st[k], w, 1..Len(w), k)]
<1> DEFINE n == Len(w)
           D == SUBSET (1..n)
           Body(f, t) == IF t = {} THEN st ELSE Applied(f[t \ {Max(t)}], w[Max(t)])
           c == CHOOSE f : f = [t \in D |-> Body(f, t)]
           Part(t) == [k \in Key |-> Value(ops, Never, st[k], w, t, k)]
           g == [t \in D |-> Part(t)]
<1>0. n \in Nat /\ DOMAIN w = 1..n
  BY LenProperties
<1>1. FoldLeft(Applied, st, w) = c[1..n]
  BY <1>0 DEF FoldLeft, MapThenFoldSet
<1>2. ASSUME NEW t \in D PROVE g[t] = Body(g, t)
  <2>1. CASE t = {}
    <3>1. Part({}) = st
      BY DEF Value, Touching, State
    <3> QED BY <2>1, <3>1
  <2>2. CASE t # {}
    <3> DEFINE r == t \ {Max(t)}
               m == w[Max(t)]
    <3>1. r \in D /\ m \in 1..Len(ops)
      <4>1. Max(t) \in t
        BY <1>0, <2>2, MaxFacts
      <4> QED BY <1>0, <4>1
    <3>2. \A k \in Key : Value(ops, Never, st[k], w, t, k) =
             IF Touches(ops, m, k) THEN Shown(Never, Put(ops, m, k))
             ELSE Value(ops, Never, st[k], w, r, k)
      <4>1. t \in SUBSET (1..Len(w))
        BY <1>0
      <4>2. ASSUME NEW v, NEW k
            PROVE  Value(ops, Never, v, w, t, k) =
                     IF Touches(ops, w[Max(t)], k) THEN Shown(Never, Put(ops, w[Max(t)], k))
                     ELSE Value(ops, Never, v, w, t \ {Max(t)}, k)
        <5> HIDE DEF n, D
        <5> QED BY <4>1, <2>2, ValueStep
      <4> QED BY <4>2
    <3>3. ops[m] \in OpType
      BY <3>1
    <3> HIDE DEF m, r
    <3>4. Part(t) = Applied(Part(r), m)
      BY <3>1, <3>2, <3>3 DEF Torn, Touches, Put, Shown, Never, Applied, OpType
    <3>5. Body(g, t) = Applied(g[r], m)
      BY <2>2 DEF r, m
    <3> QED BY <3>1, <3>4, <3>5
  <2> QED BY <2>1, <2>2
<1>3. g = [t \in D |-> Body(g, t)]
  BY <1>2
<1>4. c = [t \in D |-> Body(c, t)]
  BY <1>3
<1> DEFINE B == {c[t] : t \in D} \cup {g[t] : t \in D}
           G == [i \in 1..n |-> [a \in B |-> Applied(a, w[i])]]
<1> HIDE DEF c, g
<1>5. \A t \in D : t # {} => Max(t) \in 1..n /\ t \ {Max(t)} \in D
  BY <1>0, MaxFacts
<1>6. Iterates(c, n, st, G)
  BY <1>4, <1>5 DEF Iterates, FoldStep
<1>7. Iterates(g, n, st, G)
  BY <1>3, <1>5 DEF Iterates, FoldStep
<1>8. c[1..n] = g[1..n]
  <2>1. 1..n \in SUBSET (1..n)
    OBVIOUS
  <2> HIDE DEF n, D, G, B
  <2> QED BY <1>0, <1>6, <1>7, <2>1, IterationUnique
<1> QED
  BY <1>0, <1>1, <1>8 DEF g

-----------------------------------------------------------------------------
\* What the first n frames of w make of the value v of key k.
Kept(o, v, w, n, k) == Value(o, Never, v, w, 1..n, k)

\* Either none of the first n frames touches the key, or the last one that does
\* decides.
LEMMA KeptCases ==
  ASSUME NEW o, NEW v, NEW w \in Seq(Nat), NEW n \in 0..Len(w), NEW k
  PROVE  \/ /\ \A i \in 1..n : ~Touches(o, w[i], k)
            /\ Kept(o, v, w, n, k) = v
         \/ \E i \in 1..n :
              /\ Touches(o, w[i], k)
              /\ \A j \in 1..n : Touches(o, w[j], k) => j <= i
              /\ Kept(o, v, w, n, k) = Put(o, w[i], k)
<1> DEFINE t == 1..n
<1>1. t \in SUBSET (1..Len(w))
  OBVIOUS
<1>2. \A x : Shown(Never, x) = x
  BY DEF Shown, Never
<1>3. \/ (\A i \in t : ~Touches(o, w[i], k)) /\ Value(o, Never, v, w, t, k) = v
      \/ \E i \in t :
           /\ Touches(o, w[i], k)
           /\ \A j \in t : Touches(o, w[j], k) => j <= i
           /\ Value(o, Never, v, w, t, k) = Shown(Never, Put(o, w[i], k))
  <2> HIDE DEF t
  <2> QED BY <1>1, ValueCases
<1> QED
  BY <1>2, <1>3 DEF Kept

\* recover() of a snapshot and a log.
LEMMA RecoverIsKept ==
  ASSUME NEW s \in State, NEW w \in Seq(Nat), ops \in Seq(OpType),
         \A i \in DOMAIN w : w[i] \in 0..Len(ops), expired \subseteq 1..Len(ops)
  PROVE  recover(s, w) = [k \in Key |-> Shown(expired, Kept(ops, s[k], w, Len(w), k))]
<1>1. View(s) \in State
  BY DEF View, State
<1>2. recover(s, w) = [k \in Key |-> Value(ops, expired, View(s)[k], w, 1..Len(w), k)]
  BY <1>1, ReplayIsValue DEF recover
<1>3. ASSUME NEW k \in Key
      PROVE  Value(ops, expired, View(s)[k], w, 1..Len(w), k)
               = Shown(expired, Kept(ops, s[k], w, Len(w), k))
  BY <1>1 DEF View, Kept, Value, Shown, Never
<1> QED BY <1>2, <1>3

\* The store after the first m committed operations.
LEMMA CommittedIsKept ==
  ASSUME NEW b \in State, NEW w \in Seq(Nat), ops \in Seq(OpType), NEW m \in 0..Len(w),
         \A i \in DOMAIN w : w[i] \in 1..Len(ops)
  PROVE  View(FoldLeft(Applied, b, SubSeq(w, 1, m)))
           = [k \in Key |-> Shown(expired, Kept(ops, b[k], w, m, k))]
<1> DEFINE u == SubSeq(w, 1, m)
<1>1. u \in Seq(Nat) /\ Len(u) = m /\ \A i \in 1..m : u[i] = w[i]
  BY SubSeqProperties
<1>2. \A i \in DOMAIN u : u[i] \in 1..Len(ops)
  BY <1>1
<1> HIDE DEF u
<1>3. FoldLeft(Applied, b, u) = [k \in Key |-> Value(ops, Never, b[k], u, 1..m, k)]
  BY <1>1, <1>2, ApplyIsValue
<1>4. ASSUME NEW k \in Key
      PROVE  Value(ops, Never, b[k], u, 1..m, k) = Kept(ops, b[k], w, m, k)
  <2>1. Touching(ops, u, 1..m, k) = Touching(ops, w, 1..m, k)
    BY <1>1 DEF Touching
  <2>2. 1..m \in SUBSET (1..Len(w)) /\ Touching(ops, w, 1..m, k) \in SUBSET (1..m) /\ m \in Nat
    BY DEF Touching
  <2>3. Touching(ops, w, 1..m, k) # {} => Max(Touching(ops, w, 1..m, k)) \in 1..m
    BY <2>2, MaxFacts
  <2> QED BY <1>1, <2>1, <2>3 DEF Value, Kept
<1> QED
  BY <1>3, <1>4 DEF View, Shown, u

\* Kept depends on what the frames write to the key, not on the sequence they
\* are read from.
LEMMA KeptSame ==
  ASSUME NEW o, NEW p, NEW v, NEW w \in Seq(Nat), NEW u \in Seq(Nat), NEW k,
         NEW n \in 0..Len(w), n <= Len(u),
         \A i \in 1..n : u[i] = w[i] /\ (w[i] # 0 => p[w[i]][k] = o[w[i]][k])
  PROVE  Kept(p, v, u, n, k) = Kept(o, v, w, n, k)
<1>1. \A i \in 1..n : /\ Touches(p, u[i], k) <=> Touches(o, w[i], k)
                      /\ Touches(o, w[i], k) => Put(p, u[i], k) = Put(o, w[i], k)
  BY DEF Touches, Put, Torn
<1>2. n \in 0..Len(u) /\ n \in 0..Len(w)
  OBVIOUS
<1>3. \/ (\A i \in 1..n : ~Touches(o, w[i], k)) /\ Kept(o, v, w, n, k) = v
      \/ \E i \in 1..n :
           /\ Touches(o, w[i], k)
           /\ \A j \in 1..n : Touches(o, w[j], k) => j <= i
           /\ Kept(o, v, w, n, k) = Put(o, w[i], k)
  BY <1>2, KeptCases
<1>4. \/ (\A i \in 1..n : ~Touches(p, u[i], k)) /\ Kept(p, v, u, n, k) = v
      \/ \E i \in 1..n :
           /\ Touches(p, u[i], k)
           /\ \A j \in 1..n : Touches(p, u[j], k) => j <= i
           /\ Kept(p, v, u, n, k) = Put(p, u[i], k)
  BY <1>2, KeptCases, SMTT(30)
<1> QED BY <1>1, <1>3, <1>4

\* The next frame.
LEMMA KeptNext ==
  ASSUME NEW o, NEW v, NEW w \in Seq(Nat), NEW k, NEW n \in Nat, n + 1 <= Len(w)
  PROVE  Kept(o, v, w, n + 1, k) =
           IF Touches(o, w[n + 1], k) THEN Put(o, w[n + 1], k) ELSE Kept(o, v, w, n, k)
<1>1. n + 1 \in 0..Len(w) /\ n \in 0..Len(w)
  OBVIOUS
<1>2. \/ (\A i \in 1..n : ~Touches(o, w[i], k)) /\ Kept(o, v, w, n, k) = v
      \/ \E i \in 1..n :
           /\ Touches(o, w[i], k)
           /\ \A j \in 1..n : Touches(o, w[j], k) => j <= i
           /\ Kept(o, v, w, n, k) = Put(o, w[i], k)
  BY <1>1, KeptCases
<1>3. \/ (\A i \in 1..(n + 1) : ~Touches(o, w[i], k)) /\ Kept(o, v, w, n + 1, k) = v
      \/ \E i \in 1..(n + 1) :
           /\ Touches(o, w[i], k)
           /\ \A j \in 1..(n + 1) : Touches(o, w[j], k) => j <= i
           /\ Kept(o, v, w, n + 1, k) = Put(o, w[i], k)
  BY <1>1, KeptCases, SMTT(30)
<1> QED BY <1>2, <1>3

\* No frame, no change.
LEMMA KeptNone ==
  ASSUME NEW o, NEW v, NEW w \in Seq(Nat), NEW k
  PROVE  Kept(o, v, w, 0, k) = v
<1>1. 0 \in 0..Len(w)
  OBVIOUS
<1> QED BY <1>1, KeptCases

\* A value is a number, and 0 when hidden; more elapsed TTLs hide more.
LEMMA ShownFacts ==
  ASSUME NEW e, NEW f, e \subseteq f, 0 \notin f
  PROVE  /\ \A v : Shown(e, Shown(e, v)) = Shown(e, v)
         /\ Shown(e, 0) = 0
         /\ \A v : Shown(f, Shown(e, v)) = Shown(f, v)
         /\ \A v, x : Shown(e, v) = Shown(e, x) => Shown(f, v) = Shown(f, x)
<1>1. \A v : Shown(f, Shown(e, v)) = Shown(f, v)
  BY DEF Shown
<1> QED BY <1>1 DEF Shown

\* Values are numbers.
LEMMA KeptType ==
  ASSUME NEW o, NEW v \in Nat, NEW w \in Seq(Nat), NEW k, NEW n \in 0..Len(w)
  PROVE  Kept(o, v, w, n, k) \in Nat
<1>1. \A i \in 1..n : Put(o, w[i], k) \in Nat
  BY DEF Put
<1> QED BY <1>1, KeptCases

\* Values that look the same go on looking the same.
LEMMA KeptShown ==
  ASSUME NEW o, NEW e, NEW v, NEW x, NEW w \in Seq(Nat), NEW k, NEW n \in 0..Len(w),
         Shown(e, v) = Shown(e, x)
  PROVE  Shown(e, Kept(o, v, w, n, k)) = Shown(e, Kept(o, x, w, n, k))
<1>1. \/ Kept(o, v, w, n, k) = Kept(o, x, w, n, k)
      \/ Kept(o, v, w, n, k) = v /\ Kept(o, x, w, n, k) = x
  BY DEF Kept, Value
<1> QED BY <1>1

-----------------------------------------------------------------------------
(***************************************************************************)
(* The inductive invariant.                                                *)
(***************************************************************************)
\* How many operations of the log have left the queue, and how many are in
\* the file or were rejected.
Taken == Len(log) - Len(queue) - Len(inflight)
Landed == Taken + landed

\* What decides which value of a key counts as right.
Ctx == [ops |-> ops, expired |-> expired, status |-> status, log |-> log,
        base |-> base, failures |-> failures]

Failed(c, i) == c.status[c.log[i]] = "failed"
Wrote(c, i, k) == c.ops[c.log[i]][k] # "keep"
Clean(c, k) == \A i \in 1..Len(c.log) : Failed(c, i) => c.ops[c.log[i]][k] # "del"

\* v is what operation i, or a later one of the first m, gave the key k.
From(c, v, k, i, m) ==
  \E j \in i..m : /\ Wrote(c, j, k)
                  /\ Shown(c.expired, v) = Shown(c.expired, Put(c.ops, c.log[j], k))

\* v is a right value of key k after the first m operations: exactly theirs when
\* no write of the log has failed, and never older than one that has not failed.
Exact(c, v, k, m) ==
  Shown(c.expired, v) = Shown(c.expired, Kept(c.ops, c.base[k], c.log, m, k))
Fits(c, v, k, m) ==
  \A i \in 1..m : Wrote(c, i, k) /\ ~Failed(c, i) => From(c, v, k, i, m)
Good(c, v, k, m) ==
  /\ c.failures = 0 => Exact(c, v, k, m)
  /\ Clean(c, k) => Fits(c, v, k, m)

OpStatus == {"parked", "gated", "retry", "pending", "acked", "failed", "done", "lost"}
Copying == {"snapshot", "precopy", "drain"}
Swapping == {"renameSnap", "syncSnap", "renameWal"}
Sealing == {"drain", "renameSnap", "syncSnap", "renameWal", "syncWal", "open"}
CompType == [phase : {"none", "fence", "snapshot", "precopy"} \cup Sealing, base : Nat,
             snap : State, todo : SUBSET Key, tail : Seq(Nat), copied : Nat, count : Nat]

OpsType ==
  /\ ops \in Seq(OpType) /\ status \in Seq(OpStatus) /\ prev \in Seq(State)
  /\ Len(status) = Len(ops) /\ Len(prev) = Len(ops)
  /\ expired \subseteq 1..Len(ops)
MemType == store \in State /\ own \subseteq Key /\ policy \in {"always", "everysec"}
WalType ==
  /\ queue \in Seq(Nat) /\ inflight \in Seq(Nat) /\ landed \in 0..Len(inflight)
  /\ sealed \in BOOLEAN /\ rotateLock \in BOOLEAN
DiskType ==
  /\ file \in Seq(Nat) /\ synced \in 0..Len(file) /\ snapshot \in State
  /\ oldSnap \subseteq State /\ oldWal \subseteq Seq(Nat)
GhostType == base \in State /\ log \in Seq(Nat) /\ failures \in Nat
DbTypeOK ==
  OpsType /\ MemType /\ WalType /\ DiskType /\ comp \in CompType /\ GhostType

FramesOK ==
  /\ \A i \in 1..Len(file) : file[i] \in 0..Len(ops)
  /\ \A i \in 1..Len(comp.tail) : comp.tail[i] \in 0..Len(ops)
  /\ \A w \in oldWal : \A i \in 1..Len(w) : w[i] \in 0..Len(ops)
  /\ \A i \in 1..Len(log) : log[i] \in 1..Len(ops)

\* The end of the log is the batch under way and what is queued behind it.
QueueOK ==
  /\ Len(queue) + Len(inflight) <= Len(log)
  /\ \A i \in 1..Len(inflight) : inflight[i] = log[Taken + i]
  /\ \A i \in 1..Len(queue) : queue[i] = log[Taken + Len(inflight) + i]
  /\ \A i, j \in 1..Len(log) : log[i] = log[j] => i = j
  /\ \A i \in 1..Len(log) : status[log[i]] \in {"pending", "acked", "failed", "lost"}
  /\ \A i \in 1..Len(log) : i > Taken => status[log[i]] = "pending"

\* Where a compaction is, and what it has copied of the log file.
CompOK ==
  /\ sealed <=> comp.phase \in Sealing
  /\ rotateLock <=> comp.phase \in Sealing
  /\ comp.phase \in Sealing \ {"drain"} => Flushed
  /\ comp.phase # "snapshot" => comp.todo = {}
  /\ comp.phase = "fence" => comp.tail = << >> /\ comp.snap = Empty
  /\ comp.phase \in Copying \cup Swapping =>
       /\ comp.base <= comp.copied /\ comp.copied <= Len(file)
       /\ Len(comp.tail) = comp.copied - comp.base
       /\ \A i \in 1..Len(comp.tail) : comp.tail[i] = file[comp.base + i]
  /\ comp.phase \in Swapping => comp.copied = Len(file) /\ synced = Len(file)
  /\ comp.phase \in {"syncSnap", "renameWal"} => snapshot = comp.snap

StoreOK == \A k \in Key : Good(Ctx, store[k], k, Len(log))

\* What a rejected operation is rolled back to.
PrevOK ==
  \A i \in 1..Len(log) : i > Taken => \A k \in Key : Good(Ctx, prev[log[i]][k], k, i - 1)

\* A record that is still its operation's own has not been written since.
OwnOK ==
  \A k \in own : \A i \in 1..Len(log) :
    store[k] = log[i] => \A j \in 1..Len(log) : j > i => ~Wrote(Ctx, j, k)

\* The files hold what has landed.
OnDisk(s, w, n, k) == Kept(ops, s[k], w, n, k)
DiskOK == \A k \in Key : Good(Ctx, OnDisk(snapshot, file, Len(file), k), k, Landed)

\* So does what a power failure leaves of the log file, up to where it is cut.
Cut(n) == Landed - Len(file) + n
PrefixOK ==
  /\ failures = 0 =>
       /\ 0 <= Cut(synced)
       /\ \A n \in synced..Len(file) : \A k \in Key :
            Exact(Ctx, OnDisk(snapshot, file, n, k), k, Cut(n))
       /\ policy = "always" =>
            \A i \in 1..Len(log) : status[log[i]] = "acked" => i <= Cut(synced)
  /\ policy = "always" =>
       \A n \in synced..Len(file) : \A k \in Key : Clean(Ctx, k) =>
         \A i \in 1..Len(log) : Wrote(Ctx, i, k) /\ status[log[i]] = "acked" =>
           From(Ctx, OnDisk(snapshot, file, n, k), k, i, Landed)

\* While the snapshot is written: behind the fence at F the file is the log,
\* without the operations that failed ...
Behind(F) ==
  /\ \A p \in 1..Len(file) : p > comp.base /\ file[p] # Torn =>
       \E j \in 1..Landed : j > F /\ file[p] = log[j]
  /\ \A i \in 1..Landed : i > F /\ ~Failed(Ctx, i) =>
       \E p \in 1..Len(file) : p > comp.base /\ file[p] = log[i]
  /\ \A p, q \in 1..Len(file) : \A i, j \in 1..Landed :
       comp.base < p /\ p < q /\ file[p] = log[i] /\ file[q] = log[j] => i < j
\* ... and a record of the snapshot is the store's, or older than the fence by
\* no more than what the file behind it repairs.
Unvisited(k) == k \in comp.todo /\ comp.snap[k] = 0
SnapOK(F) ==
  \A k \in Key :
    /\ failures = 0 =>
         \/ \E i \in 1..Len(log) : i > F /\ Wrote(Ctx, i, k)
         \/ Unvisited(k)
         \/ Shown(expired, comp.snap[k]) = Shown(expired, store[k])
    /\ Clean(Ctx, k) =>
         \/ Unvisited(k)
         \/ \A i \in 1..F : Wrote(Ctx, i, k) /\ ~Failed(Ctx, i) =>
              From(Ctx, comp.snap[k], k, i, Len(log))
CopyOK == comp.phase \in Copying => \E F \in 0..Landed : Behind(F) /\ SnapOK(F)

\* While the files are swapped every pair of them will do.
SwapOK ==
  /\ comp.phase \in Swapping => \A k \in Key :
       /\ Good(Ctx, OnDisk(comp.snap, file, Len(file), k), k, Len(log))
       /\ Good(Ctx, OnDisk(comp.snap, comp.tail, Len(comp.tail), k), k, Len(log))
  /\ comp.phase = "syncSnap" => \A s \in oldSnap : \A k \in Key :
       Good(Ctx, OnDisk(s, file, Len(file), k), k, Len(log))
  /\ comp.phase = "syncWal" => \A w \in oldWal : \A k \in Key :
       Good(Ctx, OnDisk(snapshot, w, Len(w), k), k, Len(log))

NothingFailed ==
  failures = 0 =>
    /\ \A i \in 1..Len(file) : file[i] # Torn
    /\ \A w \in oldWal : \A i \in 1..Len(w) : w[i] # Torn
    /\ \A i \in 1..Len(log) : ~Failed(Ctx, i)

DbInv ==
  /\ DbTypeOK /\ FramesOK /\ QueueOK /\ CompOK
  /\ StoreOK /\ PrevOK /\ OwnOK /\ DiskOK /\ PrefixOK /\ CopyOK /\ SwapOK /\ NothingFailed

-----------------------------------------------------------------------------
(***************************************************************************)
(* How a right value stays right.                                          *)
(***************************************************************************)
\* Context d comes after c, as far as the first m operations go.
Later(c, d, m) ==
  /\ c.log \in Seq(Nat) /\ d.log \in Seq(Nat)
  /\ m \in Nat /\ m <= Len(c.log) /\ m <= Len(d.log)
  /\ \A i \in 1..m : /\ d.log[i] = c.log[i]
                     /\ d.ops[c.log[i]] = c.ops[c.log[i]]
                     /\ Failed(c, i) => Failed(d, i)
  /\ c.expired \subseteq d.expired /\ 0 \notin d.expired
  /\ d.base = c.base
  /\ d.failures = 0 => c.failures = 0
  /\ \A k \in Key : Clean(d, k) => Clean(c, k)

\* A value from operation i on is one in a later context.
LEMMA FromLater ==
  ASSUME NEW c, NEW d, NEW m, Later(c, d, m), NEW v, NEW k, NEW i \in 1..m, From(c, v, k, i, m)
  PROVE  From(d, v, k, i, m)
<1>1. PICK j \in i..m : /\ Wrote(c, j, k)
                        /\ Shown(c.expired, v) = Shown(c.expired, Put(c.ops, c.log[j], k))
  BY DEF From
<1>2. j \in 1..m /\ m \in Nat
  BY DEF Later
<1>3. d.log[j] = c.log[j] /\ d.ops[c.log[j]] = c.ops[c.log[j]]
  BY <1>2 DEF Later
<1>4. Shown(d.expired, v) = Shown(d.expired, Put(c.ops, c.log[j], k))
  BY <1>1 DEF Shown, Later
<1>5. Put(d.ops, d.log[j], k) = Put(c.ops, c.log[j], k)
  BY <1>3 DEF Put
<1> QED
  BY <1>1, <1>3, <1>4, <1>5 DEF From, Wrote

\* An exact value stays exact.
LEMMA ExactLater ==
  ASSUME NEW c, NEW d, NEW m, Later(c, d, m), NEW v, NEW k, Exact(c, v, k, m)
  PROVE  Exact(d, v, k, m)
<1>1. Kept(d.ops, d.base[k], d.log, m, k) = Kept(c.ops, c.base[k], c.log, m, k)
  <2>1. m \in 0..Len(c.log) /\ m <= Len(d.log) /\ c.log \in Seq(Nat) /\ d.log \in Seq(Nat)
    BY DEF Later
  <2>2. \A i \in 1..m : /\ d.log[i] = c.log[i]
                        /\ c.log[i] # 0 => d.ops[c.log[i]][k] = c.ops[c.log[i]][k]
    BY DEF Later
  <2>3. d.base[k] = c.base[k]
    BY DEF Later
  <2>4. Kept(d.ops, c.base[k], d.log, m, k) = Kept(c.ops, c.base[k], c.log, m, k)
    <3> DEFINE w == c.log
               u == d.log
               o == c.ops
               p == d.ops
    <3>1. w \in Seq(Nat) /\ u \in Seq(Nat) /\ m \in 0..Len(w) /\ m <= Len(u)
      BY <2>1
    <3>2. \A i \in 1..m : u[i] = w[i] /\ (w[i] # 0 => p[w[i]][k] = o[w[i]][k])
      BY <2>2
    <3> HIDE DEF w, u, o, p
    <3>3. Kept(p, c.base[k], u, m, k) = Kept(o, c.base[k], w, m, k)
      BY <3>1, <3>2, KeptSame
    <3> QED BY <3>3 DEF w, u, o, p
  <2> QED BY <2>3, <2>4
<1> QED
  BY <1>1 DEF Exact, Later, Shown

\* A right value stays right.
LEMMA GoodLater ==
  ASSUME NEW c, NEW d, NEW m, Later(c, d, m), NEW v, NEW k \in Key, Good(c, v, k, m)
  PROVE  Good(d, v, k, m)
<1>1. ASSUME d.failures = 0 PROVE Exact(d, v, k, m)
  <2>1. Exact(c, v, k, m)
    BY <1>1 DEF Good, Later
  <2> QED BY <2>1, ExactLater
<1>2. ASSUME Clean(d, k), NEW i \in 1..m, Wrote(d, i, k), ~Failed(d, i)
      PROVE  From(d, v, k, i, m)
  <2>1. Clean(c, k) /\ Wrote(c, i, k) /\ ~Failed(c, i)
    BY <1>2 DEF Later, Wrote
  <2>2. From(c, v, k, i, m)
    BY <2>1 DEF Good, Fits
  <2> QED BY <2>2, FromLater
<1> QED
  BY <1>1, <1>2 DEF Good, Fits

\* Only what is shown of a value counts.
LEMMA GoodShown ==
  ASSUME NEW c, NEW m, NEW v, NEW x, NEW k, Shown(c.expired, x) = Shown(c.expired, v)
  PROVE  /\ Good(c, v, k, m) => Good(c, x, k, m)
         /\ Exact(c, v, k, m) => Exact(c, x, k, m)
         /\ \A i : From(c, v, k, i, m) => From(c, x, k, i, m)
<1>1. \A i : From(c, v, k, i, m) => From(c, x, k, i, m)
  BY DEF From
<1>2. Exact(c, v, k, m) => Exact(c, x, k, m)
  BY DEF Exact
<1> QED
  BY <1>1, <1>2 DEF Good, Fits

\* The next operation of the log.
LEMMA GoodNext ==
  ASSUME NEW c, c.log \in Seq(Nat), NEW m \in Nat, m + 1 <= Len(c.log), c.log[m + 1] # 0,
         NEW v, NEW k
  PROVE  /\ Wrote(c, m + 1, k) => Good(c, Put(c.ops, c.log[m + 1], k), k, m + 1)
         /\ ~Wrote(c, m + 1, k) /\ Good(c, v, k, m) => Good(c, v, k, m + 1)
         /\ ~Wrote(c, m + 1, k) /\ Exact(c, v, k, m) => Exact(c, v, k, m + 1)
         /\ Wrote(c, m + 1, k) => Exact(c, Put(c.ops, c.log[m + 1], k), k, m + 1)
<1>1. Touches(c.ops, c.log[m + 1], k) <=> Wrote(c, m + 1, k)
  BY DEF Touches, Wrote, Torn
<1>2. Kept(c.ops, c.base[k], c.log, m + 1, k) =
        IF Wrote(c, m + 1, k) THEN Put(c.ops, c.log[m + 1], k)
        ELSE Kept(c.ops, c.base[k], c.log, m, k)
  BY <1>1, KeptNext
<1>3. ASSUME Wrote(c, m + 1, k), NEW i \in 1..(m + 1)
      PROVE  From(c, Put(c.ops, c.log[m + 1], k), k, i, m + 1)
  BY <1>3 DEF From
<1>4. ASSUME ~Wrote(c, m + 1, k), Fits(c, v, k, m), NEW i \in 1..(m + 1), Wrote(c, i, k),
             ~Failed(c, i)
      PROVE  From(c, v, k, i, m + 1)
  <2>1. i \in 1..m
    <3>1. i # m + 1
      BY <1>4
    <3> QED BY <3>1
  <2>2. From(c, v, k, i, m)
    BY <1>4, <2>1 DEF Fits
  <2> QED BY <2>2 DEF From
<1> QED
  BY <1>2, <1>3, <1>4 DEF Good, Fits, Exact

\* Operations that failed do not count.
LEMMA GoodSkip ==
  ASSUME NEW c, NEW m \in Nat, NEW n \in Nat, m <= n, c.failures # 0,
         \A i \in 1..n : i > m => Failed(c, i), NEW v, NEW k, Good(c, v, k, m)
  PROVE  Good(c, v, k, n)
<1> SUFFICES ASSUME Clean(c, k), NEW i \in 1..n, Wrote(c, i, k), ~Failed(c, i)
             PROVE  From(c, v, k, i, n)
  BY DEF Good, Fits
<1>1. i \in 1..m
  OBVIOUS
<1>2. From(c, v, k, i, m)
  BY <1>1 DEF Good, Fits
<1> QED BY <1>2 DEF From

\* Rolling a batch back stays in every set that rolling one operation of it back
\* does not leave.
LEMMA RestoreStays ==
  ASSUME NEW A, NEW st \in A, NEW w \in Seq(Nat),
         \A m \in A : \A i \in 1..Len(w) : RestoreKeys(m, w[i]) \in A
  PROVE  FoldLeft(RestoreKeys, st, w) \in A
<1> DEFINE n == Len(w)
           D == SUBSET (1..n)
           Body(f, t) == IF t = {} THEN st ELSE RestoreKeys(f[t \ {Max(t)}], w[Max(t)])
           c == CHOOSE f : f = [t \in D |-> Body(f, t)]
           H == [i \in 1..n |-> [a \in A |-> RestoreKeys(a, w[i])]]
<1>0. n \in Nat /\ DOMAIN w = 1..n
  BY LenProperties
<1>1. FoldLeft(RestoreKeys, st, w) = c[1..n]
  BY <1>0 DEF FoldLeft, MapThenFoldSet
<1>2. \A t \in D : t # {} => Max(t) \in 1..n /\ t \ {Max(t)} \in D
  BY <1>0, MaxFacts
<1>3. H \in [1..n -> [A -> A]]
  OBVIOUS
<1>4. PICK it \in [D -> A] : Iterates(it, n, st, H)
  <2> HIDE DEF H, n
  <2> QED BY <1>0, <1>3, IterationExists
<1>5. it = [t \in D |-> Body(it, t)]
  BY <1>2, <1>4 DEF Iterates, FoldStep
<1>6. c = [t \in D |-> Body(c, t)]
  BY <1>5
<1> DEFINE B == {c[t] : t \in D} \cup {it[t] : t \in D}
           G == [i \in 1..n |-> [a \in B |-> RestoreKeys(a, w[i])]]
<1> HIDE DEF c
<1>7. Iterates(c, n, st, G)
  BY <1>2, <1>6 DEF Iterates, FoldStep
<1>8. Iterates(it, n, st, G)
  BY <1>2, <1>5 DEF Iterates, FoldStep
<1>9. 1..n \in D
  OBVIOUS
<1>10. c[1..n] = it[1..n]
  <2>1. 1..n \in SUBSET (1..n)
    OBVIOUS
  <2> HIDE DEF n, D, G, B
  <2> QED BY <1>0, <1>7, <1>8, <2>1, IterationUnique
<1> QED BY <1>1, <1>4, <1>9, <1>10

-----------------------------------------------------------------------------
(***************************************************************************)
(* Types.                                                                  *)
(***************************************************************************)
Basic == DbTypeOK /\ FramesOK /\ QueueOK /\ CompOK

\* Where the log stands.
LEMMA Ranges ==
  ASSUME Basic
  PROVE  /\ Taken \in Nat /\ Landed \in Nat
         /\ Taken <= Landed /\ Landed <= Len(log)
         /\ Len(log) = Taken + Len(inflight) + Len(queue)
         /\ 0 \notin expired
         /\ log \in Seq(Nat) /\ file \in Seq(Nat)
         /\ Len(log) \in Nat /\ Len(file) \in Nat /\ Len(ops) \in Nat
         /\ Len(inflight) \in Nat /\ Len(queue) \in Nat
<1> QED BY DEF Basic, DbTypeOK, OpsType, WalType, DiskType, GhostType, QueueOK, Taken, Landed

\* The batch under way and the queue are operations of the log.
LEMMA BatchFrames ==
  ASSUME Basic
  PROVE  /\ \A i \in 1..Len(inflight) :
              /\ Taken + i \in 1..Len(log) /\ inflight[i] = log[Taken + i]
              /\ inflight[i] \in 1..Len(ops)
         /\ \A i \in 1..Len(queue) :
              /\ Taken + Len(inflight) + i \in 1..Len(log)
              /\ queue[i] = log[Taken + Len(inflight) + i]
              /\ queue[i] \in 1..Len(ops)
<1>0. /\ Taken \in Nat /\ Len(inflight) \in Nat /\ Len(queue) \in Nat
      /\ Len(log) = Taken + Len(inflight) + Len(queue)
  BY Ranges
<1>1. /\ \A i \in 1..Len(inflight) : Taken + i \in 1..Len(log)
      /\ \A i \in 1..Len(queue) : Taken + Len(inflight) + i \in 1..Len(log)
  BY <1>0
<1>2. \A i \in 1..Len(log) : log[i] \in 1..Len(ops)
  BY DEF Basic, FramesOK
<1>3. /\ \A i \in 1..Len(inflight) : inflight[i] = log[Taken + i]
      /\ \A i \in 1..Len(queue) : queue[i] = log[Taken + Len(inflight) + i]
  BY DEF Basic, QueueOK
<1> QED BY <1>1, <1>2, <1>3

\* The fields of the compaction.
LEMMA CompFields ==
  ASSUME comp \in CompType
  PROVE  /\ comp.phase \in {"none", "fence", "snapshot", "precopy"} \cup Sealing
         /\ comp.base \in Nat /\ comp.snap \in State /\ comp.todo \subseteq Key
         /\ comp.tail \in Seq(Nat) /\ comp.copied \in Nat /\ comp.count \in Nat
<1> QED BY DEF CompType

\* Nothing stored, and no compaction, are of the type.
LEMMA EmptyTypes == Empty \in State /\ NoCompaction \in CompType
<1>1. Empty \in State
  BY DEF Empty, State
<1> QED BY <1>1 DEF NoCompaction, CompType, Sealing

\* applyOp gives a store.
LEMMA AppliedType ==
  ASSUME NEW st \in State, NEW n \in Nat
  PROVE  Applied(st, n) \in State /\ View(st) \in State
<1> QED BY DEF Applied, State, View

\* So does rolling a batch back.
LEMMA RestoredType ==
  ASSUME Basic
  PROVE  LET m == FoldLeft(RestoreKeys, [store |-> store, own |-> own], inflight)
         IN  m.store \in State /\ m.own \subseteq own
<1> DEFINE A == [store : State, own : SUBSET own]
           st == [store |-> store, own |-> own]
<1>1. st \in A
  BY DEF Basic, DbTypeOK, MemType
<1>2. inflight \in Seq(Nat) /\ \A i \in 1..Len(inflight) : inflight[i] \in 1..Len(ops)
  BY BatchFrames DEF Basic, DbTypeOK, WalType
<1>3. ASSUME NEW m \in A, NEW i \in 1..Len(inflight)
      PROVE  RestoreKeys(m, inflight[i]) \in A
  <2>1. prev[inflight[i]] \in State /\ m.store \in State /\ m.own \subseteq own
    BY <1>2 DEF Basic, DbTypeOK, OpsType
  <2> QED BY <2>1 DEF RestoreKeys, State
<1> HIDE DEF A, st
<1>4. FoldLeft(RestoreKeys, st, inflight) \in A
  BY <1>1, <1>2, <1>3, RestoreStays
<1> QED BY <1>4 DEF A, st

\* So does recovery.
LEMMA RecoverType ==
  ASSUME Basic, NEW s \in State, NEW w \in Seq(Nat), \A i \in 1..Len(w) : w[i] \in 0..Len(ops)
  PROVE  /\ recover(s, w) = [k \in Key |-> Shown(expired, Kept(ops, s[k], w, Len(w), k))]
         /\ recover(s, w) \in State
<1>1. \A i \in DOMAIN w : w[i] \in 0..Len(ops)
  OBVIOUS
<1>2. recover(s, w) = [k \in Key |-> Shown(expired, Kept(ops, s[k], w, Len(w), k))]
  BY <1>1, RecoverIsKept DEF Basic, DbTypeOK, OpsType
<1>3. ASSUME NEW k \in Key PROVE Shown(expired, Kept(ops, s[k], w, Len(w), k)) \in Nat
  <2>1. s[k] \in Nat /\ Len(w) \in 0..Len(w)
    BY DEF State
  <2>2. Kept(ops, s[k], w, Len(w), k) \in Nat
    BY <2>1, KeptType
  <2> QED BY <2>2 DEF Shown
<1> QED BY <1>2, <1>3 DEF State

\* A sequence with one more element.
LEMMA AppendFacts ==
  ASSUME NEW w \in Seq(Nat), NEW x \in Nat
  PROVE  /\ Append(w, x) \in Seq(Nat) /\ Len(Append(w, x)) = Len(w) + 1
         /\ Append(w, x)[Len(w) + 1] = x
         /\ \A i \in 1..Len(w) : Append(w, x)[i] = w[i]
         /\ \A i \in 1..(Len(w) + 1) : i \in 1..Len(w) \/ i = Len(w) + 1
<1> QED OBVIOUS

\* The elements of a concatenation are those of its parts.
LEMMA ConcatIn ==
  ASSUME NEW w \in Seq(Nat), NEW u \in Seq(Nat), NEW S,
         \A i \in 1..Len(w) : w[i] \in S, \A i \in 1..Len(u) : u[i] \in S
  PROVE  \A i \in 1..Len(w \o u) : (w \o u)[i] \in S
<1> SUFFICES ASSUME NEW i \in 1..Len(w \o u) PROVE (w \o u)[i] \in S
  OBVIOUS
<1>1. CASE i <= Len(w)
  BY <1>1
<1>2. CASE i > Len(w)
  <2>1. (w \o u)[i] = u[i - Len(w)] /\ i - Len(w) \in 1..Len(u)
    BY <1>2
  <2> QED BY <2>1
<1> QED BY <1>1, <1>2

\* Positions behind b of a file of n frames.
LEMMA ShiftIn ==
  ASSUME NEW b \in Nat, NEW c \in Nat, NEW n \in Nat, NEW t \in Nat, b <= c, c <= n, t = c - b
  PROVE  \A i \in 1..t : b + i \in 1..n
<1> QED OBVIOUS

\* The end of a sequence.
LEMMA SuffixFacts ==
  ASSUME NEW w \in Seq(Nat), NEW c \in Nat, c <= Len(w)
  PROVE  /\ Len(SubSeq(w, c + 1, Len(w))) = Len(w) - c
         /\ \A i \in 1..(Len(w) - c) : SubSeq(w, c + 1, Len(w))[i] = w[c + i]
<1>1. Len(w) \in Nat
  OBVIOUS
<1> QED BY <1>1

\* What is copied of a file, followed by the rest of it.
LEMMA CatShift ==
  ASSUME NEW w \in Seq(Nat), NEW u \in Seq(Nat), NEW f \in Seq(Nat), NEW b \in Nat, NEW c \in Nat,
         b <= c, c <= Len(f), Len(w) = c - b, Len(u) = Len(f) - c,
         \A i \in 1..Len(w) : w[i] = f[b + i], \A i \in 1..Len(u) : u[i] = f[c + i]
  PROVE  /\ b <= Len(f) /\ Len(w \o u) = Len(f) - b
         /\ \A i \in 1..Len(w \o u) : (w \o u)[i] = f[b + i]
<1>1. /\ Len(w \o u) = Len(w) + Len(u) /\ Len(w) \in Nat /\ Len(u) \in Nat /\ Len(f) \in Nat
      /\ \A i \in 1..(Len(w) + Len(u)) :
           (w \o u)[i] = IF i <= Len(w) THEN w[i] ELSE u[i - Len(w)]
  BY ConcatProperties, LenProperties
<1>2. ASSUME NEW i \in 1..Len(w \o u) PROVE (w \o u)[i] = f[b + i]
  <2>1. CASE i <= Len(w)
    BY <1>1, <2>1
  <2>2. CASE i > Len(w)
    <3>1. (w \o u)[i] = u[i - Len(w)] /\ i - Len(w) \in 1..Len(u) /\ i \in Nat
      <4>1. i \in 1..(Len(w) + Len(u))
        BY <1>1
      <4>2. (w \o u)[i] = u[i - Len(w)]
        <5>1. ~(i <= Len(w))
          BY <1>1, <2>2
        <5> QED BY <1>1, <4>1, <5>1, Zenon
      <4> DEFINE x == Len(w)
                 y == Len(u)
      <4>3. x \in Nat /\ y \in Nat /\ i \in 1..(x + y) /\ i > x
        BY <1>1, <2>2, <4>1
      <4>4. i - x \in 1..y /\ i \in Nat
        <5> HIDE DEF x, y
        <5> QED BY <4>3
      <4> QED BY <4>2, <4>4
    <3>2. c + (i - Len(w)) = b + i
      BY <1>1
    <3> QED BY <3>1, <3>2
  <2>3. i <= Len(w) \/ i > Len(w)
    BY <1>1
  <2> QED BY <2>1, <2>2, <2>3
<1>3. b <= Len(f) /\ Len(w \o u) = Len(f) - b
  <2> DEFINE x == Len(w)
             y == Len(u)
             z == Len(f)
             t == Len(w \o u)
  <2>1. x \in Nat /\ y \in Nat /\ z \in Nat /\ t = x + y /\ x = c - b /\ y = z - c
    BY <1>1
  <2> HIDE DEF x, y, z, t
  <2>2. b <= z /\ t = z - b
    BY <2>1
  <2> QED BY <2>2 DEF z, t
<1> QED BY <1>2, <1>3

\* What the compaction has not copied yet.
LEMMA GapFacts ==
  ASSUME DiskType, comp \in CompType
  PROVE  /\ Gap \in Seq(Nat) /\ comp.tail \o Gap \in Seq(Nat) /\ Len(file) \in Nat
         /\ comp.copied <= Len(file) =>
              /\ Len(Gap) = Len(file) - comp.copied
              /\ \A i \in 1..Len(Gap) : Gap[i] = file[comp.copied + i]
<1>1. comp.tail \in Seq(Nat) /\ comp.copied \in Nat /\ file \in Seq(Nat) /\ Len(file) \in Nat
  BY CompFields DEF DiskType
<1>2. Gap \in Seq(Nat)
  BY <1>1 DEF Gap
<1>3. ASSUME comp.copied <= Len(file)
      PROVE  /\ Len(Gap) = Len(file) - comp.copied
             /\ \A i \in 1..Len(Gap) : Gap[i] = file[comp.copied + i]
  BY <1>1, <1>3, SuffixFacts DEF Gap
<1> QED BY <1>1, <1>2, <1>3, SMTT(30)

\* recover() cuts a torn frame off, and nothing else.
LEMMA TruncatedFacts ==
  ASSUME NEW w \in Seq(Nat)
  PROVE  /\ Truncated(w) \in Seq(Nat) /\ Len(Truncated(w)) <= Len(w)
         /\ \A i \in 1..Len(Truncated(w)) : Truncated(w)[i] = w[i]
         /\ \A i \in 1..Len(w) : i > Len(Truncated(w)) => w[i] = Torn /\ i = Len(w)
<1>1. CASE w # << >> /\ Last(w) = Torn
  <2>1. Truncated(w) = SubSeq(w, 1, Len(w) - 1) /\ Len(w) \in Nat \ {0} /\ w[Len(w)] = Torn
    BY <1>1, EmptySeq DEF Truncated, Front, Last
  <2> QED BY <2>1, SMTT(30)
<1>2. CASE ~(w # << >> /\ Last(w) = Torn)
  BY <1>2 DEF Truncated
<1> QED BY <1>1, <1>2

\* The smaller of two numbers.
LEMMA MinOfTwo ==
  ASSUME NEW a \in Nat, NEW b \in Nat
  PROVE  /\ Min({a, b}) \in Nat /\ Min({a, b}) <= a /\ Min({a, b}) <= b
         /\ Min({a, b}) = a \/ Min({a, b}) = b
<1>1. \E x \in {a, b} : \A y \in {a, b} : x <= y
  BY a <= b \/ b <= a
<1> QED BY <1>1 DEF Min

\* What a crash may leave is of the type.
LEMMA DisksLeft ==
  ASSUME Basic, NEW disk \in AfterPowerLoss
  PROVE  /\ disk.snap \in State /\ disk.wal \in Seq(Nat)
         /\ \A i \in 1..Len(disk.wal) : disk.wal[i] \in 0..Len(ops)
<1>1. /\ disk.snap \in {snapshot} \cup oldSnap
      /\ disk.wal \in {SubSeq(file, 1, n) : n \in synced..Len(file)} \cup oldWal
  BY DEF AfterPowerLoss
<1>2. DiskType /\ FramesOK
  BY DEF Basic, DbTypeOK
<1>3. disk.snap \in State
  BY <1>1, <1>2 DEF DiskType
<1>4. ASSUME NEW n \in synced..Len(file)
      PROVE  /\ SubSeq(file, 1, n) \in Seq(Nat)
             /\ \A i \in 1..Len(SubSeq(file, 1, n)) : SubSeq(file, 1, n)[i] \in 0..Len(ops)
  <2>1. file \in Seq(Nat) /\ n \in 0..Len(file)
    BY <1>2 DEF DiskType
  <2>2. /\ SubSeq(file, 1, n) \in Seq(Nat) /\ Len(SubSeq(file, 1, n)) = n
        /\ \A i \in 1..n : SubSeq(file, 1, n)[i] = file[i]
    BY <2>1
  <2> QED BY <1>2, <2>1, <2>2 DEF FramesOK
<1> QED
  BY <1>1, <1>2, <1>3, <1>4 DEF DiskType, FramesOK

\* Every step keeps the types.
LEMMA TypeNext ==
  ASSUME Basic, [DbNext]_dbVars
  PROVE  DbTypeOK'
<1>0. Basic /\ OpsType /\ MemType /\ WalType /\ DiskType /\ comp \in CompType /\ GhostType
  BY DEF Basic, DbTypeOK
<1> USE DEF opVars, memVars, walVars, diskVars, ghostVars
<1>1. ASSUME NEW w \in Writes, issue(w) PROVE DbTypeOK'
  <2>1. OpsType'
    BY <1>0, <1>1, EmptyTypes, MiniDbAssumption DEF OpsType, issue, OpType, OpStatus
  <2>2. MemType'
    BY <1>0, <1>1 DEF MemType, issue
  <2>3. WalType'
    BY <1>0, <1>1 DEF WalType, issue
  <2>4. DiskType'
    BY <1>0, <1>1 DEF DiskType, issue
  <2>5. (comp \in CompType)'
    BY <1>0, <1>1 DEF CompType, issue
  <2>6. GhostType'
    BY <1>0, <1>1 DEF GhostType, issue
  <2> QED BY <2>1, <2>2, <2>3, <2>4, <2>5, <2>6 DEF DbTypeOK
<1>2. ASSUME NEW n \in Op, passGate(n) PROVE DbTypeOK'
  <2>1. OpsType'
    BY <1>0, <1>2, SMTT(30) DEF OpsType, passGate, SetStatus, OpStatus, Op
  <2>2. MemType'
    BY <1>0, <1>2 DEF MemType, passGate, SetStatus
  <2>3. WalType'
    BY <1>0, <1>2 DEF WalType, passGate, SetStatus
  <2>4. DiskType'
    BY <1>0, <1>2 DEF DiskType, passGate, SetStatus
  <2>5. (comp \in CompType)'
    BY <1>0, <1>2 DEF CompType, passGate, SetStatus
  <2>6. GhostType'
    BY <1>0, <1>2 DEF GhostType, passGate, SetStatus
  <2> QED BY <2>1, <2>2, <2>3, <2>4, <2>5, <2>6 DEF DbTypeOK
<1>3. ASSUME NEW n \in Op, commit(n) PROVE DbTypeOK'
  <2>1. OpsType'
    <3>1. View(store) \in State
      BY <1>0, AppliedType DEF MemType
    <3> QED BY <1>0, <1>3, <3>1 DEF OpsType, commit, SetStatus, OpStatus, Op
  <2>2. MemType'
    <3>1. n \in Nat
      BY <1>0 DEF Op, OpsType
    <3>2. Applied(store, n) \in State
      BY <1>0, <3>1, AppliedType DEF MemType
    <3> QED BY <1>0, <1>3, <3>2 DEF MemType, commit
  <2>3. WalType'
    BY <1>0, <1>3 DEF WalType, OpsType, Op, commit
  <2>4. DiskType'
    BY <1>0, <1>3 DEF DiskType, commit, SetStatus
  <2>5. (comp \in CompType)'
    <3>1. Todo(store, Applied(store, n)) \subseteq Key
      BY <1>0, CompFields DEF Todo
    <3> QED BY <1>0, <1>3, <3>1 DEF CompType, commit
  <2>6. GhostType'
    BY <1>0, <1>3 DEF GhostType, OpsType, Op, commit
  <2> QED BY <2>1, <2>2, <2>3, <2>4, <2>5, <2>6 DEF DbTypeOK
<1>4. ASSUME NEW n \in Op, commitSealed(n) PROVE DbTypeOK'
  <2>1. OpsType'
    BY <1>0, <1>4 DEF OpsType, commitSealed, SetStatus, OpStatus, Op
  <2>2. MemType'
    <3>1. View(store) \in State
      BY <1>0, AppliedType DEF MemType
    <3> QED BY <1>0, <1>4, <3>1 DEF MemType, State, commitSealed
  <2>3. WalType'
    BY <1>0, <1>4 DEF WalType, commitSealed, SetStatus
  <2>4. DiskType'
    BY <1>0, <1>4 DEF DiskType, commitSealed, SetStatus
  <2>5. (comp \in CompType)'
    BY <1>0, <1>4 DEF CompType, commitSealed, SetStatus
  <2>6. GhostType'
    BY <1>0, <1>4 DEF GhostType, commitSealed, SetStatus
  <2> QED BY <2>1, <2>2, <2>3, <2>4, <2>5, <2>6 DEF DbTypeOK
<1>5. ASSUME NEW n \in Op, expire(n) PROVE DbTypeOK'
  <2>1. OpsType'
    BY <1>0, <1>5 DEF OpsType, expire, Op
  <2>2. MemType'
    BY <1>0, <1>5 DEF MemType, expire
  <2>3. WalType'
    BY <1>0, <1>5 DEF WalType, expire
  <2>4. DiskType'
    BY <1>0, <1>5 DEF DiskType, expire
  <2>5. (comp \in CompType)'
    BY <1>0, <1>5 DEF CompType, expire
  <2>6. GhostType'
    BY <1>0, <1>5 DEF GhostType, expire
  <2> QED BY <2>1, <2>2, <2>3, <2>4, <2>5, <2>6 DEF DbTypeOK
<1>6. ASSUME NEW k \in Key, reap(k) PROVE DbTypeOK'
  <2>1. OpsType'
    BY <1>0, <1>6 DEF OpsType, reap
  <2>2. MemType'
    BY <1>0, <1>6 DEF MemType, State, reap
  <2>3. WalType'
    BY <1>0, <1>6 DEF WalType, reap
  <2>4. DiskType'
    BY <1>0, <1>6 DEF DiskType, reap
  <2>5. (comp \in CompType)'
    <3>1. Todo(store, store') \subseteq Key
      BY <1>0, CompFields DEF Todo
    <3> QED BY <1>0, <1>6, <3>1 DEF CompType, reap
  <2>6. GhostType'
    BY <1>0, <1>6 DEF GhostType, reap
  <2> QED BY <2>1, <2>2, <2>3, <2>4, <2>5, <2>6 DEF DbTypeOK
<1>7. ASSUME flushStart PROVE DbTypeOK'
  <2>1. OpsType'
    BY <1>0, <1>7 DEF OpsType, flushStart
  <2>2. MemType'
    BY <1>0, <1>7 DEF MemType, flushStart
  <2>3. WalType'
    BY <1>0, <1>7 DEF WalType, flushStart
  <2>4. DiskType'
    BY <1>0, <1>7 DEF DiskType, flushStart
  <2>5. (comp \in CompType)'
    BY <1>0, <1>7 DEF CompType, flushStart
  <2>6. GhostType'
    BY <1>0, <1>7 DEF GhostType, flushStart
  <2> QED BY <2>1, <2>2, <2>3, <2>4, <2>5, <2>6 DEF DbTypeOK
<1>8. ASSUME flushFrame PROVE DbTypeOK'
  <2>1. OpsType'
    BY <1>0, <1>8 DEF OpsType, flushFrame
  <2>2. MemType'
    BY <1>0, <1>8 DEF MemType, flushFrame
  <2>3. WalType'
    BY <1>0, <1>8 DEF WalType, flushFrame
  <2>4. DiskType'
    <3>1. inflight[landed + 1] \in Nat
      BY <1>0, <1>8 DEF WalType, flushFrame
    <3> QED BY <1>0, <1>8, <3>1 DEF DiskType, flushFrame
  <2>5. (comp \in CompType)'
    BY <1>0, <1>8 DEF CompType, flushFrame
  <2>6. GhostType'
    BY <1>0, <1>8 DEF GhostType, flushFrame
  <2> QED BY <2>1, <2>2, <2>3, <2>4, <2>5, <2>6 DEF DbTypeOK
<1>9. ASSUME flushEnd PROVE DbTypeOK'
  <2>1. OpsType'
    BY <1>0, <1>9 DEF OpsType, flushEnd, StatusOf, OpStatus, Op
  <2>2. MemType'
    BY <1>0, <1>9 DEF MemType, flushEnd, StatusOf
  <2>3. WalType'
    BY <1>0, <1>9 DEF WalType, flushEnd, StatusOf
  <2>4. DiskType'
    BY <1>0, <1>9 DEF DiskType, flushEnd, StatusOf
  <2>5. (comp \in CompType)'
    BY <1>0, <1>9 DEF CompType, flushEnd, StatusOf
  <2>6. GhostType'
    BY <1>0, <1>9 DEF GhostType, flushEnd, StatusOf
  <2> QED BY <2>1, <2>2, <2>3, <2>4, <2>5, <2>6 DEF DbTypeOK
<1>10. ASSUME flushFails PROVE DbTypeOK'
  <2>1. OpsType'
    BY <1>0, <1>10 DEF OpsType, flushFails, StatusOf, OpStatus, Op
  <2>2. MemType'
    <3> DEFINE m == FoldLeft(RestoreKeys, [store |-> store, own |-> own], inflight)
    <3>1. store' = m.store /\ own' = m.own /\ policy' = policy
      BY <1>10 DEF flushFails
    <3>2. m.store \in State /\ m.own \subseteq own
      BY <1>0, RestoredType
    <3> HIDE DEF m
    <3> QED BY <1>0, <3>1, <3>2 DEF MemType
  <2>3. WalType'
    BY <1>0, <1>10 DEF WalType, flushFails, StatusOf
  <2>4. DiskType'
    <3>1. /\ file' \in {file, Append(file, Torn)} /\ synced' = synced
          /\ UNCHANGED <<snapshot, oldSnap, oldWal>>
      BY <1>10 DEF flushFails
    <3>2. Append(file, 0) \in Seq(Nat) /\ Len(Append(file, 0)) = Len(file) + 1
      BY <1>0 DEF DiskType
    <3>3. synced \in 0..Len(file') /\ file' \in Seq(Nat)
      BY <1>0, <3>1, <3>2 DEF DiskType, Torn
    <3> QED BY <1>0, <3>1, <3>3 DEF DiskType
  <2>5. (comp \in CompType)'
    <3> DEFINE m == FoldLeft(RestoreKeys, [store |-> store, own |-> own], inflight)
    <3>1. Todo(store, m.store) \subseteq Key
      BY <1>0, CompFields DEF Todo
    <3>2. comp' = [comp EXCEPT !.todo = Todo(store, m.store)]
      BY <1>10 DEF flushFails
    <3> HIDE DEF m
    <3> QED BY <1>0, <3>1, <3>2 DEF CompType
  <2>6. GhostType'
    BY <1>0, <1>10 DEF GhostType, flushFails, StatusOf
  <2> QED BY <2>1, <2>2, <2>3, <2>4, <2>5, <2>6 DEF DbTypeOK
<1>11. ASSUME syncTimer PROVE DbTypeOK'
  <2>1. OpsType'
    BY <1>0, <1>11 DEF OpsType, syncTimer
  <2>2. MemType'
    BY <1>0, <1>11 DEF MemType, syncTimer
  <2>3. WalType'
    BY <1>0, <1>11 DEF WalType, syncTimer
  <2>4. DiskType'
    BY <1>0, <1>11 DEF DiskType, syncTimer
  <2>5. (comp \in CompType)'
    BY <1>0, <1>11 DEF CompType, syncTimer
  <2>6. GhostType'
    BY <1>0, <1>11 DEF GhostType, syncTimer
  <2> QED BY <2>1, <2>2, <2>3, <2>4, <2>5, <2>6 DEF DbTypeOK
<1>12. ASSUME compact PROVE DbTypeOK'
  <2>1. OpsType'
    BY <1>0, <1>12 DEF OpsType, compact
  <2>2. MemType'
    BY <1>0, <1>12 DEF MemType, compact
  <2>3. WalType'
    BY <1>0, <1>12 DEF WalType, compact
  <2>4. DiskType'
    BY <1>0, <1>12 DEF DiskType, compact
  <2>5. (comp \in CompType)'
    <3>1. comp.count + 1 \in Nat
      BY <1>0, CompFields
    <3> QED BY <1>12, <3>1, EmptyTypes DEF CompType, compact
  <2>6. GhostType'
    BY <1>0, <1>12 DEF GhostType, compact
  <2> QED BY <2>1, <2>2, <2>3, <2>4, <2>5, <2>6 DEF DbTypeOK
<1>13. ASSUME fence PROVE DbTypeOK'
  <2>1. OpsType'
    BY <1>0, <1>13 DEF OpsType, fence
  <2>2. MemType'
    BY <1>0, <1>13 DEF MemType, fence
  <2>3. WalType'
    BY <1>0, <1>13 DEF WalType, fence
  <2>4. DiskType'
    BY <1>0, <1>13 DEF DiskType, fence
  <2>5. (comp \in CompType)'
    <3>1. Len(file) \in Nat /\ {k \in Key : store[k] # 0} \in SUBSET Key
      BY <1>0 DEF DiskType
    <3> QED BY <1>0, <1>13, <3>1 DEF CompType, fence
  <2>6. GhostType'
    BY <1>0, <1>13 DEF GhostType, fence
  <2> QED BY <2>1, <2>2, <2>3, <2>4, <2>5, <2>6 DEF DbTypeOK
<1>14. ASSUME NEW k \in Key, snapshotKey(k) PROVE DbTypeOK'
  <2>1. OpsType'
    BY <1>0, <1>14 DEF OpsType, snapshotKey
  <2>2. MemType'
    BY <1>0, <1>14 DEF MemType, snapshotKey
  <2>3. WalType'
    BY <1>0, <1>14 DEF WalType, snapshotKey
  <2>4. DiskType'
    BY <1>0, <1>14 DEF DiskType, snapshotKey
  <2>5. (comp \in CompType)'
    <3>1. comp.snap \in State /\ View(store)[k] \in Nat
      BY <1>0, CompFields, AppliedType DEF MemType, State
    <3>2. [comp.snap EXCEPT ![k] = View(store)[k]] \in State
      BY <3>1 DEF State
    <3> QED BY <1>0, <1>14, <3>2 DEF CompType, snapshotKey
  <2>6. GhostType'
    BY <1>0, <1>14 DEF GhostType, snapshotKey
  <2> QED BY <2>1, <2>2, <2>3, <2>4, <2>5, <2>6 DEF DbTypeOK
<1>15. ASSUME snapshotWritten PROVE DbTypeOK'
  <2>1. OpsType'
    BY <1>0, <1>15 DEF OpsType, snapshotWritten
  <2>2. MemType'
    BY <1>0, <1>15 DEF MemType, snapshotWritten
  <2>3. WalType'
    BY <1>0, <1>15 DEF WalType, snapshotWritten
  <2>4. DiskType'
    BY <1>0, <1>15 DEF DiskType, snapshotWritten
  <2>5. (comp \in CompType)'
    BY <1>0, <1>15 DEF CompType, snapshotWritten
  <2>6. GhostType'
    BY <1>0, <1>15 DEF GhostType, snapshotWritten
  <2> QED BY <2>1, <2>2, <2>3, <2>4, <2>5, <2>6 DEF DbTypeOK
<1>16. ASSUME preCopy PROVE DbTypeOK'
  <2>1. OpsType'
    BY <1>0, <1>16 DEF OpsType, preCopy
  <2>2. MemType'
    BY <1>0, <1>16 DEF MemType, preCopy
  <2>3. WalType'
    BY <1>0, <1>16 DEF WalType, preCopy
  <2>4. DiskType'
    BY <1>0, <1>16 DEF DiskType, preCopy
  <2>5. (comp \in CompType)'
    <3>1. comp.tail \o Gap \in Seq(Nat) /\ Len(file) \in Nat
      BY <1>0, GapFacts
    <3> QED BY <1>0, <1>16, <3>1 DEF CompType, Sealing, preCopy
  <2>6. GhostType'
    BY <1>0, <1>16 DEF GhostType, preCopy
  <2> QED BY <2>1, <2>2, <2>3, <2>4, <2>5, <2>6 DEF DbTypeOK
<1>17. ASSUME seal PROVE DbTypeOK'
  <2>1. OpsType'
    BY <1>0, <1>17 DEF OpsType, seal
  <2>2. MemType'
    BY <1>0, <1>17 DEF MemType, seal
  <2>3. WalType'
    BY <1>0, <1>17 DEF WalType, seal
  <2>4. DiskType'
    BY <1>0, <1>17 DEF DiskType, seal
  <2>5. (comp \in CompType)'
    BY <1>0, <1>17 DEF CompType, Sealing, seal
  <2>6. GhostType'
    BY <1>0, <1>17 DEF GhostType, seal
  <2> QED BY <2>1, <2>2, <2>3, <2>4, <2>5, <2>6 DEF DbTypeOK
<1>18. ASSUME drainAndClose PROVE DbTypeOK'
  <2>1. OpsType'
    BY <1>0, <1>18 DEF OpsType, drainAndClose
  <2>2. MemType'
    BY <1>0, <1>18 DEF MemType, drainAndClose
  <2>3. WalType'
    BY <1>0, <1>18 DEF WalType, drainAndClose
  <2>4. DiskType'
    BY <1>0, <1>18 DEF DiskType, drainAndClose
  <2>5. (comp \in CompType)'
    <3>1. comp.tail \o Gap \in Seq(Nat) /\ Len(file) \in Nat
      BY <1>0, GapFacts
    <3> QED BY <1>0, <1>18, <3>1 DEF CompType, Sealing, drainAndClose
  <2>6. GhostType'
    BY <1>0, <1>18 DEF GhostType, drainAndClose
  <2> QED BY <2>1, <2>2, <2>3, <2>4, <2>5, <2>6 DEF DbTypeOK
<1>19. ASSUME renameSnapshot PROVE DbTypeOK'
  <2>1. OpsType'
    BY <1>0, <1>19 DEF OpsType, renameSnapshot
  <2>2. MemType'
    BY <1>0, <1>19 DEF MemType, renameSnapshot
  <2>3. WalType'
    BY <1>0, <1>19 DEF WalType, renameSnapshot
  <2>4. DiskType'
    BY <1>0, <1>19, CompFields DEF DiskType, renameSnapshot
  <2>5. (comp \in CompType)'
    BY <1>0, <1>19 DEF CompType, Sealing, renameSnapshot
  <2>6. GhostType'
    BY <1>0, <1>19 DEF GhostType, renameSnapshot
  <2> QED BY <2>1, <2>2, <2>3, <2>4, <2>5, <2>6 DEF DbTypeOK
<1>20. ASSUME fsyncDir("syncSnap", "renameWal") PROVE DbTypeOK'
  <2>1. OpsType'
    BY <1>0, <1>20 DEF OpsType, fsyncDir
  <2>2. MemType'
    BY <1>0, <1>20 DEF MemType, fsyncDir
  <2>3. WalType'
    BY <1>0, <1>20 DEF WalType, fsyncDir
  <2>4. DiskType'
    BY <1>0, <1>20 DEF DiskType, fsyncDir
  <2>5. (comp \in CompType)'
    BY <1>0, <1>20 DEF CompType, Sealing, fsyncDir
  <2>6. GhostType'
    BY <1>0, <1>20 DEF GhostType, fsyncDir
  <2> QED BY <2>1, <2>2, <2>3, <2>4, <2>5, <2>6 DEF DbTypeOK
<1>21. ASSUME renameWal PROVE DbTypeOK'
  <2>1. OpsType'
    BY <1>0, <1>21 DEF OpsType, renameWal
  <2>2. MemType'
    BY <1>0, <1>21 DEF MemType, renameWal
  <2>3. WalType'
    BY <1>0, <1>21 DEF WalType, renameWal
  <2>4. DiskType'
    BY <1>0, <1>21, CompFields DEF DiskType, renameWal
  <2>5. (comp \in CompType)'
    BY <1>0, <1>21 DEF CompType, Sealing, renameWal
  <2>6. GhostType'
    BY <1>0, <1>21 DEF GhostType, renameWal
  <2> QED BY <2>1, <2>2, <2>3, <2>4, <2>5, <2>6 DEF DbTypeOK
<1>22. ASSUME fsyncDir("syncWal", "open") PROVE DbTypeOK'
  <2>1. OpsType'
    BY <1>0, <1>22 DEF OpsType, fsyncDir
  <2>2. MemType'
    BY <1>0, <1>22 DEF MemType, fsyncDir
  <2>3. WalType'
    BY <1>0, <1>22 DEF WalType, fsyncDir
  <2>4. DiskType'
    BY <1>0, <1>22 DEF DiskType, fsyncDir
  <2>5. (comp \in CompType)'
    BY <1>0, <1>22 DEF CompType, Sealing, fsyncDir
  <2>6. GhostType'
    BY <1>0, <1>22 DEF GhostType, fsyncDir
  <2> QED BY <2>1, <2>2, <2>3, <2>4, <2>5, <2>6 DEF DbTypeOK
<1>23. ASSUME openFresh PROVE DbTypeOK'
  <2>1. OpsType'
    BY <1>0, <1>23 DEF OpsType, openFresh
  <2>2. MemType'
    BY <1>0, <1>23 DEF MemType, openFresh
  <2>3. WalType'
    BY <1>0, <1>23 DEF WalType, openFresh
  <2>4. DiskType'
    BY <1>0, <1>23 DEF DiskType, openFresh
  <2>5. (comp \in CompType)'
    BY <1>0, <1>23, EmptyTypes, CompFields DEF CompType, openFresh
  <2>6. GhostType'
    BY <1>0, <1>23 DEF GhostType, openFresh
  <2> QED BY <2>1, <2>2, <2>3, <2>4, <2>5, <2>6 DEF DbTypeOK
<1>24. ASSUME compactFails PROVE DbTypeOK'
  <2>1. OpsType'
    BY <1>0, <1>24 DEF OpsType, compactFails
  <2>2. MemType'
    BY <1>0, <1>24 DEF MemType, compactFails
  <2>3. WalType'
    BY <1>0, <1>24 DEF WalType, compactFails
  <2>4. DiskType'
    BY <1>0, <1>24 DEF DiskType, compactFails
  <2>5. (comp \in CompType)'
    BY <1>0, <1>24, EmptyTypes, CompFields DEF CompType, compactFails
  <2>6. GhostType'
    BY <1>0, <1>24 DEF GhostType, compactFails
  <2> QED BY <2>1, <2>2, <2>3, <2>4, <2>5, <2>6 DEF DbTypeOK
<1>25. ASSUME kill PROVE DbTypeOK'
  <2>1. OpsType'
    BY <1>0, <1>25 DEF OpsType, kill, reopen, Op, OpStatus
  <2>2. MemType'
    <3>1. recover(snapshot, file) \in State
      BY <1>0, RecoverType DEF DiskType, Basic, FramesOK
    <3> QED BY <1>0, <1>25, <3>1 DEF MemType, kill, reopen, AfterKill
  <2>3. WalType'
    <3>1. /\ queue' = << >> /\ inflight' = << >> /\ landed' = 0
          /\ sealed' = FALSE /\ rotateLock' = FALSE
      BY <1>25 DEF kill, reopen
    <3>2. queue' \in Seq(Nat) /\ inflight' \in Seq(Nat) /\ landed' \in 0..Len(inflight')
      BY <3>1
    <3>3. sealed' \in BOOLEAN /\ rotateLock' \in BOOLEAN
      BY <3>1
    <3> QED BY <3>2, <3>3 DEF WalType
  <2>4. DiskType'
    <3>1. Truncated(file) \in Seq(Nat) /\ Len(Truncated(file)) \in Nat
      BY <1>0, TruncatedFacts DEF DiskType
    <3>2. synced \in Nat
      BY <1>0 DEF DiskType
    <3>3. /\ Min({synced, Len(Truncated(file))}) \in Nat
          /\ Min({synced, Len(Truncated(file))}) <= Len(Truncated(file))
      BY <3>1, <3>2, MinOfTwo
    <3>4. /\ file' = Truncated(file) /\ snapshot' = snapshot
          /\ synced' = Min({synced, Len(Truncated(file))}) /\ UNCHANGED <<oldSnap, oldWal>>
      BY <1>25 DEF kill, reopen, AfterKill
    <3> QED BY <1>0, <3>1, <3>3, <3>4 DEF DiskType
  <2>5. (comp \in CompType)'
    BY <1>0, <1>25, EmptyTypes, CompFields DEF CompType, kill, reopen
  <2>6. GhostType'
    <3>1. SubSeq(log, 1, Landed) \in Seq(Nat)
      BY <1>0, Ranges, SubSeqProperties
    <3> QED BY <1>0, <1>25, <3>1 DEF GhostType, kill, reopen, Landed, Taken
  <2> QED BY <2>1, <2>2, <2>3, <2>4, <2>5, <2>6 DEF DbTypeOK
<1>26. ASSUME powerLoss PROVE DbTypeOK'
  <2>1. OpsType'
    BY <1>0, <1>26 DEF OpsType, powerLoss, reopen, Op, OpStatus
  <2>2. MemType'
    <3>1. PICK disk \in AfterPowerLoss : reopen(disk)
      BY <1>26 DEF powerLoss
    <3>2. recover(disk.snap, disk.wal) \in State
      BY <1>0, DisksLeft, RecoverType
    <3> QED BY <1>0, <3>1, <3>2 DEF MemType, reopen
  <2>3. WalType'
    <3>1. /\ queue' = << >> /\ inflight' = << >> /\ landed' = 0
          /\ sealed' = FALSE /\ rotateLock' = FALSE
      BY <1>26 DEF powerLoss, reopen
    <3>2. queue' \in Seq(Nat) /\ inflight' \in Seq(Nat) /\ landed' \in 0..Len(inflight')
      BY <3>1
    <3>3. sealed' \in BOOLEAN /\ rotateLock' \in BOOLEAN
      BY <3>1
    <3> QED BY <3>2, <3>3 DEF WalType
  <2>4. DiskType'
    <3>1. PICK disk \in AfterPowerLoss : reopen(disk) /\ synced' = Len(file')
      BY <1>26 DEF powerLoss
    <3>2. disk.snap \in State /\ Truncated(disk.wal) \in Seq(Nat)
      BY <1>0, DisksLeft, TruncatedFacts
    <3>3. oldSnap' = {} /\ oldWal' = {}
      BY <1>26 DEF powerLoss
    <3> QED BY <3>1, <3>2, <3>3 DEF DiskType, reopen
  <2>5. (comp \in CompType)'
    BY <1>0, <1>26, EmptyTypes, CompFields DEF CompType, powerLoss, reopen
  <2>6. GhostType'
    <3>1. base' = store' /\ log' = << >> /\ failures' = failures
      BY <1>26 DEF powerLoss, reopen
    <3> QED BY <1>0, <2>2, <3>1 DEF GhostType, MemType
  <2> QED BY <2>1, <2>2, <2>3, <2>4, <2>5, <2>6 DEF DbTypeOK
<1>27. CASE UNCHANGED dbVars
  BY <1>0, <1>27 DEF DbTypeOK, OpsType, MemType, WalType, DiskType, GhostType, dbVars
<1> QED
  BY <1>1, <1>2, <1>3, <1>4, <1>5, <1>6, <1>7, <1>8, <1>9, <1>10, <1>11, <1>12, <1>13, <1>14, <1>15, <1>16, <1>17, <1>18, <1>19, <1>20, <1>21, <1>22, <1>23, <1>24, <1>25, <1>26, <1>27 DEF DbNext, Writers, Compaction, Rotation

\* Every frame, on disk or in the log, is of an operation that was issued.
LEMMA FramesNext ==
  ASSUME Basic, [DbNext]_dbVars
  PROVE  FramesOK'
<1>0. DbTypeOK /\ FramesOK /\ DbTypeOK'
  BY TypeNext DEF Basic
<1>00. /\ file \in Seq(Nat) /\ log \in Seq(Nat) /\ comp.tail \in Seq(Nat)
       /\ Len(ops) \in Nat /\ oldWal \subseteq Seq(Nat)
  BY <1>0, CompFields DEF DbTypeOK, DiskType, GhostType, OpsType
<1> DEFINE In(w, m) == \A i \in 1..Len(w) : w[i] \in 0..m
<1>000. /\ In(file, Len(ops)) /\ In(comp.tail, Len(ops)) /\ \A w \in oldWal : In(w, Len(ops))
        /\ \A i \in 1..Len(log) : log[i] \in 1..Len(ops)
  BY <1>0 DEF FramesOK
<1> USE DEF opVars, memVars, walVars, diskVars, ghostVars
<1>1. ASSUME NEW w \in Writes, issue(w)
      PROVE  FramesOK'
  <2>1. Len(ops') = Len(ops) + 1 /\ UNCHANGED <<file, comp, oldWal, log>>
    BY <1>0, <1>1 DEF issue, DbTypeOK, OpsType
  <2> QED BY <1>00, <1>000, <2>1, SMTT(30) DEF FramesOK
<1>2. ASSUME NEW n \in Op, commit(n)
      PROVE  FramesOK'
  <2>1. /\ log' = Append(log, n) /\ comp'.tail = comp.tail /\ n \in 1..Len(ops)
        /\ UNCHANGED <<file, oldWal, ops>>
    BY <1>0, <1>2 DEF commit, DbTypeOK, CompType, Op
  <2>2. Len(log') = Len(log) + 1 /\ log'[Len(log) + 1] = n /\ \A i \in 1..Len(log) : log'[i] = log[i]
    BY <1>00, <2>1, AppendFacts
  <2>3. \A i \in 1..Len(log') : log'[i] \in 1..Len(ops)
    BY <1>00, <1>000, <2>1, <2>2, SMTT(30)
  <2> QED BY <1>00, <1>000, <2>1, <2>3 DEF FramesOK
<1>3. CASE flushFrame
  <2>1. /\ file' = Append(file, inflight[landed + 1]) /\ UNCHANGED <<oldWal, ops, log, comp>>
        /\ landed + 1 \in 1..Len(inflight)
    BY <1>0, <1>3 DEF flushFrame, DbTypeOK, WalType
  <2>2. inflight[landed + 1] \in 0..Len(ops)
    BY <2>1, BatchFrames
  <2> DEFINE x == inflight[landed + 1]
  <2>3. x \in Nat /\ x \in 0..Len(ops) /\ file' = Append(file, x)
    BY <1>00, <2>1, <2>2
  <2> HIDE DEF x
  <2>4. /\ Len(file') = Len(file) + 1 /\ file'[Len(file) + 1] = x
        /\ \A i \in 1..Len(file) : file'[i] = file[i]
        /\ \A i \in 1..(Len(file) + 1) : i \in 1..Len(file) \/ i = Len(file) + 1
    BY <1>00, <2>3, AppendFacts
  <2>5. In(file', Len(ops))
    BY <1>000, <2>3, <2>4
  <2> QED BY <1>000, <2>1, <2>5 DEF FramesOK
<1>4. CASE flushFails
  <2>1. /\ file' \in {file, Append(file, 0)} /\ UNCHANGED <<oldWal, ops, log>>
        /\ comp'.tail = comp.tail
    BY <1>0, <1>4 DEF flushFails, DbTypeOK, CompType, Torn
  <2>2. In(Append(file, 0), Len(ops))
    BY <1>00, <1>000, AppendFacts
  <2>3. In(file', Len(ops))
    BY <1>000, <2>1, <2>2
  <2> QED BY <1>00, <1>000, <2>1, <2>3 DEF FramesOK
<1>5. CASE compact \/ openFresh \/ compactFails
  <2>1. comp'.tail = << >> /\ UNCHANGED <<file, oldWal, ops, log>>
    BY <1>5, EmptyTypes DEF compact, openFresh, compactFails, NoCompaction
  <2> QED BY <1>00, <1>000, <2>1 DEF FramesOK
<1>6. CASE preCopy \/ drainAndClose
  <2>1. comp'.tail = comp.tail \o Gap /\ UNCHANGED <<file, oldWal, ops, log>>
    BY <1>0, <1>6 DEF preCopy, drainAndClose, DbTypeOK, CompType
  <2>2. CASE comp.copied <= Len(file)
    <3>1. /\ Gap \in Seq(Nat) /\ Len(Gap) = Len(file) - comp.copied /\ comp.copied \in Nat
          /\ \A i \in 1..Len(Gap) : Gap[i] = file[comp.copied + i]
      BY <1>0, <2>2, GapFacts, CompFields DEF DbTypeOK
    <3>2. \A i \in 1..Len(Gap) : comp.copied + i \in 1..Len(file)
      <4>1. Len(file) \in Nat
        BY <1>00
      <4> QED BY <2>2, <3>1, <4>1
    <3>3. \A i \in 1..Len(Gap) : Gap[i] \in 0..Len(ops)
      BY <1>000, <3>1, <3>2
    <3>4. In(comp.tail \o Gap, Len(ops))
      BY <1>00, <1>000, <3>1, <3>3, ConcatIn
    <3> QED BY <1>00, <1>000, <2>1, <3>4 DEF FramesOK
  <2>3. comp.copied <= Len(file)
    BY <1>6 DEF Basic, CompOK, preCopy, drainAndClose, Phase, Copying
  <2> QED BY <2>2, <2>3
<1>7. CASE renameWal
  <2>1. file' = comp.tail /\ oldWal' = {file} /\ UNCHANGED <<ops, log>> /\ comp'.tail = comp.tail
    BY <1>0, <1>7 DEF renameWal, DbTypeOK, CompType
  <2> QED BY <1>00, <1>000, <2>1 DEF FramesOK
<1>8. CASE kill
  <2>1. /\ file' = Truncated(file) /\ log' = SubSeq(log, 1, Landed) /\ UNCHANGED <<oldWal, ops>>
        /\ comp'.tail = << >>
    BY <1>8 DEF kill, reopen, AfterKill, NoCompaction, Landed, Taken
  <2>2. Landed \in 0..Len(log)
    BY Ranges
  <2>3. Len(log') = Landed /\ \A i \in 1..Landed : log'[i] = log[i]
    BY <1>00, <2>1, <2>2
  <2>4. In(Truncated(file), Len(ops))
    <3>1. /\ Len(Truncated(file)) \in Nat /\ Len(Truncated(file)) <= Len(file) /\ Len(file) \in Nat
          /\ \A i \in 1..Len(Truncated(file)) : Truncated(file)[i] = file[i]
      BY <1>00, TruncatedFacts
    <3> QED BY <1>000, <3>1
  <2> QED BY <1>00, <1>000, <2>1, <2>2, <2>3, <2>4 DEF FramesOK
<1>9. CASE powerLoss
  <2>1. PICK disk \in AfterPowerLoss : file' = Truncated(disk.wal)
    BY <1>9 DEF powerLoss, reopen
  <2>2. oldWal' = {} /\ log' = << >> /\ comp'.tail = << >> /\ ops' = ops
    BY <1>9 DEF powerLoss, reopen, NoCompaction
  <2>3. disk.wal \in Seq(Nat) /\ In(disk.wal, Len(ops))
    BY DisksLeft
  <2>4. In(Truncated(disk.wal), Len(ops))
    BY <2>3, TruncatedFacts, SMTT(30)
  <2> QED BY <2>1, <2>2, <2>4 DEF FramesOK
<1>10. ASSUME UNCHANGED <<ops, file, log>>, comp'.tail = comp.tail, oldWal' \subseteq oldWal
       PROVE  FramesOK'
  BY <1>000, <1>10 DEF FramesOK
<1>11. ASSUME NEW n \in Op, passGate(n) \/ commitSealed(n) \/ expire(n)
       PROVE  FramesOK'
  BY <1>10, <1>11 DEF passGate, commitSealed, expire
<1>12. ASSUME NEW k \in Key, reap(k) \/ snapshotKey(k)
       PROVE  FramesOK'
  <2>1. comp'.tail = comp.tail
    BY <1>0, <1>12 DEF reap, snapshotKey, DbTypeOK, CompType
  <2> QED BY <1>10, <1>12, <2>1 DEF reap, snapshotKey
<1>13. CASE flushStart \/ flushEnd \/ syncTimer
  BY <1>10, <1>13 DEF flushStart, flushEnd, syncTimer
<1>14. CASE \/ fence \/ snapshotWritten \/ seal \/ renameSnapshot
            \/ fsyncDir("syncSnap", "renameWal") \/ fsyncDir("syncWal", "open")
  <2>1. comp'.tail = comp.tail
    BY <1>0, <1>14 DEF fence, snapshotWritten, seal, renameSnapshot, fsyncDir, DbTypeOK, CompType
  <2>2. UNCHANGED <<ops, file, log>> /\ oldWal' \subseteq oldWal
    BY <1>14 DEF fence, snapshotWritten, seal, renameSnapshot, fsyncDir
  <2> QED BY <1>10, <2>1, <2>2
<1>15. CASE UNCHANGED dbVars
  BY <1>10, <1>15 DEF dbVars
<1> QED
  BY <1>1, <1>2, <1>3, <1>4, <1>5, <1>6, <1>7, <1>8, <1>9, <1>11, <1>12, <1>13, <1>14, <1>15
     DEF DbNext, Writers, Compaction, Rotation

\* Every step leaves the batch and the queue at the end of the log.
LEMMA QueueNext ==
  ASSUME Basic, [DbNext]_dbVars
  PROVE  QueueOK'
<1>0. DbTypeOK /\ FramesOK /\ QueueOK
  BY DEF Basic
<1>00. /\ log \in Seq(Nat) /\ queue \in Seq(Nat) /\ inflight \in Seq(Nat)
       /\ Len(log) \in Nat /\ Len(queue) \in Nat /\ Len(inflight) \in Nat
       /\ status \in Seq(OpStatus) /\ Len(status) = Len(ops) /\ Len(ops) \in Nat
       /\ \A i \in 1..Len(log) : log[i] \in 1..Len(ops)
  BY <1>0 DEF DbTypeOK, OpsType, WalType, GhostType, FramesOK
<1>000. /\ Taken \in Nat /\ Landed \in Nat /\ Taken <= Landed /\ Landed <= Len(log)
        /\ Len(log) = Taken + Len(inflight) + Len(queue)
  BY Ranges
<1> USE DEF opVars, memVars, walVars, diskVars, ghostVars
<1>1. ASSUME UNCHANGED <<queue, inflight, log>>,
             \A i \in 1..Len(log) : status'[log[i]] = status[log[i]]
      PROVE  QueueOK'
  <2>1. Taken' = Taken
    BY <1>1 DEF Taken
  <2> QED BY <1>0, <1>1, <2>1 DEF QueueOK
<1>2. ASSUME NEW w \in Writes, issue(w)
      PROVE  QueueOK'
  <2>1. UNCHANGED <<queue, inflight, log>> /\ status' = Append(status, "parked")
    BY <1>2 DEF issue
  <2>2. \A i \in 1..Len(log) : status'[log[i]] = status[log[i]]
    BY <1>00, <2>1
  <2> QED BY <1>1, <2>1, <2>2
<1>3. ASSUME NEW n \in Op, passGate(n) \/ commitSealed(n) \/ expire(n)
      PROVE  QueueOK'
  <2>1. UNCHANGED <<queue, inflight, log>>
    BY <1>3 DEF passGate, commitSealed, expire
  <2>2. \A i \in 1..Len(log) : status'[log[i]] = status[log[i]]
    <3>1. CASE expire(n)
      BY <3>1 DEF expire
    <3>2. CASE passGate(n) \/ commitSealed(n)
      <4>1. status[n] \in {"parked", "gated"} /\ n \in 1..Len(status)
        BY <1>00, <3>2 DEF passGate, commitSealed, Op
      <4>2. \A i \in 1..Len(log) : log[i] # n
        BY <1>0, <4>1 DEF QueueOK
      <4>3. \E s : status' = [status EXCEPT ![n] = s]
        BY <3>2 DEF passGate, commitSealed, SetStatus
      <4> QED BY <1>00, <4>2, <4>3
    <3> QED BY <1>3, <3>1, <3>2
  <2> QED BY <1>1, <2>1, <2>2
<1>4. ASSUME NEW n \in Op, commit(n)
      PROVE  QueueOK'
  <2>1. /\ log' = Append(log, n) /\ queue' = Append(queue, n) /\ inflight' = inflight
        /\ status' = [status EXCEPT ![n] = "pending"] /\ n \in 1..Len(ops) /\ n \in Nat
        /\ status[n] \in {"gated", "retry"}
    BY <1>00, <1>4 DEF commit, SetStatus, Op
  <2>2. \A i \in 1..Len(log) : log[i] # n
    BY <1>0, <2>1 DEF QueueOK
  <2>3. /\ Len(log') = Len(log) + 1 /\ log'[Len(log) + 1] = n
        /\ \A i \in 1..Len(log) : log'[i] = log[i]
    BY <1>00, <2>1, AppendFacts
  <2>4. /\ Len(queue') = Len(queue) + 1 /\ queue'[Len(queue) + 1] = n
        /\ \A i \in 1..Len(queue) : queue'[i] = queue[i]
    BY <1>00, <2>1, AppendFacts
  <2>5. Taken' = Taken
    BY <1>00, <2>1, <2>3, <2>4 DEF Taken
  <2>6. /\ status'[n] = "pending"
        /\ \A i \in 1..Len(log) : status'[log[i]] = status[log[i]]
    BY <1>00, <2>1, <2>2
  <2>7. \A i \in 1..Len(inflight') : inflight'[i] = log'[Taken' + i]
    BY <2>1, <2>3, <2>5, BatchFrames
  <2>8. \A i \in 1..Len(queue') : queue'[i] = log'[Taken' + Len(inflight') + i]
    <3> SUFFICES ASSUME NEW i \in 1..Len(queue') PROVE queue'[i] = log'[Taken + Len(inflight) + i]
      BY <2>1, <2>5
    <3>1. CASE i \in 1..Len(queue)
      BY <2>3, <2>4, <3>1, BatchFrames
    <3>2. CASE i = Len(queue) + 1
      BY <1>000, <1>00, <2>3, <2>4, <3>2
    <3> QED BY <1>00, <2>4, <3>1, <3>2
  <2>9. \A i, j \in 1..Len(log') : log'[i] = log'[j] => i = j
    <3>1. \A i, j \in 1..Len(log) : log[i] = log[j] => i = j
      BY <1>0 DEF QueueOK
    <3>2. \A i \in 1..Len(log') : i \in 1..Len(log) \/ i = Len(log) + 1
      BY <1>00, <2>3
    <3> QED BY <2>2, <2>3, <3>1, <3>2
  <2>10. /\ \A i \in 1..Len(log') : status'[log'[i]] \in {"pending", "acked", "failed", "lost"}
         /\ \A i \in 1..Len(log') : i > Taken' => status'[log'[i]] = "pending"
    <3>1. \A i \in 1..Len(log) : /\ status[log[i]] \in {"pending", "acked", "failed", "lost"}
                                 /\ i > Taken => status[log[i]] = "pending"
      BY <1>0 DEF QueueOK
    <3>2. \A i \in 1..Len(log') : i \in 1..Len(log) \/ i = Len(log) + 1
      BY <1>00, <2>3
    <3> QED BY <2>3, <2>5, <2>6, <3>1, <3>2
  <2>11. Len(queue') + Len(inflight') <= Len(log')
    BY <1>00, <1>000, <2>1, <2>3, <2>4
  <2> QED BY <2>7, <2>8, <2>9, <2>10, <2>11 DEF QueueOK
<1>5. CASE flushStart
  <2>1. inflight' = queue /\ queue' = << >> /\ inflight = << >> /\ UNCHANGED <<log, status>>
    BY <1>5 DEF flushStart
  <2>2. Len(inflight) = 0 /\ Len(queue') = 0 /\ Len(inflight') = Len(queue)
    BY <2>1
  <2>3. Taken' = Taken
    BY <1>00, <2>1, <2>2 DEF Taken
  <2>4. \A i \in 1..Len(inflight') : inflight'[i] = log'[Taken' + i]
    BY <1>00, <1>000, <2>1, <2>2, <2>3, BatchFrames
  <2> QED BY <1>0, <1>00, <1>000, <2>1, <2>2, <2>3, <2>4 DEF QueueOK
<1>6. ASSUME NEW s \in {"acked", "failed"}, status' = StatusOf(inflight, s), inflight' = << >>,
             UNCHANGED <<queue, log>>
      PROVE  QueueOK'
  <2>1. Taken' = Taken + Len(inflight) /\ Len(inflight') = 0
    BY <1>00, <1>6 DEF Taken
  <2>2. \A x : x \in ToSet(inflight) <=> \E i \in 1..Len(inflight) : inflight[i] = x
    BY <1>00, MemberFacts
  <2>3. ASSUME NEW i \in 1..Len(log)
        PROVE  /\ status'[log[i]] \in {"pending", "acked", "failed", "lost"}
               /\ i > Taken' => status'[log[i]] = "pending"
    <3>1. status'[log[i]] = IF log[i] \in ToSet(inflight) THEN s ELSE status[log[i]]
      BY <1>00, <1>6 DEF StatusOf, Op
    <3>2. ASSUME i > Taken', log[i] \in ToSet(inflight) PROVE FALSE
      <4>1. PICK j \in 1..Len(inflight) : inflight[j] = log[i]
        BY <2>2, <3>2
      <4>2. Taken + j \in 1..Len(log) /\ log[Taken + j] = log[i]
        BY <4>1, BatchFrames
      <4>3. i = Taken + j
        BY <1>0, <4>2 DEF QueueOK
      <4> QED BY <1>00, <1>000, <2>1, <3>2, <4>3
    <3>3. i > Taken' => i > Taken
      BY <1>00, <1>000, <2>1
    <3> QED BY <1>0, <1>6, <3>1, <3>2, <3>3 DEF QueueOK
  <2>4. \A i \in 1..Len(queue) : queue[i] = log[Taken' + Len(inflight') + i]
    BY <1>00, <1>000, <2>1, BatchFrames
  <2>5. Len(queue') + Len(inflight') <= Len(log')
    BY <1>00, <1>000, <1>6, <2>1
  <2>6. \A i \in 1..Len(inflight') : inflight'[i] = log'[Taken' + i]
    BY <2>1
  <2>7. \A i, j \in 1..Len(log) : log[i] = log[j] => i = j
    BY <1>0 DEF QueueOK
  <2> QED BY <1>6, <2>3, <2>4, <2>5, <2>6, <2>7 DEF QueueOK
<1>7. CASE flushEnd
  BY <1>6, <1>7 DEF flushEnd
<1>8. CASE flushFails
  BY <1>6, <1>8 DEF flushFails
<1>9. CASE kill
  <2>1. /\ log' = SubSeq(log, 1, Landed) /\ queue' = << >> /\ inflight' = << >>
        /\ \A n \in 1..Len(ops) : status'[n] \in {"acked", "failed", "lost"}
    BY <1>9 DEF kill, reopen, Landed, Taken, Op
  <2>2. Len(log') = Landed /\ \A i \in 1..Landed : log'[i] = log[i] /\ i \in 1..Len(log)
    BY <1>00, <1>000, <2>1
  <2>3. Len(queue') = 0 /\ Len(inflight') = 0 /\ Taken' = Landed
    BY <1>000, <2>1, <2>2 DEF Taken
  <2>4. \A i \in 1..Len(log') : status'[log'[i]] \in {"acked", "failed", "lost"}
    BY <1>00, <2>1, <2>2
  <2>5. \A i, j \in 1..Len(log') : log'[i] = log'[j] => i = j
    BY <1>0, <2>2 DEF QueueOK
  <2> QED BY <1>000, <2>2, <2>3, <2>4, <2>5 DEF QueueOK
<1>10. CASE powerLoss
  <2>1. log' = << >> /\ queue' = << >> /\ inflight' = << >>
    BY <1>10 DEF powerLoss, reopen
  <2> QED BY <2>1 DEF QueueOK
<1>11. ASSUME NEW k \in Key, reap(k) \/ snapshotKey(k)
       PROVE  QueueOK'
  BY <1>1, <1>11 DEF reap, snapshotKey
<1>12. ASSUME UNCHANGED <<queue, inflight, log, status>> PROVE QueueOK'
  BY <1>1, <1>12
<1>13. CASE flushFrame \/ syncTimer
  BY <1>12, <1>13 DEF flushFrame, syncTimer
<1>14. CASE compact \/ fence \/ snapshotWritten \/ preCopy \/ seal
  BY <1>12, <1>14 DEF compact, fence, snapshotWritten, preCopy, seal
<1>15. CASE Rotation
  BY <1>12, <1>15 DEF Rotation, drainAndClose, renameSnapshot, fsyncDir, renameWal, openFresh
<1>16. CASE compactFails
  BY <1>12, <1>16 DEF compactFails
<1>17. CASE UNCHANGED dbVars
  BY <1>12, <1>17 DEF dbVars
<1> QED
  BY <1>2, <1>3, <1>4, <1>5, <1>7, <1>8, <1>9, <1>10, <1>11, <1>13, <1>14, <1>15, <1>16, <1>17
     DEF DbNext, Writers, Compaction

\* Every step leaves the compaction's flags and its copy of the log in order.
LEMMA CompNext ==
  ASSUME Basic, [DbNext]_dbVars
  PROVE  CompOK'
<1>0. DbTypeOK /\ CompOK
  BY DEF Basic
<1>00. /\ comp \in CompType /\ comp.base \in Nat /\ comp.copied \in Nat /\ comp.tail \in Seq(Nat)
       /\ Len(comp.tail) \in Nat
       /\ file \in Seq(Nat) /\ Len(file) \in Nat /\ synced \in 0..Len(file)
  BY <1>0, CompFields DEF DbTypeOK, DiskType
<1> USE DEF opVars, memVars, walVars, diskVars, ghostVars
<1>1. ASSUME UNCHANGED <<sealed, rotateLock, file, synced, snapshot>>,
             comp'.phase = comp.phase, comp'.base = comp.base, comp'.copied = comp.copied,
             comp'.tail = comp.tail, comp'.snap = comp.snap \/ comp.phase = "snapshot",
             comp.phase # "snapshot" => comp'.todo = comp.todo,
             comp.phase \in Sealing \ {"drain"} => Flushed'
      PROVE  CompOK'
  BY <1>0, <1>1 DEF CompOK, Swapping, Copying
<1>2. ASSUME NEW w \in Writes, issue(w) PROVE CompOK'
  BY <1>0, <1>1, <1>2 DEF issue, CompOK, Flushed
<1>3. ASSUME NEW n \in Op, passGate(n) \/ commitSealed(n) \/ expire(n)
      PROVE  CompOK'
  BY <1>0, <1>1, <1>3 DEF passGate, commitSealed, expire, CompOK, Flushed
<1>4. ASSUME NEW n \in Op, commit(n) PROVE CompOK'
  <2>1. comp.phase \notin Sealing
    BY <1>0, <1>4 DEF commit, CompOK
  <2>2. /\ comp'.phase = comp.phase /\ comp'.base = comp.base /\ comp'.copied = comp.copied
        /\ comp'.tail = comp.tail /\ comp'.snap = comp.snap
        /\ comp'.todo = Todo(store, Applied(store, n))
    BY <1>00, <1>4 DEF commit, CompType
  <2>3. comp.phase # "snapshot" => comp'.todo = comp.todo
    BY <2>2 DEF Todo
  <2> QED BY <1>1, <1>4, <2>1, <2>2, <2>3 DEF commit
<1>5. ASSUME NEW k \in Key, reap(k) PROVE CompOK'
  <2>2. /\ comp'.phase = comp.phase /\ comp'.base = comp.base /\ comp'.copied = comp.copied
        /\ comp'.tail = comp.tail /\ comp'.snap = comp.snap
        /\ comp'.todo = Todo(store, store')
    BY <1>00, <1>5 DEF reap, CompType
  <2>3. comp.phase # "snapshot" => comp'.todo = comp.todo
    BY <2>2 DEF Todo
  <2>4. comp.phase \in Sealing \ {"drain"} => Flushed'
    BY <1>0, <1>5 DEF reap, CompOK, Flushed
  <2> QED BY <1>1, <1>5, <2>2, <2>3, <2>4 DEF reap
<1>6. CASE flushStart
  <2>1. comp.phase \notin Sealing \ {"drain"}
    BY <1>0, <1>6 DEF flushStart, CompOK, Flushed
  <2> QED BY <1>1, <1>6, <2>1 DEF flushStart
<1>7. ASSUME inflight # << >>, UNCHANGED <<sealed, rotateLock, snapshot>>,
             comp'.phase = comp.phase, comp'.base = comp.base, comp'.copied = comp.copied,
             comp'.tail = comp.tail, comp'.snap = comp.snap,
             comp.phase # "snapshot" => comp'.todo = comp.todo,
             file' = file \/ \E x \in Nat : file' = Append(file, x)
      PROVE  CompOK'
  <2>1. comp.phase \notin Sealing \ {"drain"}
    BY <1>0, <1>7 DEF CompOK, Flushed
  <2>2. comp.phase \notin Swapping
    BY <2>1 DEF Swapping, Sealing
  <2>3. Len(file') \in Nat /\ Len(file) <= Len(file') /\ \A i \in 1..Len(file) : file'[i] = file[i]
    BY <1>00, <1>7, AppendFacts, SMTT(30)
  <2>4. ASSUME comp.phase \in Copying \cup Swapping
        PROVE  /\ comp.base <= comp.copied /\ comp.copied <= Len(file')
               /\ Len(comp.tail) = comp.copied - comp.base
               /\ \A i \in 1..Len(comp.tail) : comp.tail[i] = file'[comp.base + i]
    <3>1. /\ comp.base <= comp.copied /\ comp.copied <= Len(file)
          /\ Len(comp.tail) = comp.copied - comp.base
          /\ \A i \in 1..Len(comp.tail) : comp.tail[i] = file[comp.base + i]
      BY <1>0, <2>4 DEF CompOK
    <3>2. \A i \in 1..Len(comp.tail) : comp.base + i \in 1..Len(file)
      BY <1>00, <3>1, ShiftIn
    <3>3. comp.copied <= Len(file')
      BY <1>00, <2>3, <3>1
    <3> QED BY <2>3, <3>1, <3>2, <3>3
  <2>5. comp.phase \notin {"syncSnap", "renameWal"}
    BY <2>2 DEF Swapping
  <2> QED BY <1>0, <1>7, <2>1, <2>2, <2>4, <2>5 DEF CompOK
<1>8. CASE flushFrame
  <2>1. inflight # << >> /\ inflight[landed + 1] \in Nat
    BY <1>0, <1>8 DEF flushFrame, DbTypeOK, WalType
  <2> QED BY <1>7, <1>8, <2>1 DEF flushFrame
<1>9. CASE flushEnd
  BY <1>7, <1>9 DEF flushEnd
<1>10. CASE flushFails
  <2>1. /\ comp'.phase = comp.phase /\ comp'.base = comp.base /\ comp'.copied = comp.copied
        /\ comp'.tail = comp.tail /\ comp'.snap = comp.snap
        /\ \E x : comp'.todo = Todo(store, x)
    BY <1>00, <1>10 DEF flushFails, CompType
  <2>2. comp.phase # "snapshot" => comp'.todo = comp.todo
    BY <2>1 DEF Todo
  <2>3. file' = file \/ \E x \in Nat : file' = Append(file, x)
    BY <1>10 DEF flushFails, Torn
  <2> QED BY <1>7, <1>10, <2>1, <2>2, <2>3 DEF flushFails
<1>11. CASE syncTimer
  BY <1>0, <1>11 DEF syncTimer, CompOK, Flushed
<1>12. ASSUME comp'.phase \in {"none", "fence"}, comp'.todo = {}, ~sealed', ~rotateLock',
              comp'.tail = << >>, comp'.snap = Empty
       PROVE  CompOK'
  BY <1>12 DEF CompOK, Sealing, Swapping, Copying
<1>13. CASE compact
  <2>1. comp'.phase = "fence" /\ comp'.todo = {} /\ comp'.tail = << >> /\ comp'.snap = Empty
    BY <1>13 DEF compact, NoCompaction
  <2>2. ~sealed /\ ~rotateLock
    BY <1>0, <1>13 DEF compact, CompOK, Phase, Sealing
  <2> QED BY <1>12, <1>13, <2>1, <2>2 DEF compact
<1>14. CASE openFresh \/ compactFails \/ kill \/ powerLoss
  <2>1. /\ comp'.phase = "none" /\ comp'.todo = {} /\ ~sealed' /\ ~rotateLock'
        /\ comp'.tail = << >> /\ comp'.snap = Empty
    BY <1>14 DEF openFresh, compactFails, kill, powerLoss, reopen, NoCompaction
  <2> QED BY <1>12, <2>1
<1>15. CASE fence
  <2>1. /\ comp'.phase = "snapshot" /\ comp'.base = Len(file) /\ comp'.copied = Len(file)
        /\ comp'.tail = comp.tail
    BY <1>00, <1>15 DEF fence, CompType
  <2>2. comp.tail = << >>
    BY <1>15, <1>0 DEF CompOK, fence, Phase
  <2>3. ~sealed /\ ~rotateLock /\ UNCHANGED <<sealed, rotateLock, file>>
    BY <1>0, <1>15 DEF CompOK, fence, Phase, Sealing
  <2>4. Len(comp'.tail) = 0
    BY <2>1, <2>2
  <2> QED BY <1>00, <2>1, <2>3, <2>4 DEF CompOK, Sealing, Copying, Swapping
<1>16. ASSUME NEW k \in Key, snapshotKey(k) PROVE CompOK'
  <2>1. /\ comp'.phase = comp.phase /\ comp'.base = comp.base /\ comp'.copied = comp.copied
        /\ comp'.tail = comp.tail /\ comp.phase = "snapshot"
    BY <1>00, <1>16 DEF snapshotKey, CompType, Phase
  <2> QED BY <1>1, <1>16, <2>1 DEF snapshotKey, Sealing
<1>17. CASE snapshotWritten \/ seal
  <2>1. /\ comp'.phase = (IF comp.phase = "snapshot" THEN "precopy" ELSE "drain")
        /\ comp'.base = comp.base /\ comp'.copied = comp.copied
        /\ comp'.tail = comp.tail /\ comp'.todo = {} /\ comp.phase \in {"snapshot", "precopy"}
    BY <1>0, <1>00, <1>17 DEF snapshotWritten, seal, CompType, Phase, CompOK
  <2>2. CASE snapshotWritten
    BY <1>0, <2>1, <2>2 DEF snapshotWritten, CompOK, Sealing, Copying, Swapping, Phase
  <2>3. CASE seal
    BY <1>0, <2>1, <2>3 DEF seal, CompOK, Sealing, Copying, Swapping, Phase
  <2> QED BY <1>17, <2>2, <2>3
<1>18. CASE preCopy \/ drainAndClose
  <2>1. /\ comp'.phase = (IF comp.phase = "drain" THEN "renameSnap" ELSE "precopy")
        /\ comp'.base = comp.base /\ comp'.copied = Len(file)
        /\ comp'.tail = comp.tail \o Gap /\ comp'.todo = comp.todo
        /\ comp.phase \in {"precopy", "drain"}
    BY <1>00, <1>18 DEF preCopy, drainAndClose, CompType, Phase
  <2>2. /\ comp.base <= comp.copied /\ comp.copied <= Len(file)
        /\ Len(comp.tail) = comp.copied - comp.base
        /\ \A i \in 1..Len(comp.tail) : comp.tail[i] = file[comp.base + i]
        /\ comp.todo = {}
    BY <1>0, <2>1 DEF CompOK, Copying
  <2>3. /\ comp.base <= Len(file) /\ Len(comp.tail \o Gap) = Len(file) - comp.base
        /\ \A i \in 1..Len(comp.tail \o Gap) : (comp.tail \o Gap)[i] = file[comp.base + i]
    <3>1. /\ Gap \in Seq(Nat) /\ Len(Gap) = Len(file) - comp.copied
          /\ \A i \in 1..Len(Gap) : Gap[i] = file[comp.copied + i]
      BY <1>0, <2>2, GapFacts DEF DbTypeOK
    <3> DEFINE w == comp.tail
               u == Gap
               b == comp.base
               c == comp.copied
    <3>2. /\ w \in Seq(Nat) /\ u \in Seq(Nat) /\ file \in Seq(Nat) /\ b \in Nat /\ c \in Nat
          /\ b <= c /\ c <= Len(file) /\ Len(w) = c - b /\ Len(u) = Len(file) - c
          /\ \A i \in 1..Len(w) : w[i] = file[b + i]
          /\ \A i \in 1..Len(u) : u[i] = file[c + i]
      BY <1>00, <2>2, <3>1
    <3> HIDE DEF w, u, b, c
    <3>3. /\ b <= Len(file) /\ Len(w \o u) = Len(file) - b
          /\ \A i \in 1..Len(w \o u) : (w \o u)[i] = file[b + i]
      BY <3>2, CatShift, SMTT(30)
    <3> QED BY <3>3 DEF w, u, b, c
  <2>4. file' = file /\ UNCHANGED <<sealed, rotateLock>> /\ Flushed'
    BY <1>18 DEF preCopy, drainAndClose, Flushed
  <2>5. comp.phase = "drain" => synced' = Len(file)
    BY <1>18 DEF preCopy, drainAndClose, Phase
  <2>6. /\ comp'.base <= comp'.copied /\ comp'.copied <= Len(file')
        /\ Len(comp'.tail) = comp'.copied - comp'.base
        /\ \A i \in 1..Len(comp'.tail) : comp'.tail[i] = file'[comp'.base + i]
    <3> DEFINE cat == comp.tail \o Gap
    <3>1. comp'.tail = cat /\ comp'.base = comp.base /\ comp'.copied = Len(file) /\ file' = file
      BY <2>1, <2>4
    <3>2. /\ comp.base <= Len(file) /\ Len(cat) = Len(file) - comp.base
          /\ \A i \in 1..Len(cat) : cat[i] = file[comp.base + i]
      BY <2>3
    <3> HIDE DEF cat
    <3> QED BY <1>00, <3>1, <3>2
  <2>7. /\ sealed' <=> comp'.phase \in Sealing
        /\ rotateLock' <=> comp'.phase \in Sealing
    BY <1>0, <2>1, <2>4 DEF CompOK, Sealing
  <2>8. comp'.phase \in Swapping => comp'.copied = Len(file') /\ synced' = Len(file')
    BY <2>1, <2>4, <2>5 DEF Swapping
  <2>9. comp'.todo = {} /\ comp'.phase \notin {"syncSnap", "renameWal", "fence"}
    BY <2>1, <2>2
  <2> QED BY <2>4, <2>6, <2>7, <2>8, <2>9 DEF CompOK
<1>19. CASE renameSnapshot \/ fsyncDir("syncSnap", "renameWal")
  <2>1. /\ comp'.phase = (IF comp.phase = "renameSnap" THEN "syncSnap" ELSE "renameWal")
        /\ comp'.base = comp.base /\ comp'.copied = comp.copied /\ comp'.snap = comp.snap
        /\ comp'.tail = comp.tail /\ comp'.todo = comp.todo
        /\ comp.phase \in {"renameSnap", "syncSnap"}
    BY <1>00, <1>19 DEF renameSnapshot, fsyncDir, CompType, Phase
  <2>2. /\ UNCHANGED <<sealed, rotateLock, file, synced, queue, inflight>>
        /\ snapshot' = comp.snap
    BY <1>0, <1>19 DEF renameSnapshot, fsyncDir, CompOK, Phase
  <2> QED BY <1>0, <2>1, <2>2 DEF CompOK, Sealing, Copying, Swapping, Flushed
<1>20. CASE renameWal \/ fsyncDir("syncWal", "open")
  <2>1. /\ comp'.phase \in {"syncWal", "open"} /\ comp'.todo = comp.todo
        /\ comp.phase \in {"renameWal", "syncWal"}
    BY <1>00, <1>20 DEF renameWal, fsyncDir, CompType, Phase
  <2>2. UNCHANGED <<sealed, rotateLock, queue, inflight>>
    BY <1>20 DEF renameWal, fsyncDir
  <2> QED BY <1>0, <2>1, <2>2 DEF CompOK, Sealing, Copying, Swapping, Flushed
<1>21. CASE UNCHANGED dbVars
  BY <1>0, <1>1, <1>21 DEF dbVars, CompOK, Flushed
<1> QED
  BY <1>2, <1>3, <1>4, <1>5, <1>6, <1>8, <1>9, <1>10, <1>11, <1>13, <1>14, <1>15, <1>16, <1>17,
     <1>18, <1>19, <1>20, <1>21
     DEF DbNext, Writers, Compaction, Rotation

\* The four together.
LEMMA BasicNext ==
  ASSUME Basic, [DbNext]_dbVars
  PROVE  Basic'
<1> QED BY TypeNext, FramesNext, QueueNext, CompNext DEF Basic

-----------------------------------------------------------------------------
(***************************************************************************)
(* What a step does to the context.                                        *)
(***************************************************************************)
LEMMA ContextLater ==
  ASSUME Basic, Basic', NEW X \in Nat, X <= Len(log), X <= Len(log'),
         \A i \in 1..X : log'[i] = log[i],
         \A i \in 1..Len(log) : i > X => status[log[i]] # "failed",
         \A n \in 1..Len(ops) : ops'[n] = ops[n] /\ (status[n] = "failed" => status'[n] = "failed"),
         expired \subseteq expired', base' = base, failures' = 0 => failures = 0
  PROVE  \A m \in 0..X : Later(Ctx, Ctx', m)
<1> DEFINE c == Ctx
           d == Ctx'
<1>1. /\ c.log = log /\ c.ops = ops /\ c.status = status /\ c.expired = expired /\ c.base = base
      /\ c.failures = failures
      /\ d.log = log' /\ d.ops = ops' /\ d.status = status' /\ d.expired = expired'
      /\ d.base = base' /\ d.failures = failures'
  BY DEF Ctx
<1>2. log \in Seq(Nat) /\ \A i \in 1..Len(log) : log[i] \in 1..Len(ops)
  BY DEF Basic, DbTypeOK, GhostType, FramesOK
<1>3. log' \in Seq(Nat) /\ 0 \notin expired'
  BY DEF Basic, DbTypeOK, GhostType, OpsType
<1> HIDE DEF c, d
<1>4. ASSUME NEW k \in Key, Clean(d, k) PROVE Clean(c, k)
  <2> SUFFICES ASSUME NEW i \in 1..Len(log), status[log[i]] = "failed"
               PROVE  ops[log[i]][k] # "del"
    BY <1>1 DEF Clean, Failed
  <2>1. i \in 1..X /\ i \in 1..Len(log')
    <3>1. Len(log) \in Nat /\ Len(log') \in Nat /\ ~(i > X)
      BY <1>2, <1>3
    <3> QED BY <3>1
  <2>2. log'[i] = log[i] /\ ops'[log[i]] = ops[log[i]] /\ status'[log[i]] = "failed"
    BY <1>2, <2>1
  <2> QED BY <1>1, <1>4, <2>1, <2>2 DEF Clean, Failed
<1>5. ASSUME NEW m \in 0..X PROVE Later(c, d, m)
  <2>1. Len(log) \in Nat /\ Len(log') \in Nat
    BY <1>2, <1>3
  <2>2. m \in Nat /\ m <= Len(log) /\ m <= Len(log')
    BY <2>1
  <2>3. ASSUME NEW i \in 1..m
        PROVE  /\ log'[i] = log[i] /\ ops'[log[i]] = ops[log[i]]
               /\ status[log[i]] = "failed" => status'[log[i]] = "failed"
    <3>1. i \in 1..X /\ i \in 1..Len(log)
      BY <2>1, <2>2
    <3> QED BY <1>2, <3>1
  <2> QED BY <1>1, <1>2, <1>3, <1>4, <2>2, <2>3, SMTT(30) DEF Later, Failed
<1> QED BY <1>5 DEF c, d

\* A step of a writer or the compaction only adds to the log.
LEMMA LaterNext ==
  ASSUME Basic, [Writers \/ Compaction]_dbVars
  PROVE  /\ \A m \in 0..Len(log) : Later(Ctx, Ctx', m)
         /\ Len(log) <= Len(log') /\ \A i \in 1..Len(log) : log'[i] = log[i]
<1>0. Basic' /\ DbTypeOK /\ FramesOK /\ QueueOK
  BY BasicNext DEF DbNext, Basic
<1>00. /\ log \in Seq(Nat) /\ Len(log) \in Nat /\ Len(ops) \in Nat
       /\ status \in Seq(OpStatus) /\ Len(status) = Len(ops) /\ failures \in Nat
       /\ \A i \in 1..Len(log) : log[i] \in 1..Len(ops)
  BY <1>0 DEF DbTypeOK, OpsType, GhostType, FramesOK
<1>1. ASSUME Len(log) <= Len(log'), \A i \in 1..Len(log) : log'[i] = log[i],
             \A n \in 1..Len(ops) : ops'[n] = ops[n] /\ (status[n] = "failed" => status'[n] = "failed"),
             expired \subseteq expired', base' = base, failures' = 0 => failures = 0
      PROVE  \A m \in 0..Len(log) : Later(Ctx, Ctx', m)
  <2>1. \A i \in 1..Len(log) : i > Len(log) => status[log[i]] # "failed"
    BY <1>00
  <2>2. Len(log) \in Nat /\ Len(log) <= Len(log)
    BY <1>00
  <2> QED BY <1>0, <1>1, <2>1, <2>2, ContextLater
<1> USE DEF opVars, memVars, walVars, diskVars, ghostVars
<1>2. /\ base' = base
      /\ failures' = 0 => failures = 0
  <2>1. CASE Writers
    BY <1>00, <2>1 DEF Writers, issue, passGate, commit, commitSealed, expire, reap, flushStart,
       flushFrame, flushEnd, flushFails, syncTimer
  <2>2. CASE Compaction
    BY <2>2 DEF Compaction, compact, fence, snapshotKey, snapshotWritten, preCopy, seal, Rotation,
       drainAndClose, renameSnapshot, fsyncDir, renameWal, openFresh, compactFails
  <2> QED BY <2>1, <2>2 DEF dbVars
<1>3. expired \subseteq expired'
  <2>1. CASE Writers
    BY <2>1 DEF Writers, issue, passGate, commit, commitSealed, expire, reap, flushStart,
       flushFrame, flushEnd, flushFails, syncTimer
  <2>2. CASE Compaction
    BY <2>2 DEF Compaction, compact, fence, snapshotKey, snapshotWritten, preCopy, seal, Rotation,
       drainAndClose, renameSnapshot, fsyncDir, renameWal, openFresh, compactFails
  <2> QED BY <2>1, <2>2 DEF dbVars
<1>4. CASE \E n \in Op : commit(n)
  <2>1. PICK n \in Op : commit(n)
    BY <1>4
  <2>2. n \in 1..Len(ops) /\ status[n] # "failed" /\ status' = [status EXCEPT ![n] = "pending"]
        /\ log' = Append(log, n) /\ ops' = ops
    BY <2>1 DEF commit, SetStatus, Op
  <2>3. Len(log) <= Len(log') /\ \A i \in 1..Len(log) : log'[i] = log[i]
    BY <1>00, <2>2, AppendFacts
  <2>4. \A m \in 1..Len(ops) : status[m] = "failed" => status'[m] = "failed"
    BY <1>00, <2>2
  <2> QED BY <1>1, <1>2, <1>3, <2>2, <2>3, <2>4
<1>5. ASSUME log' = log,
             \A n \in 1..Len(ops) : ops'[n] = ops[n] /\ (status[n] = "failed" => status'[n] = "failed")
      PROVE  /\ \A m \in 0..Len(log) : Later(Ctx, Ctx', m)
             /\ Len(log) <= Len(log') /\ \A i \in 1..Len(log) : log'[i] = log[i]
  <2>1. Len(log) <= Len(log') /\ \A i \in 1..Len(log) : log'[i] = log[i]
    BY <1>00, <1>5
  <2> QED BY <1>1, <1>2, <1>3, <1>5, <2>1
<1>6. CASE \E w \in Writes : issue(w)
  <2>1. PICK w \in Writes : issue(w)
    BY <1>6
  <2>2. log' = log /\ ops' = Append(ops, w) /\ status' = Append(status, "parked")
    BY <2>1 DEF issue
  <2>3. ops \in Seq(OpType) /\ w \in OpType
    BY <1>0, MiniDbAssumption DEF DbTypeOK, OpsType, OpType
  <2>4. \A n \in 1..Len(ops) : ops'[n] = ops[n] /\ status'[n] = status[n]
    BY <1>00, <2>2, <2>3
  <2> QED BY <1>5, <2>2, <2>4
<1>7. CASE \E n \in Op : passGate(n) \/ commitSealed(n) \/ expire(n)
  <2>1. PICK n \in Op : passGate(n) \/ commitSealed(n) \/ expire(n)
    BY <1>7
  <2>2. log' = log /\ ops' = ops
    BY <2>1 DEF passGate, commitSealed, expire
  <2>3. status' = status \/ (status[n] # "failed" /\ \E s : status' = [status EXCEPT ![n] = s])
    BY <2>1 DEF passGate, commitSealed, expire, SetStatus
  <2>4. \A m \in 1..Len(ops) : status[m] = "failed" => status'[m] = "failed"
    BY <1>00, <2>3
  <2> QED BY <1>5, <2>2, <2>4
<1>8. CASE flushEnd \/ flushFails
  <2>1. \E s : status' = StatusOf(inflight, s)
    BY <1>8 DEF flushEnd, flushFails
  <2>2. log' = log /\ ops' = ops
    BY <1>8 DEF flushEnd, flushFails
  <2>3. ASSUME NEW m \in 1..Len(ops), status[m] = "failed" PROVE status'[m] = "failed"
    <3>1. m \notin ToSet(inflight)
      <4>1. \A x : x \in ToSet(inflight) => \E i \in 1..Len(inflight) : inflight[i] = x
        BY <1>0, MemberFacts DEF DbTypeOK, WalType
      <4> SUFFICES ASSUME NEW i \in 1..Len(inflight), inflight[i] = m PROVE FALSE
        BY <4>1
      <4>2. Taken + i \in 1..Len(log) /\ log[Taken + i] = m
        BY BatchFrames
      <4>3. Taken + i > Taken
        BY Ranges
      <4> QED BY <1>0, <2>3, <4>2, <4>3 DEF QueueOK
    <3> QED BY <2>1, <2>3, <3>1 DEF StatusOf, Op
  <2> QED BY <1>5, <2>2, <2>3
<1>9. ASSUME UNCHANGED <<log, ops, status>>
      PROVE  /\ \A m \in 0..Len(log) : Later(Ctx, Ctx', m)
             /\ Len(log) <= Len(log') /\ \A i \in 1..Len(log) : log'[i] = log[i]
  BY <1>5, <1>9
<1>10. CASE (\E k \in Key : reap(k)) \/ flushStart \/ flushFrame \/ syncTimer
  BY <1>9, <1>10 DEF reap, flushStart, flushFrame, syncTimer
<1>11. CASE Compaction
  <2>1. UNCHANGED <<log, ops, status>>
    BY <1>11 DEF Compaction, compact, fence, snapshotKey, snapshotWritten, preCopy, seal, Rotation,
       drainAndClose, renameSnapshot, fsyncDir, renameWal, openFresh, compactFails
  <2> QED BY <1>9, <2>1
<1>12. CASE UNCHANGED dbVars
  BY <1>9, <1>12 DEF dbVars
<1> QED
  BY <1>4, <1>6, <1>7, <1>8, <1>10, <1>11, <1>12 DEF Writers

\* A kill cuts the log behind what has landed.
LEMMA LaterKill ==
  ASSUME Basic, kill
  PROVE  \A m \in 0..Landed : Later(Ctx, Ctx', m)
<1>0. Basic' /\ DbTypeOK /\ FramesOK /\ QueueOK
  BY BasicNext DEF DbNext, Basic
<1>1. Landed \in Nat /\ Landed <= Len(log) /\ Taken <= Landed /\ Taken \in Nat
  BY Ranges
<1>2. /\ log' = SubSeq(log, 1, Landed) /\ ops' = ops /\ UNCHANGED <<expired, base, failures>>
      /\ \A n \in 1..Len(ops) : status[n] = "failed" => status'[n] = "failed"
  BY DEF kill, reopen, Landed, Taken, Op
<1>3. Len(log') = Landed /\ \A i \in 1..Landed : log'[i] = log[i]
  BY <1>0, <1>1, <1>2 DEF DbTypeOK, GhostType
<1>4. \A i \in 1..Len(log) : i > Landed => status[log[i]] # "failed"
  <2>1. \A i \in 1..Len(log) : i > Landed => i > Taken
    BY <1>1
  <2> QED BY <1>0, <2>1 DEF QueueOK
<1> QED BY <1>0, <1>1, <1>2, <1>3, <1>4, ContextLater

-----------------------------------------------------------------------------
(***************************************************************************)
(* The store.                                                              *)
(***************************************************************************)
LEMMA CtxFields ==
  /\ Ctx.log = log /\ Ctx.ops = ops /\ Ctx.status = status /\ Ctx.expired = expired
  /\ Ctx.base = base /\ Ctx.failures = failures
  /\ Ctx'.log = log' /\ Ctx'.ops = ops' /\ Ctx'.status = status' /\ Ctx'.expired = expired'
  /\ Ctx'.base = base' /\ Ctx'.failures = failures'
<1> QED BY DEF Ctx

\* What a key shows is its record, or nothing.
LEMMA ViewShown ==
  ASSUME Basic, NEW st, NEW k \in Key
  PROVE  View(st)[k] = Shown(expired, st[k]) /\ Shown(expired, View(st)[k]) = Shown(expired, st[k])
<1>1. 0 \notin expired
  BY Ranges
<1> QED BY <1>1 DEF View, Shown

\* Nothing is asked of a value before the first operation.
LEMMA GoodStart ==
  ASSUME NEW c, c.log \in Seq(Nat), NEW v, NEW k, Shown(c.expired, v) = Shown(c.expired, c.base[k])
  PROVE  Good(c, v, k, 0)
<1>1. Kept(c.ops, c.base[k], c.log, 0, k) = c.base[k]
  BY KeptNone
<1> QED BY <1>1 DEF Good, Exact, Fits

\* restoreKey in a batch that failed: what it puts back is right.
LEMMA RestoredGood ==
  ASSUME DbInv, flushFails
  PROVE  /\ \A k \in Key : Good(Ctx', store'[k], k, Len(log))
         /\ own' \subseteq own /\ \A k \in own' : store'[k] = store[k]
<1> DEFINE N == Len(log)
           d == Ctx'
           st == [store |-> store, own |-> own]
           A == {m \in [store : State, own : SUBSET own] :
                   \A k \in Key : /\ k \in m.own => m.store[k] = store[k]
                                  /\ Good(d, m.store[k], k, N)}
<1>0. /\ Basic /\ StoreOK /\ PrevOK /\ OwnOK /\ DbTypeOK /\ FramesOK /\ QueueOK
  BY DEF DbInv, Basic
<1>1. \A m \in 0..N : Later(Ctx, d, m)
  BY <1>0, LaterNext DEF Writers
<1>2. /\ N \in Nat /\ inflight \in Seq(Nat) /\ own \subseteq Key /\ store \in State
      /\ Taken \in Nat /\ Len(inflight) \in Nat
  BY <1>0, Ranges DEF DbTypeOK, MemType, WalType
<1>3. /\ failures' # 0 /\ log' = log /\ ops' = ops
      /\ \A i \in 1..Len(inflight) : status'[inflight[i]] = "failed"
  <2>1. \A i \in 1..Len(inflight) : inflight[i] \in ToSet(inflight) /\ inflight[i] \in Op
    BY <1>0, <1>2, MemberFacts, BatchFrames DEF Op
  <2> QED BY <1>0, <2>1 DEF flushFails, StatusOf, DbTypeOK, GhostType
<1>4. st \in A
  <2>1. ASSUME NEW k \in Key PROVE Good(d, store[k], k, N)
    <3>1. Good(Ctx, store[k], k, N) /\ Later(Ctx, d, N)
      BY <1>0, <1>1, <1>2 DEF StoreOK
    <3> HIDE DEF d, N
    <3> QED BY <3>1, GoodLater
  <2> QED BY <1>2, <2>1
<1>5. ASSUME NEW m \in A, NEW p \in 1..Len(inflight)
      PROVE  RestoreKeys(m, inflight[p]) \in A
  <2> DEFINE n == inflight[p]
             q == Taken + p
             r == RestoreKeys(m, n)
             Back(k) == \/ ops[n][k] = "set" /\ m.store[k] = n /\ k \in m.own
                        \/ ops[n][k] = "del" /\ m.store[k] = 0
  <2>1. /\ q \in 1..N /\ n = log[q] /\ n \in 1..Len(ops) /\ q > Taken /\ status'[n] = "failed"
    BY <1>0, <1>2, <1>3, BatchFrames
  <2>2. /\ m.store \in State /\ m.own \subseteq own /\ prev[n] \in State
        /\ \A k \in Key : (k \in m.own => m.store[k] = store[k]) /\ Good(d, m.store[k], k, N)
    BY <1>0, <2>1 DEF DbTypeOK, OpsType
  <2>3. /\ r = [store |-> [k \in Key |-> IF Back(k) THEN prev[n][k] ELSE m.store[k]],
                own |-> {k \in m.own : ~Back(k)}]
    BY DEF RestoreKeys
  <2> HIDE DEF r
  <2>4. /\ r \in [store : State, own : SUBSET own]
        /\ \A k \in Key : r.store[k] = IF Back(k) THEN prev[n][k] ELSE m.store[k]
        /\ \A k : k \in r.own <=> k \in m.own /\ ~Back(k)
    BY <2>2, <2>3 DEF State
  <2>5. ASSUME NEW k \in Key, k \in r.own PROVE r.store[k] = store[k]
    BY <2>2, <2>4, <2>5
  <2>6. ASSUME NEW k \in Key, Back(k) PROVE Good(d, prev[n][k], k, N)
    <3> SUFFICES ASSUME Clean(d, k), NEW i \in 1..N, Wrote(d, i, k), ~Failed(d, i)
                 PROVE  From(d, prev[n][k], k, i, N)
      BY <1>3, CtxFields DEF Good, Fits
    <3>1. Failed(d, q) /\ d.ops[d.log[q]][k] = ops[n][k]
      BY <1>3, <2>1, CtxFields DEF Failed
    <3>2. q \in 1..Len(d.log)
      BY <1>3, <2>1, CtxFields
    <3>3. ops[n][k] # "del"
      BY <3>1, <3>2 DEF Clean
    <3>4. k \in own /\ store[k] = log[q]
      BY <2>1, <2>2, <2>6, <3>3
    <3>5. \A j \in 1..N : j > q => ~Wrote(Ctx, j, k)
      BY <1>0, <2>1, <3>4 DEF OwnOK
    <3>6. Wrote(Ctx, i, k)
      BY <1>3, CtxFields DEF Wrote
    <3>7. i \in 1..(q - 1) /\ q - 1 \in 0..N
      <4>1. i # q /\ ~(i > q)
        BY <3>1, <3>5, <3>6
      <4> QED BY <1>2, <2>1, <4>1
    <3>8. Good(Ctx, prev[n][k], k, q - 1) /\ Later(Ctx, d, q - 1)
      BY <1>0, <1>1, <2>1, <3>7 DEF PrevOK
    <3>9. Good(d, prev[n][k], k, q - 1)
      <4> DEFINE x == q - 1
      <4> HIDE DEF d, x
      <4>1. Good(Ctx, prev[n][k], k, x) /\ Later(Ctx, d, x)
        BY <3>8 DEF x
      <4>2. Good(d, prev[n][k], k, x)
        BY <4>1, GoodLater
      <4> QED BY <4>2 DEF x
    <3>10. From(d, prev[n][k], k, i, q - 1)
      BY <3>7, <3>9 DEF Good, Fits
    <3>11. \A j \in i..(q - 1) : j \in i..N
      BY <1>2, <2>1, <3>7
    <3> HIDE DEF d, N
    <3> QED BY <3>10, <3>11 DEF From
  <2>7. ASSUME NEW k \in Key PROVE Good(d, r.store[k], k, N)
    <3>1. CASE Back(k)
      BY <2>4, <2>6, <3>1
    <3>2. CASE ~Back(k)
      BY <2>2, <2>4, <3>2
    <3> QED BY <3>1, <3>2
  <2>8. r \in A
    BY <2>4, <2>5, <2>7
  <2> QED BY <2>8 DEF r
<1>6. FoldLeft(RestoreKeys, st, inflight) \in A
  <2> HIDE DEF A, st
  <2> QED BY <1>2, <1>4, <1>5, RestoreStays
<1>7. LET m == FoldLeft(RestoreKeys, st, inflight) IN store' = m.store /\ own' = m.own
  BY DEF flushFails
<1> QED BY <1>2, <1>6, <1>7

\* Every step leaves right values in the store.
LEMMA StoreNext ==
  ASSUME DbInv, [DbNext]_dbVars
  PROVE  StoreOK'
<1>0. Basic /\ StoreOK /\ DbTypeOK /\ FramesOK /\ DiskOK
  BY DEF DbInv, Basic
<1>00. Basic' /\ log \in Seq(Nat) /\ Len(log) \in Nat /\ log' \in Seq(Nat) /\ Len(log') \in Nat
  BY <1>0, BasicNext DEF Basic, DbTypeOK, GhostType
<1> USE DEF opVars, memVars, walVars, diskVars, ghostVars
<1>1. ASSUME Writers \/ Compaction \/ UNCHANGED dbVars, log' = log,
             \A k \in Key : Shown(expired, store'[k]) = Shown(expired, store[k])
      PROVE  StoreOK'
  <2> SUFFICES ASSUME NEW k \in Key PROVE Good(Ctx', store'[k], k, Len(log))
    BY <1>1 DEF StoreOK
  <2>1. Later(Ctx, Ctx', Len(log))
    BY <1>0, <1>00, <1>1, LaterNext
  <2>2. Good(Ctx, store'[k], k, Len(log))
    <3>1. Good(Ctx, store[k], k, Len(log)) /\ Shown(Ctx.expired, store'[k]) = Shown(Ctx.expired, store[k])
      BY <1>0, <1>1, CtxFields DEF StoreOK
    <3> QED BY <3>1, GoodShown
  <2> QED BY <2>1, <2>2, GoodLater
<1>2. ASSUME NEW n \in Op, commit(n)
      PROVE  StoreOK'
  <2>1. /\ log' = Append(log, n) /\ store' = Applied(store, n) /\ ops' = ops
        /\ n \in 1..Len(ops) /\ n \in Nat
    BY <1>0, <1>2 DEF commit, Op, DbTypeOK, OpsType
  <2>2. Len(log') = Len(log) + 1 /\ log'[Len(log) + 1] = n
    BY <1>00, <2>1, AppendFacts
  <2>3. ops[n] \in OpType
    BY <1>0, <2>1 DEF DbTypeOK, OpsType
  <2>4. Later(Ctx, Ctx', Len(log))
    BY <1>0, <1>00, <1>2, LaterNext DEF Writers
  <2> SUFFICES ASSUME NEW k \in Key PROVE Good(Ctx', store'[k], k, Len(log) + 1)
    BY <2>2 DEF StoreOK
  <2>5. Good(Ctx', store[k], k, Len(log))
    <3>1. Good(Ctx, store[k], k, Len(log))
      BY <1>0 DEF StoreOK
    <3> QED BY <2>4, <3>1, GoodLater
  <2>6. store'[k] = IF ops[n][k] # "keep" THEN Put(ops, n, k) ELSE store[k]
    BY <2>1, <2>3 DEF Applied, Put, OpType
  <2> DEFINE c == Ctx'
             m == Len(log)
  <2>7. /\ c.log \in Seq(Nat) /\ m \in Nat /\ m + 1 <= Len(c.log) /\ c.log[m + 1] = n /\ n # 0
        /\ c.ops = ops
        /\ Wrote(c, m + 1, k) <=> ops[n][k] # "keep"
    BY <1>00, <2>1, <2>2, CtxFields DEF Wrote
  <2> HIDE DEF c, m
  <2>8. /\ Wrote(c, m + 1, k) => Good(c, Put(c.ops, c.log[m + 1], k), k, m + 1)
        /\ ~Wrote(c, m + 1, k) /\ Good(c, store[k], k, m) => Good(c, store[k], k, m + 1)
    BY <2>7, GoodNext
  <2>9. Good(c, store'[k], k, m + 1)
    BY <2>5, <2>6, <2>7, <2>8 DEF c, m
  <2> QED BY <2>9 DEF c, m
<1>3. CASE flushFails
  <2>1. \A k \in Key : Good(Ctx', store'[k], k, Len(log))
    BY <1>3, RestoredGood
  <2> QED BY <1>3, <2>1 DEF StoreOK, flushFails
<1>4. CASE kill
  <2>1. log' = SubSeq(log, 1, Landed) /\ store' = recover(snapshot, file) /\ expired' = expired
    BY <1>4 DEF kill, reopen, Landed, Taken, AfterKill
  <2>2. Landed \in Nat /\ Landed <= Len(log)
    BY <1>0, Ranges
  <2>3. Len(log') = Landed
    BY <1>00, <2>1, <2>2
  <2> SUFFICES ASSUME NEW k \in Key PROVE Good(Ctx', store'[k], k, Landed)
    BY <2>3 DEF StoreOK
  <2>4. store'[k] = Shown(expired, OnDisk(snapshot, file, Len(file), k))
    BY <1>0, <2>1, RecoverType DEF DbTypeOK, DiskType, FramesOK, OnDisk
  <2>5. Shown(expired, store'[k]) = Shown(expired, OnDisk(snapshot, file, Len(file), k))
    BY <1>0, <2>4, Ranges DEF Shown
  <2>6. Good(Ctx, store'[k], k, Landed)
    <3>1. Good(Ctx, OnDisk(snapshot, file, Len(file), k), k, Landed)
      BY <1>0 DEF DiskOK
    <3> QED BY <2>5, <3>1, GoodShown, CtxFields
  <2>7. Later(Ctx, Ctx', Landed)
    BY <1>0, <1>4, <2>2, LaterKill
  <2> QED BY <2>6, <2>7, GoodLater
<1>5. CASE powerLoss
  <2>1. base' = store' /\ log' = << >>
    BY <1>5 DEF powerLoss
  <2>2. ASSUME NEW k \in Key PROVE Good(Ctx', store'[k], k, 0)
    <3>1. Ctx'.log \in Seq(Nat) /\ Ctx'.base[k] = store'[k]
      BY <2>1, CtxFields
    <3>2. Shown(Ctx'.expired, store'[k]) = Shown(Ctx'.expired, Ctx'.base[k])
      BY <3>1
    <3> QED BY <3>1, <3>2, GoodStart
  <2>3. Len(log') = 0
    BY <2>1
  <2> QED BY <2>2, <2>3 DEF StoreOK
<1>6. CASE \E w \in Writes : issue(w)
  BY <1>1, <1>6 DEF issue, Writers
<1>7. CASE \E n \in Op : passGate(n) \/ expire(n)
  BY <1>1, <1>7 DEF passGate, expire, Writers
<1>8. CASE \E n \in Op : commitSealed(n)
  <2>1. PICK n \in Op : commitSealed(n)
    BY <1>8
  <2>2. \A k \in Key : store'[k] = store[k] \/ store'[k] = View(store)[k]
    BY <2>1 DEF commitSealed
  <2>3. \A k \in Key : Shown(expired, store'[k]) = Shown(expired, store[k])
    BY <1>0, <2>2, ViewShown
  <2>4. log' = log /\ Writers
    BY <2>1 DEF commitSealed, Writers
  <2> QED BY <1>1, <2>3, <2>4
<1>9. CASE \E k \in Key : reap(k)
  <2>1. PICK k \in Key : reap(k)
    BY <1>9
  <2>2. \A j \in Key : store'[j] = IF j = k THEN 0 ELSE store[j]
    BY <1>0, <2>1 DEF reap, DbTypeOK, MemType, State
  <2>3. store[k] \in expired /\ log' = log /\ Writers
    BY <2>1 DEF reap, Writers
  <2>4. \A j \in Key : Shown(expired, store'[j]) = Shown(expired, store[j])
    BY <1>0, <2>2, <2>3, Ranges DEF Shown
  <2> QED BY <1>1, <2>3, <2>4
<1>10. CASE flushStart \/ flushFrame \/ flushEnd \/ syncTimer
  BY <1>1, <1>10 DEF flushStart, flushFrame, flushEnd, syncTimer, Writers
<1>11. CASE Compaction
  <2>1. log' = log /\ store' = store
    BY <1>11 DEF Compaction, compact, fence, snapshotKey, snapshotWritten, preCopy, seal, Rotation,
       drainAndClose, renameSnapshot, fsyncDir, renameWal, openFresh, compactFails
  <2> QED BY <1>1, <1>11, <2>1
<1>12. CASE UNCHANGED dbVars
  <2>1. log' = log /\ store' = store
    BY <1>12 DEF dbVars
  <2> QED BY <1>1, <1>12, <2>1
<1> QED
  BY <1>2, <1>3, <1>4, <1>5, <1>6, <1>7, <1>8, <1>9, <1>10, <1>11, <1>12 DEF DbNext, Writers

\* Every step leaves right values to roll back to.
LEMMA PrevNext ==
  ASSUME DbInv, [DbNext]_dbVars
  PROVE  PrevOK'
<1>0. Basic /\ StoreOK /\ PrevOK /\ DbTypeOK /\ FramesOK /\ QueueOK
  BY DEF DbInv, Basic
<1>00. /\ Basic' /\ log \in Seq(Nat) /\ Len(log) \in Nat /\ prev \in Seq(State) /\ Len(prev) = Len(ops)
       /\ Len(ops) \in Nat /\ \A i \in 1..Len(log) : log[i] \in 1..Len(ops)
  BY <1>0, BasicNext DEF Basic, DbTypeOK, GhostType, OpsType, FramesOK
<1>000. Taken \in Nat /\ Taken' \in Int /\ Len(inflight) \in Nat
  <2>1. Taken' \in Nat
    BY <1>00, Ranges DEF Basic, DbTypeOK, WalType, GhostType, QueueOK, Taken
  <2> QED BY <1>0, <2>1, Ranges
<1> USE DEF opVars, memVars, walVars, diskVars, ghostVars
<1>1. ASSUME Writers \/ Compaction \/ UNCHANGED dbVars,
             NEW i \in 1..Len(log), i > Taken, prev'[log[i]] = prev[log[i]], NEW k \in Key
      PROVE  Good(Ctx', prev'[log[i]][k], k, i - 1)
  <2>1. Good(Ctx, prev[log[i]][k], k, i - 1)
    BY <1>0, <1>1 DEF PrevOK
  <2>2. Later(Ctx, Ctx', i - 1)
    <3>1. i - 1 \in 0..Len(log)
      BY <1>00
    <3> QED BY <1>0, <1>1, <3>1, LaterNext
  <2> DEFINE x == i - 1
  <2>3. Good(Ctx', prev[log[i]][k], k, x)
    <3>1. Good(Ctx, prev[log[i]][k], k, x) /\ Later(Ctx, Ctx', x)
      BY <2>1, <2>2
    <3> HIDE DEF x
    <3> QED BY <3>1, GoodLater
  <2> QED BY <1>1, <2>3
<1>2. ASSUME Writers \/ Compaction \/ UNCHANGED dbVars, log' = log, Taken' >= Taken,
             \A n \in 1..Len(ops) : prev'[n] = prev[n]
      PROVE  PrevOK'
  <2> SUFFICES ASSUME NEW i \in 1..Len(log), i > Taken', NEW k \in Key
               PROVE  Good(Ctx', prev'[log[i]][k], k, i - 1)
    BY <1>2 DEF PrevOK
  <2>1. i > Taken
    BY <1>000, <1>2
  <2>2. prev'[log[i]] = prev[log[i]]
    BY <1>00, <1>2
  <2> QED BY <1>1, <1>2, <2>1, <2>2
<1>3. ASSUME NEW n \in Op, commit(n)
      PROVE  PrevOK'
  <2>1. /\ log' = Append(log, n) /\ queue' = Append(queue, n) /\ inflight' = inflight
        /\ prev' = [prev EXCEPT ![n] = View(store)]
        /\ n \in 1..Len(ops) /\ n \in Nat /\ status[n] \in {"gated", "retry"}
    BY <1>00, <1>3 DEF commit, Op
  <2>2. /\ Len(log') = Len(log) + 1 /\ log'[Len(log) + 1] = n
        /\ \A i \in 1..Len(log) : log'[i] = log[i]
    BY <1>00, <2>1, AppendFacts
  <2>3. Taken' = Taken
    <3>1. Len(queue') = Len(queue) + 1 /\ Len(queue) \in Nat
      BY <1>0, <2>1 DEF DbTypeOK, WalType
    <3> QED BY <1>00, <1>000, <2>1, <2>2, <3>1 DEF Taken
  <2>4. \A i \in 1..Len(log) : log[i] # n /\ prev'[log[i]] = prev[log[i]]
    <3>1. \A i \in 1..Len(log) : log[i] # n
      BY <1>0, <2>1 DEF QueueOK
    <3> QED BY <1>00, <2>1, <3>1
  <2> SUFFICES ASSUME NEW i \in 1..Len(log'), i > Taken, NEW k \in Key
               PROVE  Good(Ctx', prev'[log'[i]][k], k, i - 1)
    BY <2>3 DEF PrevOK
  <2>5. CASE i \in 1..Len(log)
    BY <1>1, <1>3, <2>2, <2>4, <2>5 DEF Writers
  <2>6. CASE i = Len(log) + 1
    <3>1. prev'[n] = View(store)
      BY <1>00, <2>1
    <3>2. Good(Ctx, store[k], k, Len(log))
      BY <1>0 DEF StoreOK
    <3>3. Good(Ctx, View(store)[k], k, Len(log))
      BY <1>0, <3>2, ViewShown, GoodShown, CtxFields
    <3>4. Later(Ctx, Ctx', Len(log))
      BY <1>0, <1>00, <1>3, LaterNext DEF Writers
    <3>5. Good(Ctx', View(store)[k], k, Len(log))
      BY <3>3, <3>4, GoodLater
    <3>6. i - 1 = Len(log)
      BY <1>00, <2>6
    <3> QED BY <2>2, <2>6, <3>1, <3>5, <3>6
  <2> QED BY <1>00, <2>2, <2>5, <2>6
<1>4. ASSUME Taken' = Len(log') PROVE PrevOK'
  <2>1. \A i \in 1..Len(log') : ~(i > Taken')
    BY <1>000, <1>4
  <2> QED BY <2>1 DEF PrevOK
<1>5. CASE kill \/ powerLoss
  <2>1. queue' = << >> /\ inflight' = << >>
    BY <1>5 DEF kill, powerLoss, reopen
  <2>2. Len(log') \in Nat
    BY <1>00 DEF Basic, DbTypeOK, GhostType
  <2>3. Taken' = Len(log')
    BY <2>1, <2>2 DEF Taken
  <2> QED BY <1>4, <2>3
<1>6. CASE \E w \in Writes : issue(w)
  <2>1. PICK w \in Writes : issue(w)
    BY <1>6
  <2>2. log' = log /\ Taken' = Taken /\ prev' = Append(prev, Empty) /\ Writers
    BY <2>1 DEF issue, Taken, Writers
  <2>3. \A n \in 1..Len(ops) : prev'[n] = prev[n]
    BY <1>00, <2>2, EmptyTypes
  <2>4. Taken' >= Taken
    BY <1>000, <2>2
  <2> QED BY <1>2, <2>2, <2>3, <2>4
<1>7. ASSUME Writers \/ Compaction \/ UNCHANGED dbVars, UNCHANGED <<log, prev, queue, inflight>>
      PROVE  PrevOK'
  <2>1. Taken' = Taken
    BY <1>7 DEF Taken
  <2> QED BY <1>000, <1>2, <1>7, <2>1
<1>8. CASE \E n \in Op : passGate(n) \/ commitSealed(n) \/ expire(n)
  BY <1>7, <1>8 DEF passGate, commitSealed, expire, Writers
<1>9. CASE (\E k \in Key : reap(k)) \/ flushFrame \/ syncTimer
  BY <1>7, <1>9 DEF reap, flushFrame, syncTimer, Writers
<1>10. CASE flushStart \/ flushEnd \/ flushFails
  <2>1. log' = log /\ prev' = prev /\ Writers
    BY <1>10 DEF flushStart, flushEnd, flushFails, Writers
  <2>2. \/ queue' = << >> /\ inflight' = queue /\ inflight = << >>
        \/ queue' = queue /\ inflight' = << >>
    BY <1>10 DEF flushStart, flushEnd, flushFails
  <2>3. Taken' >= Taken
    <3>1. Len(queue) \in Nat /\ Len(<< >>) = 0
      BY <1>0 DEF DbTypeOK, WalType
    <3> QED BY <1>00, <1>000, <2>1, <2>2, <3>1 DEF Taken
  <2> QED BY <1>2, <2>1, <2>3
<1>11. CASE Compaction
  <2>1. UNCHANGED <<log, prev, queue, inflight>>
    BY <1>11 DEF Compaction, compact, fence, snapshotKey, snapshotWritten, preCopy, seal, Rotation,
       drainAndClose, renameSnapshot, fsyncDir, renameWal, openFresh, compactFails
  <2> QED BY <1>7, <1>11, <2>1
<1>12. CASE UNCHANGED dbVars
  BY <1>7, <1>12 DEF dbVars
<1> QED
  BY <1>3, <1>5, <1>6, <1>8, <1>9, <1>10, <1>11, <1>12 DEF DbNext, Writers

\* A record that is its operation's own has no later write of its key.
LEMMA OwnNext ==
  ASSUME DbInv, [DbNext]_dbVars
  PROVE  OwnOK'
<1>0. Basic /\ OwnOK /\ DbTypeOK /\ FramesOK
  BY DEF DbInv, Basic
<1>00. /\ log \in Seq(Nat) /\ Len(log) \in Nat /\ own \subseteq Key /\ store \in State
       /\ Len(ops) \in Nat /\ \A i \in 1..Len(log) : log[i] \in 1..Len(ops)
  BY <1>0 DEF DbTypeOK, GhostType, MemType, OpsType, FramesOK
<1> USE DEF opVars, memVars, walVars, diskVars, ghostVars
<1>1. ASSUME log' = log, own' \subseteq own, \A n \in 1..Len(ops) : ops'[n] = ops[n],
             \A k \in own' : store'[k] = store[k] \/ store'[k] = 0
      PROVE  OwnOK'
  <2> SUFFICES ASSUME NEW k \in own', NEW i \in 1..Len(log), store'[k] = log[i],
                      NEW j \in 1..Len(log), j > i
               PROVE  ops[log[j]][k] = "keep"
    BY <1>00, <1>1, CtxFields DEF OwnOK, Wrote
  <2>1. store[k] = log[i] /\ k \in own
    BY <1>00, <1>1
  <2> QED BY <1>0, <2>1, CtxFields DEF OwnOK, Wrote
<1>2. ASSUME NEW n \in Op, commit(n)
      PROVE  OwnOK'
  <2>1. /\ log' = Append(log, n) /\ store' = Applied(store, n) /\ ops' = ops
        /\ own' = {k \in Key : IF ops[n][k] = "keep" THEN k \in own ELSE ops[n][k] = "set"}
        /\ n \in 1..Len(ops) /\ n \in Nat /\ status[n] \in {"gated", "retry"}
    BY <1>00, <1>2 DEF commit, Op
  <2>2. /\ Len(log') = Len(log) + 1 /\ log'[Len(log) + 1] = n
        /\ \A i \in 1..Len(log) : log'[i] = log[i]
        /\ \A i \in 1..Len(log') : i \in 1..Len(log) \/ i = Len(log) + 1
    BY <1>00, <2>1, AppendFacts
  <2>3. \A i \in 1..Len(log) : log[i] # n
    BY <1>0, <2>1 DEF Basic, QueueOK
  <2> SUFFICES ASSUME NEW k \in own', NEW i \in 1..Len(log'), store'[k] = log'[i],
                      NEW j \in 1..Len(log'), j > i
               PROVE  ops[log'[j]][k] = "keep"
    BY <2>1, CtxFields DEF OwnOK, Wrote
  <2>4. k \in Key
    BY <2>1
  <2>5. CASE ops[n][k] = "keep"
    <3>1. k \in own /\ store'[k] = store[k]
      BY <2>1, <2>4, <2>5 DEF Applied
    <3>2. CASE i \in 1..Len(log) /\ j \in 1..Len(log)
      <4>1. store[k] = log[i] /\ log'[j] = log[j]
        BY <2>2, <3>1, <3>2
      <4>2. ~Wrote(Ctx, j, k)
        BY <1>0, <3>1, <3>2, <4>1 DEF OwnOK
      <4> QED BY <4>1, <4>2, CtxFields DEF Wrote
    <3>3. CASE j = Len(log) + 1
      BY <2>2, <2>5, <3>3
    <3>4. ~(i = Len(log) + 1 /\ j \in 1..Len(log))
      BY <1>00
    <3> QED BY <2>2, <3>2, <3>3, <3>4
  <2>6. CASE ops[n][k] # "keep"
    <3>1. store'[k] = n
      BY <2>1, <2>4, <2>6 DEF Applied
    <3>2. i = Len(log) + 1
      BY <2>2, <2>3, <3>1
    <3> QED BY <1>00, <2>2, <3>2
  <2> QED BY <2>5, <2>6
<1>3. CASE flushFails
  BY <1>1, <1>3, RestoredGood DEF flushFails
<1>4. CASE kill \/ powerLoss
  <2>1. own' = {}
    BY <1>4 DEF kill, powerLoss, reopen
  <2> QED BY <2>1 DEF OwnOK
<1>5. CASE \E w \in Writes : issue(w)
  <2>1. PICK w \in Writes : issue(w)
    BY <1>5
  <2>2. ops' = Append(ops, w) /\ UNCHANGED <<log, own, store>>
    BY <2>1 DEF issue
  <2>3. \A n \in 1..Len(ops) : ops'[n] = ops[n]
    BY <1>0, <2>2, MiniDbAssumption DEF DbTypeOK, OpsType, OpType
  <2> QED BY <1>1, <2>2, <2>3
<1>6. CASE \E n \in Op : passGate(n) \/ expire(n)
  BY <1>1, <1>6 DEF passGate, expire
<1>7. CASE \E n \in Op : commitSealed(n)
  <2>1. PICK n \in Op : commitSealed(n)
    BY <1>7
  <2>2. /\ own' = {k \in own : ops[n][k] = "keep"} /\ UNCHANGED <<log, ops>>
        /\ \A k \in Key : ops[n][k] = "keep" => store'[k] = store[k]
    BY <2>1 DEF commitSealed
  <2> QED BY <1>00, <1>1, <2>2
<1>8. CASE \E k \in Key : reap(k)
  <2>1. PICK k \in Key : reap(k)
    BY <1>8
  <2>2. \A j \in Key : store'[j] = IF j = k THEN 0 ELSE store[j]
    BY <1>00, <2>1 DEF reap, State
  <2>3. UNCHANGED <<log, ops, own>>
    BY <2>1 DEF reap
  <2> QED BY <1>00, <1>1, <2>2, <2>3
<1>9. CASE flushStart \/ flushFrame \/ flushEnd \/ syncTimer
  BY <1>1, <1>9 DEF flushStart, flushFrame, flushEnd, syncTimer
<1>10. CASE Compaction
  <2>1. UNCHANGED <<log, ops, own, store>>
    BY <1>10 DEF Compaction, compact, fence, snapshotKey, snapshotWritten, preCopy, seal, Rotation,
       drainAndClose, renameSnapshot, fsyncDir, renameWal, openFresh, compactFails
  <2> QED BY <1>1, <2>1
<1>11. CASE UNCHANGED dbVars
  BY <1>1, <1>11 DEF dbVars
<1> QED
  BY <1>2, <1>3, <1>4, <1>5, <1>6, <1>7, <1>8, <1>9, <1>10, <1>11 DEF DbNext, Writers

-----------------------------------------------------------------------------
(***************************************************************************)
(* The files.                                                              *)
(***************************************************************************)
LEMMA RangesNext ==
  ASSUME Basic'
  PROVE  /\ Taken' \in Nat /\ Landed' \in Nat
         /\ Taken' <= Landed' /\ Landed' <= Len(log')
         /\ 0 \notin expired'
         /\ log' \in Seq(Nat) /\ file' \in Seq(Nat)
         /\ Len(log') \in Nat /\ Len(file') \in Nat /\ synced' \in 0..Len(file')
         /\ \A i \in 1..Len(log') : i > Taken' => status'[log'[i]] = "pending"
<1> QED BY DEF Basic, DbTypeOK, OpsType, WalType, DiskType, GhostType, QueueOK, Taken, Landed

\* A frame more, a frame less, and a torn frame.
LEMMA KeptAppend ==
  ASSUME NEW o, NEW v, NEW w \in Seq(Nat), NEW x \in Nat, NEW n \in 0..Len(w), NEW k
  PROVE  Kept(o, v, Append(w, x), n, k) = Kept(o, v, w, n, k)
<1> DEFINE u == Append(w, x)
<1>1. u \in Seq(Nat) /\ n <= Len(u) /\ \A i \in 1..n : u[i] = w[i]
  BY AppendFacts
<1> HIDE DEF u
<1>2. Kept(o, v, u, n, k) = Kept(o, v, w, n, k)
  BY <1>1, KeptSame
<1> QED BY <1>2 DEF u

\* One more frame.
LEMMA KeptLast ==
  ASSUME NEW o, NEW v, NEW w \in Seq(Nat), NEW x \in Nat, NEW k
  PROVE  Kept(o, v, Append(w, x), Len(w) + 1, k) =
           IF Touches(o, x, k) THEN Put(o, x, k) ELSE Kept(o, v, w, Len(w), k)
<1> DEFINE u == Append(w, x)
           n == Len(w)
<1>1. u \in Seq(Nat) /\ n \in Nat /\ n + 1 <= Len(u) /\ u[n + 1] = x
  BY AppendFacts
<1>2. Kept(o, v, u, n, k) = Kept(o, v, w, n, k)
  BY KeptAppend
<1> HIDE DEF u, n
<1>3. Kept(o, v, u, n + 1, k) =
        IF Touches(o, u[n + 1], k) THEN Put(o, u[n + 1], k) ELSE Kept(o, v, u, n, k)
  BY <1>1, KeptNext
<1>4. Kept(o, v, u, n + 1, k) =
        IF Touches(o, x, k) THEN Put(o, x, k) ELSE Kept(o, v, w, n, k)
  BY <1>1, <1>2, <1>3
<1> QED BY <1>4 DEF u, n

\* Cutting a torn frame off changes nothing.
LEMMA KeptTruncated ==
  ASSUME NEW o, NEW v, NEW w \in Seq(Nat), NEW k
  PROVE  Kept(o, v, Truncated(w), Len(Truncated(w)), k) = Kept(o, v, w, Len(w), k)
<1> DEFINE u == Truncated(w)
           n == Len(u)
<1>1. /\ u \in Seq(Nat) /\ n \in 0..Len(w) /\ n <= Len(u) /\ Len(w) \in Nat
      /\ \A i \in 1..n : u[i] = w[i]
      /\ \A i \in 1..Len(w) : i > n => w[i] = Torn /\ i = Len(w)
  BY TruncatedFacts
<1> HIDE DEF u
<1>2. Kept(o, v, u, n, k) = Kept(o, v, w, n, k)
  <2> HIDE DEF n
  <2> QED BY <1>1, KeptSame
<1>3. CASE n = Len(w)
  BY <1>2, <1>3 DEF u
<1>4. CASE n < Len(w)
  <2>1. n \in Nat /\ n + 1 = Len(w) /\ w[n + 1] = Torn
    <3>1. n + 1 \in 1..Len(w) /\ n + 1 > n
      BY <1>1, <1>4
    <3> QED BY <1>1, <3>1
  <2>2. Kept(o, v, w, n + 1, k) =
          IF Touches(o, w[n + 1], k) THEN Put(o, w[n + 1], k) ELSE Kept(o, v, w, n, k)
    <3>1. n + 1 <= Len(w)
      BY <1>1, <2>1
    <3> HIDE DEF n
    <3> QED BY <2>1, <3>1, KeptNext
  <2>3. ~Touches(o, w[n + 1], k)
    BY <2>1 DEF Touches
  <2> QED BY <1>2, <2>1, <2>2, <2>3 DEF u
<1> QED BY <1>1, <1>3, <1>4

\* Replaying a file that was cut is replaying its first frames.
LEMMA KeptPrefix ==
  ASSUME NEW o, NEW v, NEW w \in Seq(Nat), NEW n \in 0..Len(w), NEW k
  PROVE  Kept(o, v, SubSeq(w, 1, n), Len(SubSeq(w, 1, n)), k) = Kept(o, v, w, n, k)
<1> DEFINE u == SubSeq(w, 1, n)
<1>1. u \in Seq(Nat) /\ Len(u) = n /\ n <= Len(u) /\ \A i \in 1..n : u[i] = w[i]
  OBVIOUS
<1> HIDE DEF u
<1>2. Kept(o, v, u, n, k) = Kept(o, v, w, n, k)
  BY <1>1, KeptSame
<1> QED BY <1>1, <1>2 DEF u

\* New operations change nothing for old frames.
LEMMA KeptOps ==
  ASSUME NEW o, NEW p, NEW m \in Nat, \A i \in 1..m : p[i] = o[i],
         NEW v, NEW w \in Seq(Nat), \A i \in 1..Len(w) : w[i] \in 0..m, NEW n \in 0..Len(w), NEW k
  PROVE  Kept(p, v, w, n, k) = Kept(o, v, w, n, k)
<1>1. \A i \in 1..n : w[i] = w[i] /\ (w[i] # 0 => p[w[i]][k] = o[w[i]][k])
  OBVIOUS
<1>2. n <= Len(w)
  OBVIOUS
<1> QED BY <1>1, <1>2, KeptSame

\* What an operation writes does not change.
LEMMA OldOps ==
  ASSUME Basic, [DbNext]_dbVars
  PROVE  \A n \in 1..Len(ops) : ops'[n] = ops[n]
<1> USE DEF opVars, memVars, walVars, diskVars, ghostVars
<1>1. CASE \E w \in Writes : issue(w)
  BY <1>1, MiniDbAssumption DEF issue, Basic, DbTypeOK, OpsType, OpType
<1>2. CASE Writers /\ ~\E w \in Writes : issue(w)
  BY <1>2 DEF Writers, passGate, commit, commitSealed, expire, reap, flushStart,
     flushFrame, flushEnd, flushFails, syncTimer
<1>3. CASE Compaction
  BY <1>3 DEF Compaction, compact, fence, snapshotKey, snapshotWritten, preCopy, seal, Rotation,
     drainAndClose, renameSnapshot, fsyncDir, renameWal, openFresh, compactFails
<1>4. CASE kill \/ powerLoss
  BY <1>4 DEF kill, powerLoss, reopen
<1> QED BY <1>1, <1>2, <1>3, <1>4 DEF DbNext, dbVars

\* Whatever pair of files was right stays so when the log goes on.
LEMMA FilesLater ==
  ASSUME Basic, [Writers \/ Compaction]_dbVars, NEW s, NEW w \in Seq(Nat),
         \A i \in 1..Len(w) : w[i] \in 0..Len(ops), NEW n \in 0..Len(w), NEW m \in 0..Len(log),
         NEW k \in Key
  PROVE  /\ Kept(ops', s[k], w, n, k) = Kept(ops, s[k], w, n, k)
         /\ Good(Ctx, Kept(ops, s[k], w, n, k), k, m) => Good(Ctx', Kept(ops', s[k], w, n, k), k, m)
<1>1. Len(ops) \in Nat /\ \A i \in 1..Len(ops) : ops'[i] = ops[i]
  BY OldOps DEF DbNext, Basic, DbTypeOK, OpsType
<1>2. Kept(ops', s[k], w, n, k) = Kept(ops, s[k], w, n, k)
  <2> DEFINE o == ops
             p == ops'
             v == s[k]
             l == Len(ops)
  <2>1. l \in Nat /\ (\A i \in 1..l : p[i] = o[i]) /\ \A i \in 1..Len(w) : w[i] \in 0..l
    BY <1>1
  <2>2. n <= Len(w) /\ n \in Nat
    OBVIOUS
  <2> HIDE DEF o, p, v, l
  <2>3. \A i \in 1..n : w[i] = w[i] /\ (w[i] # 0 => p[w[i]][k] = o[w[i]][k])
    BY <2>1, <2>2, SMTT(30)
  <2>4. Kept(p, v, w, n, k) = Kept(o, v, w, n, k)
    BY <2>2, <2>3, KeptSame
  <2> QED BY <2>4 DEF o, p, v
<1>3. Later(Ctx, Ctx', m)
  BY LaterNext
<1> QED BY <1>2, <1>3, GoodLater

\* Most steps leave the files alone, and what has landed of the log.
Quiet == ~flushFrame /\ ~flushFails /\ ~renameSnapshot /\ ~renameWal

\* What a step does to the files and to how much of the log has landed.
LEMMA LandedNext ==
  ASSUME Basic, [Writers \/ Compaction]_dbVars
  PROVE  /\ ~flushFrame /\ ~flushFails => Landed' = Landed
         /\ flushFrame => Landed' = Landed + 1
         /\ flushFails => Landed' = Taken + Len(inflight)
         /\ Quiet => file' = file /\ snapshot' = snapshot
<1>0. /\ log \in Seq(Nat) /\ queue \in Seq(Nat) /\ inflight \in Seq(Nat) /\ landed \in 0..Len(inflight)
      /\ Len(log) \in Nat /\ Len(queue) \in Nat /\ Len(inflight) \in Nat /\ Len(ops) \in Nat
  BY DEF Basic, DbTypeOK, WalType, GhostType, OpsType
<1> USE DEF opVars, memVars, walVars, diskVars, ghostVars
<1>1. ASSUME NEW n \in Op, commit(n) PROVE Landed' = Landed
  <2>1. log' = Append(log, n) /\ queue' = Append(queue, n) /\ UNCHANGED <<inflight, landed>> /\ n \in Nat
    BY <1>0, <1>1 DEF commit, Op
  <2>2. Len(log') = Len(log) + 1 /\ Len(queue') = Len(queue) + 1
    BY <1>0, <2>1
  <2> QED BY <1>0, <2>1, <2>2 DEF Landed, Taken
<1>2. CASE flushStart
  <2>1. /\ Len(inflight) = 0 /\ Len(queue') = 0 /\ Len(inflight') = Len(queue)
        /\ UNCHANGED <<log, landed>>
    BY <1>2 DEF flushStart
  <2>2. landed = 0
    BY <1>0, <2>1
  <2> QED BY <1>0, <1>2, <2>1, <2>2 DEF Landed, Taken, flushStart, flushFrame, flushFails, Quiet
<1>3. CASE flushFrame
  <2>1. landed' = landed + 1 /\ UNCHANGED <<log, queue, inflight>>
    BY <1>3 DEF flushFrame
  <2>2. ~flushFails
    BY <1>0, <2>1, <1>3 DEF flushFails, flushFrame
  <2> QED BY <1>0, <1>3, <2>1, <2>2 DEF Landed, Taken, Quiet
<1>4. CASE flushEnd
  <2>1. landed = Len(inflight) /\ Len(inflight') = 0 /\ landed' = 0 /\ UNCHANGED <<log, queue>>
    BY <1>4 DEF flushEnd
  <2>2. ~flushFrame /\ Landed' = Landed /\ Landed = Taken + Len(inflight)
    BY <1>0, <2>1 DEF Landed, Taken, flushFrame
  <2> QED BY <1>4, <2>2 DEF Quiet, flushEnd
<1>5. CASE flushFails
  <2>1. Len(inflight') = 0 /\ landed' = 0 /\ UNCHANGED <<log, queue>>
    BY <1>5 DEF flushFails
  <2>2. Landed' = Taken + Len(inflight)
    BY <1>0, <2>1 DEF Landed, Taken
  <2>3. ~flushFrame
    BY <1>0, <2>1 DEF flushFrame
  <2> QED BY <1>5, <2>2, <2>3 DEF Quiet
<1>6. ASSUME UNCHANGED <<log, queue, inflight, landed>> PROVE Landed' = Landed /\ ~flushFrame /\ ~flushFails
  <2>1. ~flushFrame
    BY <1>0, <1>6 DEF flushFrame
  <2>2. ~flushFails
    BY <1>0, <1>6 DEF flushFails
  <2> QED BY <1>6, <2>1, <2>2 DEF Landed, Taken
<1>7. CASE \/ \E w \in Writes : issue(w)
           \/ \E n \in Op : passGate(n) \/ commitSealed(n) \/ expire(n)
           \/ \E k \in Key : reap(k)
           \/ syncTimer
  BY <1>6, <1>7 DEF issue, passGate, commitSealed, expire, reap, syncTimer
<1>8. CASE Compaction
  <2>1. UNCHANGED <<log, queue, inflight, landed>>
    BY <1>8 DEF Compaction, compact, fence, snapshotKey, snapshotWritten, preCopy, seal, Rotation,
       drainAndClose, renameSnapshot, fsyncDir, renameWal, openFresh, compactFails
  <2>2. Quiet => file' = file /\ snapshot' = snapshot
    BY <1>8 DEF Compaction, compact, fence, snapshotKey, snapshotWritten, preCopy, seal, Rotation,
       drainAndClose, fsyncDir, openFresh, compactFails, Quiet
  <2> QED BY <1>6, <2>1, <2>2
<1>9. CASE UNCHANGED dbVars
  BY <1>6, <1>9 DEF dbVars
<1>10. CASE \E n \in Op : commit(n)
  <2>1. PICK n \in Op : commit(n)
    BY <1>10
  <2>2. ~flushFrame /\ ~flushFails
    BY <1>0, <2>1 DEF commit, flushFrame, flushFails
  <2> QED BY <1>1, <2>1, <2>2 DEF commit
<1> QED
  BY <1>2, <1>3, <1>4, <1>5, <1>7, <1>8, <1>9, <1>10 DEF Writers

\* The frame that lands is the next of the log.
LEMMA NextFrame ==
  ASSUME Basic, flushFrame
  PROVE  /\ Landed + 1 \in 1..Len(log) /\ inflight[landed + 1] = log[Landed + 1]
         /\ log[Landed + 1] \in 1..Len(ops) /\ log[Landed + 1] \in Nat /\ log[Landed + 1] # 0
         /\ file' = Append(file, log[Landed + 1]) /\ Landed' = Landed + 1
         /\ Ctx' = Ctx /\ UNCHANGED <<ops, snapshot, synced, comp, store, log, status, policy>>
<1>1. landed + 1 \in 1..Len(inflight) /\ Landed + 1 = Taken + (landed + 1)
  <2>1. landed \in 0..Len(inflight) /\ Len(inflight) \in Nat /\ Taken \in Nat
    BY Ranges DEF Basic, DbTypeOK, WalType
  <2>2. landed < Len(inflight)
    BY DEF flushFrame
  <2> QED BY <2>1, <2>2 DEF Landed
<1>2. Landed + 1 \in 1..Len(log) /\ inflight[landed + 1] = log[Landed + 1]
  BY <1>1, BatchFrames
<1>3. log[Landed + 1] \in 1..Len(ops) /\ Len(ops) \in Nat
  BY <1>2, Ranges DEF Basic, FramesOK
<1>4. Ctx' = Ctx /\ UNCHANGED <<ops, snapshot, synced, comp, store, log, status, policy>>
  BY DEF flushFrame, Ctx, opVars, memVars, ghostVars
<1>5. Landed' = Landed + 1
  BY LandedNext DEF Writers
<1> QED BY <1>2, <1>3, <1>4, <1>5 DEF flushFrame

\* A batch that failed has all landed or been rejected, and left no frame but a
\* torn one.
LEMMA FailedBatch ==
  ASSUME Basic, flushFails
  PROVE  /\ Landed' = Taken + Len(inflight) /\ Landed <= Landed' /\ Landed' <= Len(log)
         /\ failures' # 0 /\ log' = log /\ ops' = ops /\ snapshot' = snapshot /\ synced' = synced
         /\ expired' = expired
         /\ \A i \in 1..Len(log) : i > Taken /\ i <= Landed' => Failed(Ctx', i)
         /\ file' = file \/ file' = Append(file, Torn)
<1>1. /\ Landed' = Taken + Len(inflight) /\ Taken \in Nat /\ Len(inflight) \in Nat
      /\ Landed' <= Len(log) /\ Landed \in Nat
  BY LandedNext, Ranges DEF Writers
<1>2. Landed <= Landed'
  BY <1>1 DEF Landed, Basic, DbTypeOK, WalType
<1>3. /\ failures' # 0 /\ log' = log /\ ops' = ops /\ snapshot' = snapshot /\ synced' = synced
      /\ expired' = expired
      /\ file' = file \/ file' = Append(file, Torn)
  BY DEF flushFails, Basic, DbTypeOK, GhostType
<1>4. ASSUME NEW i \in 1..Len(log), i > Taken, i <= Landed' PROVE Failed(Ctx', i)
  <2>1. i - Taken \in 1..Len(inflight) /\ Taken + (i - Taken) = i
    BY <1>1, <1>4, Ranges
  <2>2. inflight[i - Taken] = log[i] /\ inflight[i - Taken] \in 1..Len(ops)
    BY <2>1, BatchFrames
  <2>3. log[i] \in ToSet(inflight) /\ log[i] \in Op
    BY <2>1, <2>2, MemberFacts DEF Op, Basic, DbTypeOK, WalType
  <2>4. status'[log[i]] = "failed"
    BY <2>3 DEF flushFails, StatusOf
  <2> QED BY <1>3, <2>4, CtxFields DEF Failed
<1> QED BY <1>1, <1>2, <1>3, <1>4

\* A torn frame says nothing.
LEMMA TornKept ==
  ASSUME NEW o, NEW v, NEW w \in Seq(Nat), NEW u, u = w \/ u = Append(w, Torn), NEW k
  PROVE  Kept(o, v, u, Len(u), k) = Kept(o, v, w, Len(w), k)
<1>1. CASE u = w
  BY <1>1
<1>2. CASE u = Append(w, Torn)
  <2>1. Len(u) = Len(w) + 1 /\ Torn \in Nat
    BY <1>2, AppendFacts DEF Torn
  <2>2. Kept(o, v, Append(w, Torn), Len(w) + 1, k) =
          IF Touches(o, Torn, k) THEN Put(o, Torn, k) ELSE Kept(o, v, w, Len(w), k)
    BY <2>1, KeptLast
  <2> QED BY <1>2, <2>1, <2>2 DEF Touches
<1> QED BY <1>1, <1>2

\* Every step leaves files that hold what has landed.
LEMMA DiskNext ==
  ASSUME DbInv, [DbNext]_dbVars
  PROVE  DiskOK'
<1>0. Basic /\ Basic' /\ DiskOK /\ DbTypeOK /\ FramesOK
  BY BasicNext DEF DbInv, Basic
<1>00. /\ Landed \in 0..Len(log) /\ Landed \in Nat /\ file \in Seq(Nat) /\ Len(file) \in 0..Len(file)
       /\ \A i \in 1..Len(file) : file[i] \in 0..Len(ops)
  BY <1>0, Ranges DEF FramesOK
<1>1. ASSUME Writers \/ Compaction \/ UNCHANGED dbVars, NEW k \in Key
      PROVE  Good(Ctx', Kept(ops', snapshot[k], file, Len(file), k), k, Landed)
  <2>1. Good(Ctx, Kept(ops, snapshot[k], file, Len(file), k), k, Landed)
    BY <1>0 DEF DiskOK, OnDisk
  <2> DEFINE m == Landed
             n == Len(file)
  <2>2. m \in 0..Len(log) /\ n \in 0..Len(file)
    BY <1>00
  <2> HIDE DEF m, n
  <2>3. Good(Ctx, Kept(ops, snapshot[k], file, n, k), k, m) =>
          Good(Ctx', Kept(ops', snapshot[k], file, n, k), k, m)
    BY <1>0, <1>00, <1>1, <2>2, FilesLater
  <2> QED BY <2>1, <2>3 DEF m, n
<1>2. CASE (Writers \/ Compaction \/ UNCHANGED dbVars) /\ Quiet
  <2>1. file' = file /\ snapshot' = snapshot /\ Landed' = Landed
    BY <1>0, <1>2, LandedNext DEF Quiet
  <2> QED BY <1>1, <1>2, <2>1 DEF DiskOK, OnDisk
<1>3. CASE flushFrame
  <2> DEFINE c == Ctx
             m == Landed
             x == log[Landed + 1]
  <2>1. /\ m + 1 \in 1..Len(log) /\ x \in Nat /\ x # 0 /\ file' = Append(file, x) /\ Landed' = m + 1
        /\ Ctx' = c /\ ops' = ops /\ snapshot' = snapshot
    BY <1>0, <1>3, NextFrame
  <2> SUFFICES ASSUME NEW k \in Key
               PROVE  Good(c, Kept(ops, snapshot[k], Append(file, x), Len(file) + 1, k), k, m + 1)
    <3>1. Len(file') = Len(file) + 1
      BY <1>00, <2>1
    <3> QED BY <2>1, <3>1 DEF DiskOK, OnDisk
  <2> DEFINE v == Kept(ops, snapshot[k], file, Len(file), k)
  <2>2. Kept(ops, snapshot[k], Append(file, x), Len(file) + 1, k) =
          IF Touches(ops, x, k) THEN Put(ops, x, k) ELSE v
    BY <1>00, <2>1, KeptLast
  <2>3. Good(c, v, k, m)
    BY <1>0 DEF DiskOK, OnDisk
  <2>4. /\ c.log \in Seq(Nat) /\ m \in Nat /\ m + 1 <= Len(c.log) /\ c.log[m + 1] = x /\ c.ops = ops
        /\ Touches(ops, x, k) <=> Wrote(c, m + 1, k)
    BY <1>0, <1>00, <2>1, CtxFields, Ranges DEF Wrote, Touches, Torn
  <2> HIDE DEF c, m, x, v
  <2>5. /\ Wrote(c, m + 1, k) => Good(c, Put(c.ops, c.log[m + 1], k), k, m + 1)
        /\ ~Wrote(c, m + 1, k) /\ Good(c, v, k, m) => Good(c, v, k, m + 1)
    BY <2>1, <2>4, GoodNext
  <2> QED BY <2>2, <2>3, <2>4, <2>5
<1>4. CASE flushFails
  <2> DEFINE c == Ctx'
             n == Landed'
             m == Landed
  <2>1. /\ m <= n /\ n <= Len(log) /\ failures' # 0 /\ log' = log /\ ops' = ops /\ snapshot' = snapshot
        /\ \A i \in 1..Len(log) : i > Taken /\ i <= n => Failed(c, i)
        /\ file' = file \/ file' = Append(file, Torn)
    BY <1>0, <1>4, FailedBatch
  <2>2. m \in Nat /\ n \in Nat /\ Taken <= m /\ Taken \in Nat /\ Len(log) \in Nat /\ c.failures = failures'
    BY <1>0, Ranges, RangesNext, CtxFields
  <2>3. \A i \in 1..n : i > m => Failed(c, i)
    <3>1. \A i \in 1..n : i > m => i \in 1..Len(log) /\ i > Taken /\ i <= n
      BY <2>1, <2>2
    <3> QED BY <2>1, <3>1
  <2> SUFFICES ASSUME NEW k \in Key
               PROVE  Good(c, Kept(ops', snapshot[k], file', Len(file'), k), k, n)
    BY <2>1 DEF DiskOK, OnDisk
  <2> DEFINE v == Kept(ops', snapshot[k], file, Len(file), k)
  <2>4. Kept(ops', snapshot[k], file', Len(file'), k) = v
    <3> DEFINE u == file'
               s == snapshot[k]
               o == ops'
    <3>1. u = file \/ u = Append(file, Torn)
      BY <2>1
    <3> HIDE DEF u, s, o
    <3>2. Kept(o, s, u, Len(u), k) = Kept(o, s, file, Len(file), k)
      BY <1>00, <3>1, TornKept
    <3> QED BY <3>2 DEF u, s, o
  <2>5. Good(c, v, k, m)
    BY <1>1, <1>4 DEF Writers
  <2> HIDE DEF c, n, m, v
  <2>6. Good(c, v, k, n)
    BY <2>1, <2>2, <2>3, <2>5, GoodSkip
  <2> QED BY <2>4, <2>6
<1>5. CASE renameSnapshot \/ renameWal
  <2>1. CompOK /\ SwapOK
    BY DEF DbInv
  <2>2. comp.phase \in Swapping /\ comp.phase \in Sealing \ {"drain"}
    BY <1>5 DEF renameSnapshot, renameWal, Phase, Swapping, Sealing
  <2>3. Landed = Len(log)
    BY <1>0, <2>1, <2>2 DEF CompOK, Flushed, Landed, Taken, DbTypeOK, WalType, GhostType
  <2>4. Landed' = Landed /\ Ctx' = Ctx /\ ops' = ops
    <3>1. Compaction
      BY <1>5 DEF Compaction, Rotation
    <3>2. UNCHANGED <<queue, inflight, landed, log>> /\ Ctx' = Ctx /\ ops' = ops
      BY <1>5 DEF renameSnapshot, renameWal, opVars, walVars, ghostVars, Ctx
    <3> QED BY <3>2 DEF Landed, Taken
  <2>5. \/ snapshot' = comp.snap /\ file' = file
        \/ snapshot' = comp.snap /\ file' = comp.tail
    BY <1>5, <2>1 DEF renameSnapshot, renameWal, CompOK, Phase
  <2>6. \A k \in Key :
          /\ Good(Ctx, OnDisk(comp.snap, file, Len(file), k), k, Len(log))
          /\ Good(Ctx, OnDisk(comp.snap, comp.tail, Len(comp.tail), k), k, Len(log))
    BY <2>1, <2>2 DEF SwapOK
  <2> QED BY <2>3, <2>4, <2>5, <2>6 DEF DiskOK, OnDisk
<1>6. CASE kill
  <2>1. /\ file' = Truncated(file) /\ snapshot' = snapshot /\ ops' = ops
        /\ log' = SubSeq(log, 1, Landed) /\ queue' = << >> /\ inflight' = << >> /\ landed' = 0
    BY <1>6 DEF kill, reopen, AfterKill, Landed, Taken
  <2>2. Landed' = Landed
    <3>1. Len(log') = Landed
      BY <1>0, <1>00, <2>1, Ranges
    <3> QED BY <1>00, <2>1, <3>1 DEF Landed, Taken
  <2> SUFFICES ASSUME NEW k \in Key
               PROVE  Good(Ctx', Kept(ops, snapshot[k], Truncated(file), Len(Truncated(file)), k), k, Landed)
    BY <2>1, <2>2 DEF DiskOK, OnDisk
  <2>3. Kept(ops, snapshot[k], Truncated(file), Len(Truncated(file)), k) =
          Kept(ops, snapshot[k], file, Len(file), k)
    BY <1>00, KeptTruncated
  <2>4. Later(Ctx, Ctx', Landed)
    BY <1>0, <1>00, <1>6, LaterKill
  <2>5. Good(Ctx, Kept(ops, snapshot[k], file, Len(file), k), k, Landed)
    BY <1>0 DEF DiskOK, OnDisk
  <2> QED BY <2>3, <2>4, <2>5, GoodLater
<1>7. CASE powerLoss
  <2>1. PICK disk \in AfterPowerLoss :
          /\ snapshot' = disk.snap /\ file' = Truncated(disk.wal)
          /\ store' = recover(disk.snap, disk.wal) /\ base' = store' /\ log' = << >>
          /\ ops' = ops /\ expired' = expired
          /\ queue' = << >> /\ inflight' = << >> /\ landed' = 0
    BY <1>7 DEF powerLoss, reopen
  <2>2. Landed' = 0
    <3>1. Len(log') = 0 /\ Len(queue') = 0 /\ Len(inflight') = 0 /\ landed' = 0
      BY <2>1
    <3> QED BY <3>1 DEF Landed, Taken
  <2>3. /\ disk.snap \in State /\ disk.wal \in Seq(Nat)
        /\ \A i \in 1..Len(disk.wal) : disk.wal[i] \in 0..Len(ops)
    BY <1>0, DisksLeft
  <2> SUFFICES ASSUME NEW k \in Key
               PROVE  Good(Ctx', Kept(ops, snapshot'[k], file', Len(file'), k), k, 0)
    BY <2>1, <2>2 DEF DiskOK, OnDisk
  <2> DEFINE s == disk.snap
             w == disk.wal
             v == Kept(ops, s[k], w, Len(w), k)
  <2>4. base'[k] = Shown(expired, v)
    <3>1. s \in State /\ w \in Seq(Nat) /\ \A i \in 1..Len(w) : w[i] \in 0..Len(ops)
      BY <2>3
    <3>2. base' = recover(s, w)
      BY <2>1
    <3> HIDE DEF s, w
    <3>3. recover(s, w) = [j \in Key |-> Shown(expired, Kept(ops, s[j], w, Len(w), j))]
      BY <1>0, <3>1, RecoverType
    <3> QED BY <3>2, <3>3
  <2>5. Kept(ops, snapshot'[k], file', Len(file'), k) = v
    <3>1. w \in Seq(Nat) /\ snapshot' = s /\ file' = Truncated(w)
      BY <2>1, <2>3
    <3> HIDE DEF s, w
    <3> QED BY <3>1, KeptTruncated
  <2>6. Shown(Ctx'.expired, v) = Shown(Ctx'.expired, Ctx'.base[k]) /\ Ctx'.log \in Seq(Nat)
    <3>1. 0 \notin expired
      BY <1>0, Ranges
    <3> HIDE DEF v
    <3> QED BY <2>1, <2>4, <3>1, CtxFields DEF Shown
  <2> QED BY <2>5, <2>6, GoodStart
<1> QED
  BY <1>2, <1>3, <1>4, <1>5, <1>6, <1>7 DEF DbNext, Quiet

\* As long as no write fails, no frame is torn and no operation has failed.
LEMMA FailedNext ==
  ASSUME Basic, [DbNext]_dbVars, ~flushFails
  PROVE  failures' = failures /\ \A n \in 1..Len(ops) : status'[n] = "failed" => status[n] = "failed"
<1>0. status \in Seq(OpStatus) /\ Len(status) = Len(ops) /\ Len(ops) \in Nat
  BY DEF Basic, DbTypeOK, OpsType
<1> USE DEF opVars, memVars, walVars, diskVars, ghostVars
<1>1. CASE \E w \in Writes : issue(w)
  BY <1>0, <1>1 DEF issue
<1>2. CASE \E n \in Op : passGate(n) \/ commit(n) \/ commitSealed(n) \/ expire(n)
  BY <1>0, <1>2 DEF passGate, commit, commitSealed, expire, SetStatus
<1>3. CASE (\E k \in Key : reap(k)) \/ flushStart \/ flushFrame \/ syncTimer \/ UNCHANGED dbVars
  BY <1>3 DEF reap, flushStart, flushFrame, syncTimer, dbVars
<1>4. CASE flushEnd
  BY <1>4 DEF flushEnd, StatusOf, Op
<1>5. CASE Compaction
  BY <1>5 DEF Compaction, compact, fence, snapshotKey, snapshotWritten, preCopy, seal, Rotation,
       drainAndClose, renameSnapshot, fsyncDir, renameWal, openFresh, compactFails
<1>6. CASE kill \/ powerLoss
  BY <1>6 DEF kill, powerLoss, reopen, Op
<1> QED BY <1>1, <1>2, <1>3, <1>4, <1>5, <1>6 DEF DbNext, Writers

\* Every step keeps that.
LEMMA NothingFailedNext ==
  ASSUME DbInv, [DbNext]_dbVars
  PROVE  NothingFailed'
<1>0. Basic /\ Basic' /\ NothingFailed /\ DbTypeOK /\ FramesOK /\ CompOK
  BY BasicNext DEF DbInv, Basic
<1>1. CASE flushFails
  <2>1. failures' # 0
    BY <1>0, <1>1, FailedBatch
  <2> QED BY <2>1 DEF NothingFailed
<1> SUFFICES ASSUME ~flushFails, failures' = 0 PROVE NothingFailed'
  BY <1>1 DEF NothingFailed
<1>2. /\ failures = 0 /\ \A i \in 1..Len(file) : file[i] # Torn
      /\ \A w \in oldWal : \A i \in 1..Len(w) : w[i] # Torn
      /\ \A i \in 1..Len(log) : status[log[i]] # "failed"
      /\ \A n \in 1..Len(ops) : status'[n] = "failed" => status[n] = "failed"
      /\ \A i \in 1..Len(log) : log[i] \in 1..Len(ops)
      /\ file \in Seq(Nat) /\ log \in Seq(Nat) /\ Len(log) \in Nat /\ Len(file) \in Nat
  BY <1>0, FailedNext, CtxFields, Ranges DEF NothingFailed, Failed, FramesOK
<1>3. ASSUME NEW i \in 1..Len(log') PROVE status'[log'[i]] # "failed"
  <2>1. CASE log' = log
    BY <1>2, <2>1
  <2>2. CASE \E n \in Op : commit(n)
    <3>1. PICK n \in Op : commit(n)
      BY <2>2
    <3>2. /\ n \in 1..Len(ops) /\ status[n] # "failed" /\ log' = Append(log, n) /\ n \in Nat
      BY <1>0, <3>1 DEF commit, Op, DbTypeOK, OpsType
    <3>3. log'[i] = n \/ (i \in 1..Len(log) /\ log'[i] = log[i])
      <4>1. Len(log') = Len(log) + 1 /\ Len(log) \in Nat
        BY <1>2, <3>2
      <4>2. i \in 1..Len(log) \/ i = Len(log) + 1
        BY <4>1
      <4> QED BY <1>2, <3>2, <4>2, AppendFacts
    <3> QED BY <1>2, <3>2, <3>3
  <2>3. CASE kill
    <3>1. log' = SubSeq(log, 1, Landed) /\ Landed \in Nat /\ Landed <= Len(log)
      BY <1>0, <2>3, Ranges DEF kill, Landed, Taken
    <3>2. i \in 1..Len(log) /\ log'[i] = log[i]
      BY <1>2, <3>1
    <3> QED BY <1>2, <3>2
  <2>4. CASE powerLoss
    <3>1. Len(log') = 0
      BY <2>4 DEF powerLoss
    <3> QED BY <3>1
  <2>5. log' = log \/ (\E n \in Op : commit(n)) \/ kill \/ powerLoss
    BY DEF DbNext, Writers, issue, passGate, commitSealed, expire, reap, flushStart, flushFrame,
       flushEnd, flushFails, syncTimer, dbVars, Compaction, compact, fence, snapshotKey,
       snapshotWritten, preCopy, seal, Rotation, drainAndClose, renameSnapshot, fsyncDir, renameWal,
       openFresh, compactFails, ghostVars
  <2> QED BY <2>1, <2>2, <2>3, <2>4, <2>5
<1> USE DEF diskVars
<1>4. /\ \A i \in 1..Len(file') : file'[i] # Torn
      /\ \A w \in oldWal' : \A i \in 1..Len(w) : w[i] # Torn
  <2>1. CASE flushFrame
    <3>1. file' = Append(file, log[Landed + 1]) /\ log[Landed + 1] \in Nat /\ log[Landed + 1] # 0
      BY <1>0, <2>1, NextFrame
    <3>2. Len(file') = Len(file) + 1
      BY <1>2, <3>1
    <3> QED BY <1>2, <2>1, <3>1, <3>2, AppendFacts DEF flushFrame, Torn
  <2>2. CASE renameWal
    <3>1. /\ file' = comp.tail /\ oldWal' = {file} /\ comp.phase \in Swapping
      BY <2>2 DEF renameWal, Phase, Swapping
    <3>2. /\ comp.base \in Nat /\ comp.copied \in Nat /\ comp.tail \in Seq(Nat) /\ Len(comp.tail) \in Nat
      BY <1>0, CompFields DEF DbTypeOK
    <3>3. /\ comp.base <= comp.copied /\ comp.copied <= Len(file)
          /\ Len(comp.tail) = comp.copied - comp.base
          /\ \A i \in 1..Len(comp.tail) : comp.tail[i] = file[comp.base + i]
      BY <1>0, <3>1 DEF CompOK
    <3>4. \A i \in 1..Len(comp.tail) : comp.base + i \in 1..Len(file)
      BY <1>2, <3>2, <3>3, ShiftIn
    <3> QED BY <1>2, <3>1, <3>3, <3>4
  <2>3. CASE kill
    <3>1. file' = Truncated(file) /\ oldWal' = oldWal
      BY <2>3 DEF kill, reopen, AfterKill
    <3>2. /\ Len(Truncated(file)) <= Len(file) /\ Len(Truncated(file)) \in Nat
          /\ \A i \in 1..Len(Truncated(file)) : Truncated(file)[i] = file[i]
      BY <1>2, TruncatedFacts
    <3> QED BY <1>2, <3>1, <3>2
  <2>4. CASE powerLoss
    <3>1. PICK disk \in AfterPowerLoss : file' = Truncated(disk.wal) /\ oldWal' = {}
      BY <2>4 DEF powerLoss, reopen
    <3>2. disk.wal \in {SubSeq(file, 1, n) : n \in synced..Len(file)} \cup oldWal
      BY DEF AfterPowerLoss
    <3> DEFINE w == disk.wal
    <3>3. w \in Seq(Nat)
      BY <1>0, DisksLeft
    <3>4. \A i \in 1..Len(w) : w[i] # Torn
      <4>1. ASSUME NEW n \in synced..Len(file), w = SubSeq(file, 1, n)
            PROVE  \A i \in 1..Len(w) : w[i] # Torn
        <5>1. n \in 0..Len(file) /\ n \in Nat
          BY <1>0 DEF DbTypeOK, DiskType
        <5>2. Len(SubSeq(file, 1, n)) = n /\ \A i \in 1..n : SubSeq(file, 1, n)[i] = file[i]
          BY <1>2, <5>1
        <5> HIDE DEF w
        <5> QED BY <1>2, <4>1, <5>1, <5>2
      <4> QED BY <1>2, <3>2, <4>1
    <3> HIDE DEF w
    <3>5. /\ Len(Truncated(w)) <= Len(w) /\ Len(Truncated(w)) \in Nat /\ Len(w) \in Nat
          /\ \A i \in 1..Len(Truncated(w)) : Truncated(w)[i] = w[i]
      BY <3>3, TruncatedFacts
    <3>6. file' = Truncated(w)
      BY <3>1 DEF w
    <3> QED BY <3>1, <3>4, <3>5, <3>6
  <2>5. CASE UNCHANGED file /\ (oldWal' = oldWal \/ oldWal' = {})
    BY <1>2, <2>5
  <2>6. \/ flushFrame \/ renameWal \/ kill \/ powerLoss
        \/ UNCHANGED file /\ (oldWal' = oldWal \/ oldWal' = {})
    BY DEF DbNext, Writers, issue, passGate, commit, commitSealed, expire, reap, flushStart,
       flushEnd, flushFails, syncTimer, dbVars, Compaction, compact, fence, snapshotKey,
       snapshotWritten, preCopy, seal, Rotation, drainAndClose, renameSnapshot, fsyncDir,
       openFresh, compactFails
  <2> QED BY <2>1, <2>2, <2>3, <2>4, <2>5, <2>6
<1> QED BY <1>3, <1>4, CtxFields DEF NothingFailed, Failed

-----------------------------------------------------------------------------
(***************************************************************************)
(* What a power failure leaves of the log file.                            *)
(***************************************************************************)
AllSynced == synced = Len(file)

\* An acknowledged operation has landed.
LEMMA AckedLanded ==
  ASSUME Basic, NEW i \in 1..Len(log), status[log[i]] = "acked"
  PROVE  i \in 1..Landed /\ ~Failed(Ctx, i)
<1>1. ~(i > Taken)
  BY DEF Basic, QueueOK
<1> QED BY <1>1, Ranges, CtxFields, SMTT(30) DEF Failed

\* With the whole file on the disk nothing can be cut off.
LEMMA PrefixFull == Basic /\ DiskOK /\ AllSynced => PrefixOK
<1> SUFFICES ASSUME Basic, DiskOK, AllSynced PROVE PrefixOK
  OBVIOUS
<1>1. Len(file) \in Nat /\ Landed \in Nat /\ Landed <= Len(log)
  BY Ranges
<1>2. synced = Len(file) /\ Cut(Len(file)) = Landed
  BY <1>1 DEF AllSynced, Cut
<1>3. \A n \in synced..Len(file) : n = Len(file)
  BY <1>1, <1>2
<1>4. ASSUME NEW k \in Key
      PROVE  Good(Ctx, OnDisk(snapshot, file, Len(file), k), k, Landed)
  BY DEF DiskOK
<1>5. ASSUME failures = 0, NEW k \in Key
      PROVE  Exact(Ctx, OnDisk(snapshot, file, Len(file), k), k, Landed)
  BY <1>4, <1>5, CtxFields DEF Good
<1>6. ASSUME NEW k \in Key, Clean(Ctx, k), NEW i \in 1..Len(log), Wrote(Ctx, i, k),
             status[log[i]] = "acked"
      PROVE  From(Ctx, OnDisk(snapshot, file, Len(file), k), k, i, Landed)
  BY <1>4, <1>6, AckedLanded DEF Good, Fits
<1>7. ASSUME NEW i \in 1..Len(log), status[log[i]] = "acked" PROVE i <= Landed
  BY <1>1, <1>7, AckedLanded
<1> QED BY <1>1, <1>2, <1>3, <1>5, <1>6, <1>7 DEF PrefixOK

\* What was right of each cut stays so.
LEMMA PrefixStep ==
  ASSUME Basic, PrefixOK, Basic', DiskOK', policy' = policy, Landed <= Landed',
         \A m \in 0..Landed : Later(Ctx, Ctx', m),
         failures' = 0 => Landed' - Len(file') = Landed - Len(file) /\ synced' = synced,
         \A n \in synced'..Len(file') : n # Len(file') =>
           /\ n \in synced..Len(file)
           /\ \A k \in Key : Kept(ops', snapshot'[k], file', n, k) = OnDisk(snapshot, file, n, k),
         policy = "always" => \A i \in 1..Len(log') :
           status'[log'[i]] = "acked" => i \in 1..Len(log) /\ status[log[i]] = "acked"
  PROVE  PrefixOK'
<1> DEFINE c == Ctx
           d == Ctx'
           L == Landed
           M == Landed'
           V(n, k) == OnDisk(snapshot, file, n, k)
           W(n, k) == Kept(ops', snapshot'[k], file', n, k)
<1>1. /\ L \in Nat /\ M \in Nat /\ L <= M /\ L <= Len(log) /\ M <= Len(log')
      /\ Len(file) \in Nat /\ Len(file') \in Nat /\ synced \in 0..Len(file) /\ synced' \in 0..Len(file')
      /\ Len(log) \in Nat /\ Len(log') \in Nat
  BY Ranges, RangesNext DEF Basic, DbTypeOK, DiskType
<1>2. \A k \in Key : Good(d, W(Len(file'), k), k, M)
  BY DEF DiskOK, OnDisk
<1>3. ASSUME failures' = 0
      PROVE  /\ failures = 0 /\ synced' = synced
             /\ \A n \in Nat : Landed' - Len(file') + n = Landed - Len(file) + n
  <2>1. Later(c, d, L)
    BY <1>1
  <2>2. failures = 0
    BY <1>3, <2>1, CtxFields DEF Later
  <2>3. Landed' - Len(file') = Landed - Len(file) /\ synced' = synced
    BY <1>3
  <2> QED BY <2>2, <2>3
<1>4. ASSUME failures' = 0, NEW n \in synced'..Len(file'), NEW k \in Key
      PROVE  Exact(d, W(n, k), k, Landed' - Len(file') + n)
  <2>1. CASE n = Len(file')
    <3>1. Landed' - Len(file') + n = M
      BY <1>1, <2>1
    <3>2. Exact(d, W(n, k), k, M)
      BY <1>2, <1>4, <2>1, CtxFields DEF Good
    <3> QED BY <3>1, <3>2
  <2>2. CASE n # Len(file')
    <3> DEFINE m == Cut(n)
    <3>1. n \in synced..Len(file) /\ W(n, k) = V(n, k)
      BY <2>2
    <3>2. 0 <= Cut(synced) /\ Exact(c, V(n, k), k, m)
      BY <1>3, <1>4, <3>1 DEF PrefixOK
    <3>3. m \in 0..L /\ Landed' - Len(file') + n = m
      <4>1. n \in Nat /\ synced <= n /\ n <= Len(file)
        BY <1>1, <3>1
      <4>2. Landed' - Len(file') + n = Landed - Len(file) + n
        BY <1>3, <1>4, <4>1
      <4> QED BY <1>1, <3>2, <4>1, <4>2 DEF Cut
    <3>4. Later(c, d, m)
      BY <3>3
    <3> DEFINE v == V(n, k)
    <3> HIDE DEF m, c, d, v
    <3>5. Exact(c, v, k, m)
      BY <3>2 DEF v
    <3>6. Exact(d, v, k, m)
      BY <3>4, <3>5, ExactLater
    <3> QED BY <3>1, <3>3, <3>6 DEF v
  <2> QED BY <2>1, <2>2
<1>5. ASSUME failures' = 0 PROVE 0 <= Landed' - Len(file') + synced'
  <2>1. 0 <= Landed - Len(file) + synced
    BY <1>3, <1>5 DEF PrefixOK, Cut
  <2> QED BY <1>1, <1>3, <1>5, <2>1
<1>6. ASSUME failures' = 0, policy = "always", NEW i \in 1..Len(log'), status'[log'[i]] = "acked"
      PROVE  i <= Landed' - Len(file') + synced'
  <2>1. i <= Landed - Len(file) + synced
    BY <1>3, <1>6 DEF PrefixOK, Cut
  <2> QED BY <1>1, <1>3, <1>6, <2>1
<1>7. ASSUME policy = "always", NEW n \in synced'..Len(file'), NEW k \in Key, Clean(d, k),
             NEW i \in 1..Len(log'), Wrote(d, i, k), status'[log'[i]] = "acked"
      PROVE  From(d, W(n, k), k, i, M)
  <2>1. i \in 1..Len(log) /\ status[log[i]] = "acked"
    BY <1>7
  <2>2. i \in 1..L
    BY <2>1, AckedLanded
  <2>3. Later(c, d, L)
    BY <1>1
  <2>4. Wrote(c, i, k) /\ Clean(c, k) /\ d.log[i] = c.log[i] /\ c.status = status /\ d.status = status'
    BY <1>7, <2>2, <2>3, CtxFields, SMTT(30) DEF Later, Wrote
  <2>5. CASE n = Len(file')
    <3>1. ~Failed(d, i)
      BY <1>7, CtxFields DEF Failed
    <3>2. i \in 1..M
      BY <1>1, <2>2
    <3> QED BY <1>2, <1>7, <2>5, <3>1, <3>2 DEF Good, Fits
  <2>6. CASE n # Len(file')
    <3>1. n \in synced..Len(file) /\ W(n, k) = V(n, k)
      BY <2>6
    <3> DEFINE v == V(n, k)
    <3>2. From(c, v, k, i, L)
      BY <1>7, <2>1, <2>4, <3>1 DEF PrefixOK
    <3> HIDE DEF c, d, v, L
    <3>3. From(d, v, k, i, L)
      BY <2>2, <2>3, <3>2, FromLater
    <3>4. \A j \in i..L : j \in i..M
      BY <1>1, <2>2
    <3>5. From(d, v, k, i, M)
      BY <3>3, <3>4 DEF From
    <3> QED BY <3>1, <3>5 DEF v
  <2> QED BY <2>5, <2>6
<1> QED
  BY <1>4, <1>5, <1>6, <1>7 DEF PrefixOK, Cut, OnDisk

\* Nothing but the end of a flush acknowledges a write.
LEMMA AckedNext ==
  ASSUME Basic, [DbNext]_dbVars, ~flushEnd \/ kill
  PROVE  \A i \in 1..Len(log') :
           status'[log'[i]] = "acked" => i \in 1..Len(log) /\ log'[i] = log[i] /\ status[log[i]] = "acked"
<1>0. /\ status \in Seq(OpStatus) /\ Len(status) = Len(ops) /\ Len(ops) \in Nat
      /\ \A i \in 1..Len(log) : log[i] \in 1..Len(ops)
      /\ log \in Seq(Nat) /\ Len(log) \in Nat
  <2>1. status \in Seq(OpStatus) /\ Len(status) = Len(ops)
    BY DEF Basic, DbTypeOK, OpsType
  <2>2. \A i \in 1..Len(log) : log[i] \in 1..Len(ops)
    BY DEF Basic, FramesOK
  <2> QED BY <2>1, <2>2, Ranges
<1> USE DEF opVars, memVars, walVars, diskVars, ghostVars
<1>1. ASSUME log' = log, \A n \in 1..Len(ops) : status'[n] = "acked" => status[n] = "acked"
      PROVE  \A i \in 1..Len(log') :
               status'[log'[i]] = "acked" => i \in 1..Len(log) /\ log'[i] = log[i] /\ status[log[i]] = "acked"
  BY <1>0, <1>1
<1>2. CASE \E w \in Writes : issue(w)
  <2>1. log' = log /\ \A n \in 1..Len(ops) : status'[n] = status[n]
    BY <1>0, <1>2 DEF issue
  <2> QED BY <1>1, <2>1
<1>3. CASE \E n \in Op : passGate(n) \/ commitSealed(n) \/ expire(n)
  <2>1. log' = log /\ \A n \in 1..Len(ops) : status'[n] = "acked" => status[n] = "acked"
    BY <1>0, <1>3 DEF passGate, commitSealed, expire, SetStatus
  <2> QED BY <1>1, <2>1
<1>4. CASE (\E k \in Key : reap(k)) \/ flushStart \/ flushFrame \/ syncTimer \/ UNCHANGED dbVars
  <2>1. log' = log /\ status' = status
    BY <1>4 DEF reap, flushStart, flushFrame, syncTimer, dbVars
  <2> QED BY <1>1, <2>1
<1>5. CASE flushFails
  <2>1. log' = log /\ \A n \in 1..Len(ops) : status'[n] = "acked" => status[n] = "acked"
    BY <1>5 DEF flushFails, StatusOf, Op
  <2> QED BY <1>1, <2>1
<1>6. CASE Compaction
  <2>1. log' = log /\ status' = status
    BY <1>6 DEF Compaction, compact, fence, snapshotKey, snapshotWritten, preCopy, seal, Rotation,
       drainAndClose, renameSnapshot, fsyncDir, renameWal, openFresh, compactFails
  <2> QED BY <1>1, <2>1
<1>7. CASE \E n \in Op : commit(n)
  <2>1. PICK n \in Op : commit(n)
    BY <1>7
  <2>2. /\ n \in 1..Len(ops) /\ n \in Nat /\ log' = Append(log, n)
        /\ status' = [status EXCEPT ![n] = "pending"]
    BY <1>0, <2>1 DEF commit, SetStatus, Op
  <2>3. Len(log') = Len(log) + 1 /\ log'[Len(log) + 1] = n /\ \A i \in 1..Len(log) : log'[i] = log[i]
    BY <1>0, <2>2, AppendFacts
  <2>4. \A m \in 1..Len(ops) : status'[m] = "acked" => status[m] = "acked" /\ m # n
    BY <1>0, <2>2
  <2> SUFFICES ASSUME NEW i \in 1..(Len(log) + 1), status'[log'[i]] = "acked"
               PROVE  i \in 1..Len(log) /\ log'[i] = log[i] /\ status[log[i]] = "acked"
    BY <2>3
  <2>5. i # Len(log) + 1
    BY <2>2, <2>3, <2>4
  <2>6. i \in 1..Len(log)
    BY <1>0, <2>5
  <2> QED BY <1>0, <2>3, <2>4, <2>6
<1>8. CASE kill
  <2>1. log' = SubSeq(log, 1, Landed) /\ Landed \in Nat /\ Landed <= Len(log)
    BY <1>8, Ranges DEF kill, Landed, Taken
  <2>2. \A n \in 1..Len(ops) : status'[n] = "acked" => status[n] = "acked"
    BY <1>8 DEF kill, reopen, Op
  <2>3. ASSUME NEW i \in 1..Len(log') PROVE i \in 1..Len(log) /\ log'[i] = log[i]
    BY <1>0, <2>1
  <2> QED BY <1>0, <2>2, <2>3
<1>9. CASE powerLoss
  <2>1. Len(log') = 0
    BY <1>9 DEF powerLoss
  <2> QED BY <2>1
<1> QED
  BY <1>2, <1>3, <1>4, <1>5, <1>6, <1>7, <1>8, <1>9 DEF DbNext, Writers

\* The fsync policy does not change.
LEMMA PolicyNext ==
  ASSUME [DbNext]_dbVars
  PROVE  policy' = policy
<1>1. CASE Writers
  BY <1>1 DEF Writers, issue, passGate, commit, commitSealed, expire, reap, flushStart,
       flushFrame, flushEnd, flushFails, syncTimer
<1>2. CASE Compaction
  BY <1>2 DEF Compaction, compact, fence, snapshotKey, snapshotWritten, preCopy, seal, Rotation,
       drainAndClose, renameSnapshot, fsyncDir, renameWal, openFresh, compactFails
<1>3. CASE kill \/ powerLoss \/ UNCHANGED dbVars
  BY <1>3 DEF kill, powerLoss, reopen, dbVars
<1> QED BY <1>1, <1>2, <1>3 DEF DbNext

\* Which steps fsync the file, or leave it as it is.
LEMMA SyncedNext ==
  ASSUME Basic, [Writers \/ Compaction]_dbVars
  PROVE  \/ AllSynced'
         \/ synced' = synced /\ ~renameSnapshot /\ ~renameWal /\ (policy = "always" => ~flushEnd)
<1>0. CompOK
  BY DEF Basic
<1> USE DEF diskVars
<1>1. CASE renameSnapshot \/ renameWal
  BY <1>0, <1>1 DEF renameSnapshot, renameWal, AllSynced, CompOK, Swapping, Phase
<1>3. CASE syncTimer \/ drainAndClose
  BY <1>3 DEF syncTimer, drainAndClose, AllSynced
<1>5. flushEnd => AllSynced' \/ (synced' = synced /\ policy # "always")
  BY DEF flushEnd, AllSynced
<1>6. compactFails => AllSynced' \/ synced' = synced
  BY DEF compactFails, AllSynced
<1>7. \/ renameSnapshot \/ renameWal \/ syncTimer \/ flushEnd \/ drainAndClose \/ compactFails
      \/ synced' = synced
  BY DEF Writers, issue, passGate, commit, commitSealed, expire, reap, flushStart,
       flushFrame, flushFails, Compaction, compact, fence, snapshotKey, snapshotWritten, preCopy,
       seal, Rotation, fsyncDir, openFresh, dbVars
<1> QED BY <1>1, <1>3, <1>5, <1>6, <1>7

\* Every step leaves files whose every unsynced cut will do.
LEMMA PrefixNext ==
  ASSUME DbInv, [DbNext]_dbVars
  PROVE  PrefixOK'
<1>0. Basic /\ Basic' /\ DiskOK' /\ PrefixOK /\ NothingFailed /\ DbTypeOK /\ FramesOK
  BY BasicNext, DiskNext DEF DbInv, Basic
<1>00. /\ Landed \in 0..Len(log) /\ Landed \in Nat /\ file \in Seq(Nat) /\ Len(file) \in Nat
       /\ synced \in 0..Len(file) /\ policy' = policy
       /\ \A i \in 1..Len(file) : file[i] \in 0..Len(ops)
  BY <1>0, Ranges, PolicyNext DEF FramesOK, DbTypeOK, DiskType
<1>1. CASE AllSynced'
  BY <1>0, <1>1, PrefixFull, PTL
<1>2. CASE Writers \/ Compaction \/ UNCHANGED dbVars
  <2>1. CASE ~AllSynced'
    <3>1. /\ synced' = synced /\ ~renameSnapshot /\ ~renameWal
          /\ policy = "always" => ~flushEnd
      BY <1>0, <1>2, <2>1, SyncedNext
    <3>2. \A m \in 0..Landed : Later(Ctx, Ctx', m)
      <4>1. \A m \in 0..Len(log) : Later(Ctx, Ctx', m)
        BY <1>0, <1>2, LaterNext
      <4>2. \A m \in 0..Landed : m \in 0..Len(log)
        BY <1>00, Ranges, <1>0
      <4> QED BY <4>1, <4>2
    <3>3. policy = "always" => \A i \in 1..Len(log') :
            status'[log'[i]] = "acked" => i \in 1..Len(log) /\ status[log[i]] = "acked"
      BY <1>0, <1>2, <3>1, AckedNext DEF DbNext
    <3>4. /\ snapshot' = snapshot /\ Landed <= Landed'
          /\ file' = file \/ \E x \in Nat : file' = Append(file, x)
          /\ failures' = 0 => Landed' - Len(file') = Landed - Len(file)
      <4>1. CASE Quiet
        <5>1. Landed' = Landed /\ file' = file /\ snapshot' = snapshot
          BY <1>0, <1>2, <4>1, LandedNext DEF Quiet
        <5> QED BY <1>00, <5>1
      <4>2. CASE flushFrame
        <5>1. /\ file' = Append(file, log[Landed + 1]) /\ log[Landed + 1] \in Nat /\ Landed' = Landed + 1
              /\ snapshot' = snapshot
          BY <1>0, <4>2, NextFrame
        <5>2. Len(file') = Len(file) + 1
          BY <1>00, <5>1
        <5> QED BY <1>00, <5>1, <5>2
      <4>3. CASE flushFails
        <5>1. /\ Landed <= Landed' /\ failures' # 0 /\ snapshot' = snapshot
              /\ file' = file \/ file' = Append(file, Torn)
          BY <1>0, <4>3, FailedBatch
        <5> QED BY <5>1 DEF Torn
      <4> QED BY <3>1, <4>1, <4>2, <4>3 DEF Quiet
    <3>5. ASSUME NEW n \in synced'..Len(file'), n # Len(file')
          PROVE  /\ n \in synced..Len(file)
                 /\ \A k \in Key : Kept(ops', snapshot'[k], file', n, k) = OnDisk(snapshot, file, n, k)
      <4>1. n \in synced..Len(file) /\ n \in 0..Len(file)
        <5>1. Len(file') <= Len(file) + 1 /\ Len(file') \in Nat
          BY <1>00, <3>4
        <5> QED BY <1>00, <3>1, <3>5, <5>1
      <4>2. ASSUME NEW k \in Key
            PROVE  Kept(ops', snapshot[k], file', n, k) = Kept(ops, snapshot[k], file, n, k)
        <5> DEFINE z == Landed
        <5>0. z \in 0..Len(log)
          BY <1>00
        <5> HIDE DEF z
        <5>1. Kept(ops', snapshot[k], file, n, k) = Kept(ops, snapshot[k], file, n, k)
          BY <1>0, <1>00, <1>2, <4>1, <5>0, FilesLater
        <5>2. Kept(ops', snapshot[k], file', n, k) = Kept(ops', snapshot[k], file, n, k)
          <6> DEFINE o == ops'
                     v == snapshot[k]
                     u == file'
          <6>1. u = file \/ \E x \in Nat : u = Append(file, x)
            BY <3>4
          <6> HIDE DEF o, v, u
          <6>2. Kept(o, v, u, n, k) = Kept(o, v, file, n, k)
            <7>1. CASE u = file
              BY <7>1
            <7>2. ASSUME NEW x \in Nat, u = Append(file, x) PROVE Kept(o, v, u, n, k) = Kept(o, v, file, n, k)
              BY <1>00, <4>1, <7>2, KeptAppend
            <7> QED BY <6>1, <7>1, <7>2
          <6> QED BY <6>2 DEF o, v, u
        <5> QED BY <5>1, <5>2
      <4> QED BY <3>4, <4>1, <4>2 DEF OnDisk
    <3> QED BY <1>0, <1>00, <3>1, <3>2, <3>3, <3>4, <3>5, PrefixStep
  <2> QED BY <1>1, <2>1
<1>3. CASE kill
  <2>1. /\ file' = Truncated(file) /\ snapshot' = snapshot /\ ops' = ops /\ failures' = failures
        /\ synced' = Min({synced, Len(file')})
        /\ log' = SubSeq(log, 1, Landed) /\ queue' = << >> /\ inflight' = << >> /\ landed' = 0
    BY <1>3 DEF kill, reopen, AfterKill, Landed, Taken
  <2>2. Landed' = Landed
    <3>1. Len(log') = Landed
      BY <1>0, <1>00, <2>1, Ranges
    <3> QED BY <1>00, <2>1, <3>1 DEF Landed, Taken
  <2>3. \A m \in 0..Landed : Later(Ctx, Ctx', m)
    BY <1>0, <1>3, LaterKill
  <2>4. \A i \in 1..Len(log') :
          status'[log'[i]] = "acked" => i \in 1..Len(log) /\ status[log[i]] = "acked"
    BY <1>0, <1>3, AckedNext
  <2>5. /\ Truncated(file) \in Seq(Nat) /\ Len(Truncated(file)) \in Nat
        /\ Len(Truncated(file)) <= Len(file)
        /\ \A i \in 1..Len(Truncated(file)) : Truncated(file)[i] = file[i]
        /\ \A i \in 1..Len(file) : i > Len(Truncated(file)) => file[i] = Torn
    BY <1>00, TruncatedFacts
  <2>6. synced' \in Nat /\ synced' <= Len(file') /\ (synced' = synced \/ synced' = Len(file'))
        /\ synced' <= synced
    <3> DEFINE a == synced
               b == Len(file')
    <3>1. a \in Nat /\ b \in Nat /\ synced' = Min({a, b})
      BY <1>00, <2>1, <2>5
    <3>2. a = synced /\ b = Len(file')
      OBVIOUS
    <3> HIDE DEF a, b
    <3>3. /\ Min({a, b}) \in Nat /\ Min({a, b}) <= a /\ Min({a, b}) <= b
          /\ Min({a, b}) = a \/ Min({a, b}) = b
      BY <3>1, MinOfTwo
    <3> QED BY <3>1, <3>2, <3>3
  <2>7. ASSUME failures' = 0
        PROVE  Landed' - Len(file') = Landed - Len(file) /\ synced' = synced
    <3>1. \A i \in 1..Len(file) : file[i] # Torn
      BY <1>0, <2>1, <2>7 DEF NothingFailed
    <3>2. Len(Truncated(file)) = Len(file)
      <4>1. CASE Len(Truncated(file)) < Len(file)
        <5>1. Len(file) \in 1..Len(file) /\ Len(file) > Len(Truncated(file))
          BY <1>00, <2>5, <4>1
        <5> QED BY <2>5, <3>1, <5>1
      <4> QED BY <1>00, <2>5, <4>1
    <3>3. synced' = synced
      BY <1>00, <2>1, <2>6, <3>2
    <3> QED BY <2>1, <2>2, <3>2, <3>3
  <2>8. ASSUME NEW n \in synced'..Len(file'), n # Len(file')
        PROVE  /\ n \in synced..Len(file)
               /\ \A k \in Key : Kept(ops', snapshot'[k], file', n, k) = OnDisk(snapshot, file, n, k)
    <3>1. n \in Nat /\ n < Len(file') /\ synced' <= n
      BY <2>1, <2>5, <2>6, <2>8
    <3>2. synced' = synced
      BY <2>1, <2>5, <2>6, <3>1
    <3>3. n \in synced..Len(file) /\ n \in 0..Len(file) /\ n <= Len(Truncated(file))
      BY <1>00, <2>1, <2>5, <3>1, <3>2
    <3> DEFINE u == Truncated(file)
    <3>4. u \in Seq(Nat) /\ n <= Len(u) /\ \A i \in 1..n : u[i] = file[i]
      BY <2>5, <3>3
    <3> HIDE DEF u
    <3>5. \A k \in Key : Kept(ops, snapshot[k], u, n, k) = Kept(ops, snapshot[k], file, n, k)
      BY <1>00, <3>3, <3>4, KeptSame
    <3> QED BY <2>1, <3>3, <3>5 DEF OnDisk, u
  <2>9. Landed <= Landed'
    BY <1>00, <2>2
  <2> QED BY <1>0, <1>00, <2>3, <2>4, <2>7, <2>8, <2>9, PrefixStep
<1>4. CASE powerLoss
  <2>1. AllSynced'
    BY <1>4 DEF powerLoss, AllSynced
  <2> QED BY <1>1, <2>1
<1> QED BY <1>2, <1>3, <1>4 DEF DbNext

-----------------------------------------------------------------------------
(***************************************************************************)
(* The snapshot and the tail, while they are written.                      *)
(***************************************************************************)
\* A frame more behind the fence, or a torn one.
LEMMA BehindStep ==
  ASSUME Basic, Basic', NEW F \in 0..Landed, Behind(F), comp'.base = comp.base,
         comp.base <= Len(file), Landed <= Landed', Len(file) <= Len(file'),
         \A i \in 1..Len(log) : log'[i] = log[i],
         \A p \in 1..Len(file) : file'[p] = file[p],
         \A p \in 1..Len(file') : p > Len(file) =>
           \/ file'[p] = Torn
           \/ p = Len(file) + 1 /\ Landed' = Landed + 1 /\ file'[p] = log'[Landed'],
         \A i \in 1..Landed' : i > Landed =>
           \/ Failed(Ctx', i)
           \/ Len(file) + 1 <= Len(file') /\ file'[Len(file) + 1] = log'[i],
         \A i \in 1..Landed : Failed(Ctx, i) => Failed(Ctx', i)
  PROVE  F \in 0..Landed' /\ Behind(F)'
<1> DEFINE L == Landed
           M == Landed'
           g == file'
           b == comp.base
           d == Ctx'
<1>1. /\ L \in Nat /\ M \in Nat /\ L <= M /\ L <= Len(log) /\ M <= Len(log') /\ b \in Nat
      /\ Len(file) \in Nat /\ Len(g) \in Nat /\ Len(log) \in Nat /\ Len(log') \in Nat
  BY Ranges, RangesNext, CompFields DEF Basic, DbTypeOK
<1>2. /\ \A i, j \in 1..Len(log') : log'[i] = log'[j] => i = j
      /\ \A i \in 1..Len(log') : log'[i] # Torn
  BY DEF Basic, QueueOK, FramesOK, Torn
<1>3. \A i \in 1..L : i \in 1..M /\ i \in 1..Len(log) /\ i \in 1..Len(log') /\ log'[i] = log[i]
  BY <1>1
<1>4. \A p \in 1..Len(g) : p \in 1..Len(file) \/ p > Len(file)
  BY <1>1
<1>5. \A i \in 1..M : i \in 1..L \/ i > L
  BY <1>1
<1>6. ASSUME NEW p \in 1..Len(file), p > b, g[p] # Torn
      PROVE  \E j \in 1..L : j > F /\ g[p] = log'[j]
  <2>1. file[p] # Torn /\ g[p] = file[p]
    BY <1>6
  <2>2. PICK j \in 1..L : j > F /\ file[p] = log[j]
    BY <1>6, <2>1 DEF Behind
  <2> QED BY <1>3, <2>1, <2>2
<1>7. ASSUME NEW p \in 1..Len(g), p > b, g[p] # Torn
      PROVE  \E j \in 1..M : j > F /\ g[p] = log'[j]
  <2>1. CASE p \in 1..Len(file)
    BY <1>3, <1>6, <1>7, <2>1
  <2>2. CASE p > Len(file)
    <3>1. M = L + 1 /\ g[p] = log'[M]
      BY <1>7, <2>2
    <3>2. M \in 1..M /\ M > F
      BY <1>1, <3>1
    <3> QED BY <3>1, <3>2
  <2> QED BY <1>4, <2>1, <2>2
<1>8. ASSUME NEW i \in 1..M, i > F, ~Failed(d, i)
      PROVE  \E p \in 1..Len(g) : p > b /\ g[p] = log'[i]
  <2>1. CASE i \in 1..L
    <3>1. ~Failed(Ctx, i)
      BY <1>8, <2>1
    <3>2. PICK p \in 1..Len(file) : p > b /\ file[p] = log[i]
      BY <1>8, <2>1, <3>1 DEF Behind
    <3>3. p \in 1..Len(g) /\ g[p] = file[p]
      BY <1>1
    <3> QED BY <1>3, <2>1, <3>2, <3>3
  <2>2. CASE i > L
    <3>1. Len(file) + 1 <= Len(g) /\ g[Len(file) + 1] = log'[i]
      BY <1>8, <2>2
    <3>2. Len(file) + 1 \in 1..Len(g) /\ Len(file) + 1 > b
      BY <1>1, <3>1
    <3> QED BY <3>1, <3>2
  <2> QED BY <1>5, <2>1, <2>2
<1>9. ASSUME NEW p \in 1..Len(g), NEW q \in 1..Len(g), NEW i \in 1..M, NEW j \in 1..M,
             b < p, p < q, g[p] = log'[i], g[q] = log'[j]
      PROVE  i < j
  <2>0. i \in 1..Len(log') /\ j \in 1..Len(log')
    BY <1>1
  <2>1. g[p] # Torn /\ g[q] # Torn /\ q > b /\ p > b
    BY <1>1, <1>2, <1>9, <2>0
  <2>2. ASSUME p \in 1..Len(file) PROVE i \in 1..L /\ file[p] = log[i]
    <3>1. PICK x \in 1..L : x > F /\ g[p] = log'[x]
      BY <1>6, <2>1, <2>2
    <3>2. i = x
      <4>1. x \in 1..Len(log') /\ log'[i] = log'[x]
        BY <1>3, <1>9, <3>1
      <4> QED BY <1>2, <2>0, <4>1
    <3> QED BY <1>3, <1>9, <2>2, <3>1, <3>2
  <2>3. CASE q \in 1..Len(file)
    <3>1. p \in 1..Len(file)
      BY <1>1, <1>9, <2>3
    <3>2. PICK x \in 1..L : x > F /\ g[q] = log'[x]
      BY <1>6, <2>1, <2>3
    <3>3. j = x
      <4>1. x \in 1..Len(log') /\ log'[j] = log'[x]
        BY <1>3, <1>9, <3>2
      <4> QED BY <1>2, <2>0, <4>1
    <3>4. j \in 1..L /\ file[q] = log[j]
      BY <1>3, <1>9, <2>3, <3>2, <3>3
    <3>5. i \in 1..L /\ file[p] = log[i]
      BY <2>2, <3>1
    <3> QED BY <1>9, <2>3, <3>1, <3>4, <3>5 DEF Behind
  <2>4. CASE q > Len(file)
    <3>1. q = Len(file) + 1 /\ M = L + 1 /\ g[q] = log'[M]
      BY <2>1, <2>4
    <3>2. j = M
      <4>1. M \in 1..Len(log')
        BY <1>1, <3>1
      <4> QED BY <1>2, <1>9, <2>0, <3>1, <4>1
    <3>3. p \in 1..Len(file)
      BY <1>1, <1>9, <3>1
    <3>4. i \in 1..L
      BY <2>2, <3>3
    <3> QED BY <1>1, <3>1, <3>2, <3>4
  <2> QED BY <1>4, <2>3, <2>4
<1>10. F \in 0..M
  BY <1>1
<1> QED
  BY <1>7, <1>8, <1>9, <1>10 DEF Behind

\* A record of the snapshot stays as good as it was.
LEMMA SnapStep ==
  ASSUME Basic, Basic', StoreOK', NEW F \in 0..Landed, SnapOK(F), Later(Ctx, Ctx', Len(log)),
         Len(log) <= Len(log'), comp'.snap = comp.snap,
         \A k \in Key : Unvisited(k) => k \in comp'.todo \/ store'[k] = 0,
         failures' = 0 => \A k \in Key :
           \/ Shown(expired, store'[k]) = Shown(expired, store[k])
           \/ \E i \in 1..Len(log') : i > F /\ Wrote(Ctx', i, k)
  PROVE  SnapOK(F)'
<1> DEFINE N == Len(log)
           M == Len(log')
           c == Ctx
           d == Ctx'
           s == comp.snap
           Un(k) == k \in comp'.todo /\ s[k] = 0
<1>1. /\ N \in Nat /\ M \in Nat /\ N <= M /\ F \in 0..N
      /\ \A i \in 1..N : i \in 1..M
  <2>1. N \in Nat /\ M \in Nat /\ F \in 0..N
    BY Ranges, RangesNext
  <2> QED BY <2>1
<1>2. ASSUME NEW k \in Key, Un(k) \/ ~Un(k), Unvisited(k), ~Un(k)
      PROVE  s[k] = 0 /\ store'[k] = 0
  BY <1>2 DEF Unvisited
<1>3. /\ expired \subseteq expired' /\ 0 \notin expired' /\ (failures' = 0 => failures = 0)
      /\ \A i \in 1..N : /\ \A k : Wrote(d, i, k) <=> Wrote(c, i, k)
                         /\ Failed(c, i) => Failed(d, i)
      /\ \A k \in Key : Clean(d, k) => Clean(c, k)
  BY CtxFields DEF Later, Wrote
<1>4. ASSUME NEW k \in Key, failures' = 0
      PROVE  \/ \E i \in 1..M : i > F /\ Wrote(d, i, k)
             \/ Un(k)
             \/ Shown(expired', s[k]) = Shown(expired', store'[k])
  <2>1. CASE \E i \in 1..N : i > F /\ Wrote(c, i, k)
    BY <1>1, <1>3, <2>1
  <2>2. CASE Unvisited(k)
    BY <1>2, <2>2
  <2>3. CASE Shown(expired, s[k]) = Shown(expired, store[k])
    <3>1. CASE Shown(expired, store'[k]) = Shown(expired, store[k])
      <4>1. Shown(expired, s[k]) = Shown(expired, store'[k])
        BY <2>3, <3>1
      <4> QED BY <1>3, <4>1 DEF Shown
    <3>2. CASE \E i \in 1..M : i > F /\ Wrote(d, i, k)
      BY <3>2
    <3> QED BY <1>4, <3>1, <3>2
  <2> QED BY <1>3, <1>4, <2>1, <2>2, <2>3 DEF SnapOK
<1>5. ASSUME NEW k \in Key, Clean(d, k), ~Un(k), NEW i \in 1..F, Wrote(d, i, k), ~Failed(d, i)
      PROVE  From(d, s[k], k, i, M)
  <2>1. i \in 1..N /\ i \in 1..M
    BY <1>1
  <2>2. CASE Unvisited(k)
    <3>1. s[k] = store'[k]
      BY <1>2, <1>5, <2>2
    <3>2. Good(d, store'[k], k, M)
      BY DEF StoreOK
    <3> QED BY <1>5, <2>1, <3>1, <3>2 DEF Good, Fits
  <2>3. CASE ~Unvisited(k)
    <3>1. From(c, s[k], k, i, N)
      BY <1>3, <1>5, <2>1, <2>3 DEF SnapOK
    <3> DEFINE v == s[k]
    <3> HIDE DEF c, d, N, v
    <3>2. From(d, v, k, i, N)
      BY <2>1, <3>1, FromLater DEF N, c, d, v
    <3>3. \A j \in i..N : j \in i..M
      BY <1>1
    <3>4. From(d, v, k, i, M)
      BY <3>2, <3>3 DEF From
    <3> QED BY <3>4 DEF v
  <2> QED BY <2>2, <2>3
<1> QED
  BY <1>4, <1>5 DEF SnapOK, Unvisited

\* A key leaves the iteration when its record is gone.
LEMMA TodoStep ==
  ASSUME Basic, comp' = [comp EXCEPT !.todo = Todo(store, store')], store' \in State
  PROVE  /\ comp'.phase = comp.phase /\ comp'.snap = comp.snap /\ comp'.base = comp.base
         /\ comp'.tail = comp.tail /\ comp'.copied = comp.copied
         /\ \A k \in Key : Unvisited(k) => k \in comp'.todo \/ store'[k] = 0
<1>1. comp \in CompType
  BY DEF Basic, DbTypeOK
<1>2. /\ comp'.phase = comp.phase /\ comp'.snap = comp.snap /\ comp'.base = comp.base
      /\ comp'.tail = comp.tail /\ comp'.copied = comp.copied /\ comp'.todo = Todo(store, store')
  BY <1>1 DEF CompType
<1> QED BY <1>2 DEF Todo, Unvisited

\* Every step leaves the snapshot under way repairable by the log behind the fence.
LEMMA CopyNext ==
  ASSUME DbInv, [DbNext]_dbVars
  PROVE  CopyOK'
<1>0. Basic /\ Basic' /\ StoreOK /\ StoreOK' /\ CopyOK /\ DbTypeOK /\ FramesOK /\ CompOK
  BY BasicNext, StoreNext DEF DbInv, Basic
<1>00. /\ Landed \in Nat /\ Landed <= Len(log) /\ Len(log) \in Nat /\ file \in Seq(Nat) /\ Len(file) \in Nat
       /\ comp.base \in Nat /\ comp \in CompType /\ 0 \notin expired /\ store' \in State
       /\ store \in State
  <2>1. comp.base \in Nat /\ comp \in CompType /\ store \in State
    BY <1>0, CompFields DEF DbTypeOK, MemType
  <2>2. store' \in State
    BY <1>0 DEF Basic, DbTypeOK, MemType
  <2> QED BY <1>0, <2>1, <2>2, Ranges
<1> USE DEF opVars, memVars, walVars, diskVars, ghostVars
<1>1. CASE fence
  <2>1. /\ comp'.base = Len(file) /\ comp'.snap = Empty /\ comp'.todo = {k \in Key : store[k] # 0}
        /\ UNCHANGED <<log, file, queue, inflight, landed, store, expired, failures>> /\ Ctx' = Ctx
        /\ Flushed
    BY <1>0, <1>00, <1>1 DEF fence, Phase, CompOK, CompType, Ctx
  <2>2. Landed = Len(log) /\ Landed' = Landed
    <3>1. Len(queue) = 0 /\ Len(inflight) = 0 /\ landed = 0
      BY <1>0, <2>1 DEF Flushed, DbTypeOK, WalType
    <3> QED BY <1>00, <2>1, <3>1 DEF Landed, Taken
  <2> DEFINE F == Len(log)
  <2>3. Behind(F)'
    <3>1. \A p \in 1..Len(file) : ~(p > Len(file))
      BY <1>00
    <3>2. \A i \in 1..Len(log) : ~(i > Len(log))
      BY <1>00
    <3> HIDE DEF F
    <3>3. ~\E p \in 1..Len(file) : p > comp'.base
      BY <2>1, <3>1
    <3>4. ~\E i \in 1..Landed' : i > F
      BY <2>2, <3>2 DEF F
    <3>5. F' = F /\ file' = file
      BY <2>1 DEF F
    <3>6. \A p \in 1..Len(file) : comp'.base < p => p > comp'.base
      BY <1>00, <2>1
    <3> QED BY <3>3, <3>4, <3>5, <3>6 DEF Behind
  <2>4. SnapOK(F)'
    <3>1. ASSUME NEW k \in Key PROVE Empty[k] = 0 /\ (store[k] # 0 => k \in comp'.todo)
      BY <2>1, <3>1 DEF Empty
    <3>2. ASSUME NEW k \in Key, store[k] = 0, Clean(Ctx, k), NEW i \in 1..F, Wrote(Ctx, i, k),
                 ~Failed(Ctx, i)
          PROVE  From(Ctx, 0, k, i, Len(log))
      BY <1>0, <3>2 DEF StoreOK, Good, Fits
    <3>3. F' = F
      BY <2>1
    <3> HIDE DEF F
    <3> QED BY <2>1, <3>1, <3>2, <3>3 DEF SnapOK, Unvisited
  <2>5. F' = F /\ F \in 0..Landed'
    BY <1>00, <2>1, <2>2
  <2> HIDE DEF F
  <2>6. \E G \in 0..Landed' : Behind(G)' /\ SnapOK(G)'
    <3> QED
      BY <2>3, <2>4, <2>5 DEF Behind, SnapOK
  <2> QED BY <2>6 DEF CopyOK
<1> SUFFICES ASSUME comp'.phase \in Copying, ~fence PROVE CopyOK'
  BY <1>1 DEF CopyOK
<1>2. comp.phase \in Copying /\ ~kill /\ ~powerLoss /\ ~renameSnapshot /\ ~renameWal
  <2>1. CASE Writers \/ UNCHANGED dbVars
    <3>1. comp'.phase = comp.phase
      BY <1>00, <2>1 DEF Writers, issue, passGate, commit, commitSealed, expire, reap, flushStart,
         flushFrame, flushEnd, flushFails, syncTimer, CompType, dbVars
    <3> QED BY <1>00, <3>1 DEF kill, powerLoss, reopen, NoCompaction, Copying, renameSnapshot,
         renameWal, Phase, CompType
  <2>2. CASE Compaction
    BY <1>00, <2>2, ZenonT(40) DEF Compaction, compact, fence, snapshotKey, snapshotWritten, preCopy, seal, Rotation,
       drainAndClose, renameSnapshot, fsyncDir, renameWal, openFresh, compactFails, NoCompaction,
       Copying, Phase, CompType, kill, powerLoss, reopen
  <2>3. CASE kill \/ powerLoss
    BY <1>00, <2>3 DEF kill, powerLoss, reopen, NoCompaction, Copying, CompType
  <2> QED BY <2>1, <2>2, <2>3 DEF DbNext
<1>3. PICK F \in 0..Landed : Behind(F) /\ SnapOK(F)
  BY <1>0, <1>2 DEF CopyOK
<1>4. /\ comp.base <= Len(file)
      /\ Writers \/ Compaction \/ UNCHANGED dbVars
  <2>1. comp.base <= comp.copied /\ comp.copied <= Len(file) /\ comp.copied \in Nat
    BY <1>0, <1>00, <1>2, CompFields DEF CompOK
  <2> QED BY <1>00, <1>2, <2>1 DEF DbNext
<1>5. /\ Later(Ctx, Ctx', Len(log)) /\ Len(log) <= Len(log')
      /\ \A i \in 1..Len(log) : log'[i] = log[i]
  <2>1. Len(log) \in 0..Len(log)
    BY <1>00
  <2> QED BY <1>0, <1>4, <2>1, LaterNext
<1>6. /\ comp'.base = comp.base
      /\ (\E k \in Key : snapshotKey(k)) \/ comp'.snap = comp.snap
  <2>1. CASE Writers \/ UNCHANGED dbVars
    BY <1>00, <2>1 DEF Writers, issue, passGate, commit, commitSealed, expire, reap, flushStart,
       flushFrame, flushEnd, flushFails, syncTimer, CompType, dbVars
  <2>2. CASE Compaction
    BY <1>00, <1>2, <1>3, <2>2 DEF Compaction, compact, fence, snapshotKey, snapshotWritten, preCopy, seal,
       Rotation, drainAndClose, renameSnapshot, fsyncDir, renameWal, openFresh, compactFails,
       NoCompaction, Copying, Phase, CompType
  <2> QED BY <1>4, <2>1, <2>2
<1>7. F \in 0..Landed' /\ Behind(F)'
  <2>0. \A i \in 1..Landed : Failed(Ctx, i) => Failed(Ctx', i)
    BY <1>00, <1>5 DEF Later
  <2>1. CASE Quiet
    <3>1. file' = file /\ Landed' = Landed
      BY <1>0, <1>4, <2>1, LandedNext DEF Quiet
    <3>2. /\ \A p \in 1..Len(file) : ~(p > Len(file))
          /\ \A i \in 1..Landed : ~(i > Landed)
          /\ Landed <= Landed /\ Len(file) <= Len(file)
      BY <1>00
    <3> QED BY <1>0, <1>3, <1>4, <1>5, <1>6, <2>0, <3>1, <3>2, BehindStep
  <2>2. CASE flushFrame
    <3> DEFINE x == log[Landed + 1]
    <3>1. /\ Landed + 1 \in 1..Len(log) /\ x \in Nat /\ file' = Append(file, x)
          /\ Landed' = Landed + 1 /\ log' = log
      BY <1>0, <2>2, NextFrame
    <3>2. /\ Len(file') = Len(file) + 1 /\ file'[Len(file) + 1] = x
          /\ \A p \in 1..Len(file) : file'[p] = file[p]
      BY <1>00, <3>1, AppendFacts
    <3>3. /\ \A p \in 1..Len(file') : p > Len(file) => p = Len(file) + 1
          /\ \A i \in 1..Landed' : i > Landed => i = Landed + 1
          /\ Landed <= Landed' /\ Len(file) <= Len(file') /\ Len(file) + 1 <= Len(file')
      BY <1>00, <3>1, <3>2
    <3>4. log'[Landed'] = x
      BY <3>1
    <3> HIDE DEF x
    <3>5. \A p \in 1..Len(file') : p > Len(file) =>
            \/ file'[p] = Torn
            \/ p = Len(file) + 1 /\ Landed' = Landed + 1 /\ file'[p] = log'[Landed']
      BY <3>1, <3>2, <3>3, <3>4
    <3>6. \A i \in 1..Landed' : i > Landed =>
            \/ Failed(Ctx', i)
            \/ Len(file) + 1 <= Len(file') /\ file'[Len(file) + 1] = log'[i]
      BY <3>1, <3>2, <3>3, <3>4
    <3> QED BY <1>0, <1>3, <1>4, <1>5, <1>6, <2>0, <3>2, <3>3, <3>5, <3>6, BehindStep
  <2>3. CASE flushFails
    <3>1. /\ Landed <= Landed' /\ Landed' <= Len(log) /\ log' = log
          /\ \A i \in 1..Len(log) : i > Taken /\ i <= Landed' => Failed(Ctx', i)
          /\ file' = file \/ file' = Append(file, Torn)
      BY <1>0, <2>3, FailedBatch
    <3>2. Landed' \in Nat /\ Taken <= Landed /\ Taken \in Nat
      BY <1>0, RangesNext, Ranges
    <3>3. \A i \in 1..Landed' : i > Landed => i \in 1..Len(log) /\ i > Taken /\ i <= Landed'
      BY <1>00, <3>1, <3>2
    <3>4. /\ Len(file) <= Len(file') /\ Len(file') <= Len(file) + 1 /\ Len(file') \in Nat
          /\ \A p \in 1..Len(file) : file'[p] = file[p]
          /\ \A p \in 1..Len(file') : p > Len(file) => file'[p] = Torn
      <4>1. CASE file' = file
        BY <1>00, <4>1
      <4>2. CASE file' = Append(file, Torn)
        <5>1. Torn \in Nat
          BY DEF Torn
        <5>2. /\ Len(Append(file, Torn)) = Len(file) + 1 /\ Append(file, Torn)[Len(file) + 1] = Torn
              /\ \A p \in 1..Len(file) : Append(file, Torn)[p] = file[p]
          BY <1>00, <5>1, AppendFacts
        <5> QED BY <1>00, <4>2, <5>2
      <4> QED BY <3>1, <4>1, <4>2
    <3>5. \A i \in 1..Landed' : i > Landed => Failed(Ctx', i)
      BY <3>1, <3>3
    <3> QED BY <1>0, <1>3, <1>4, <1>5, <1>6, <2>0, <3>1, <3>4, <3>5, BehindStep
  <2> QED BY <1>2, <2>1, <2>2, <2>3 DEF Quiet
<1>8. SnapOK(F)'
  <2>1. CASE \E k \in Key : snapshotKey(k)
    <3>1. PICK k \in Key : snapshotKey(k)
      BY <2>1
    <3>2. /\ comp'.snap = [comp.snap EXCEPT ![k] = View(store)[k]] /\ comp'.todo = comp.todo \ {k}
          /\ UNCHANGED <<log, store, expired, failures>> /\ Ctx' = Ctx
      BY <1>00, <3>1 DEF snapshotKey, CompType, Ctx
    <3>3. comp'.snap[k] = View(store)[k] /\ \A j \in Key : j # k => comp'.snap[j] = comp.snap[j]
      BY <1>00, <3>2, CompFields DEF State
    <3>4. Shown(expired, View(store)[k]) = Shown(expired, store[k])
      BY <1>0, ViewShown
    <3>5. ASSUME Clean(Ctx, k), NEW i \in 1..F, Wrote(Ctx, i, k), ~Failed(Ctx, i)
          PROVE  From(Ctx, View(store)[k], k, i, Len(log))
      <4>1. Good(Ctx, View(store)[k], k, Len(log))
        <5>1. Good(Ctx, store[k], k, Len(log)) /\ Shown(Ctx.expired, View(store)[k]) = Shown(Ctx.expired, store[k])
          BY <1>0, <3>4, CtxFields DEF StoreOK
        <5> QED BY <5>1, GoodShown
      <4>2. i \in 1..Len(log)
        BY <1>00
      <4> QED BY <3>5, <4>1, <4>2 DEF Good, Fits
    <3>6. \A j \in Key : j # k => (j \in comp.todo <=> j \in comp'.todo)
      BY <3>2
    <3>7. ASSUME NEW j \in Key, failures = 0
          PROVE  \/ \E i \in 1..Len(log) : i > F /\ Wrote(Ctx, i, j)
                 \/ j \in comp'.todo /\ comp'.snap[j] = 0
                 \/ Shown(expired, comp'.snap[j]) = Shown(expired, store[j])
      BY <1>3, <3>3, <3>4, <3>6, <3>7 DEF SnapOK, Unvisited
    <3>8. ASSUME NEW j \in Key, Clean(Ctx, j)
          PROVE  \/ j \in comp'.todo /\ comp'.snap[j] = 0
                 \/ \A i \in 1..F : Wrote(Ctx, i, j) /\ ~Failed(Ctx, i) =>
                      From(Ctx, comp'.snap[j], j, i, Len(log))
      <4>1. CASE j = k
        BY <3>3, <3>5, <3>8, <4>1
      <4>2. CASE j # k
        BY <1>3, <3>3, <3>6, <3>8, <4>2 DEF SnapOK, Unvisited
      <4> QED BY <4>1, <4>2
    <3> QED BY <3>2, <3>7, <3>8 DEF SnapOK, Unvisited
  <2>2. CASE ~\E k \in Key : snapshotKey(k)
    <3>1. comp'.snap = comp.snap
      BY <1>6, <2>2
    <3>2. \A k \in Key : Unvisited(k) => k \in comp'.todo \/ store'[k] = 0
      <4>1. CASE comp'.todo = comp.todo
        BY <4>1 DEF Unvisited
      <4>2. CASE comp' = [comp EXCEPT !.todo = Todo(store, store')]
        BY <1>0, <1>00, <4>2, TodoStep
      <4>3. comp'.todo = comp.todo \/ comp' = [comp EXCEPT !.todo = Todo(store, store')]
        <5>1. CASE Writers \/ UNCHANGED dbVars
          BY <5>1 DEF Writers, issue, passGate, commit, commitSealed, expire, reap, flushStart,
             flushFrame, flushEnd, flushFails, syncTimer, dbVars
        <5>2. CASE Compaction
          BY <1>00, <1>2, <1>3, <2>2, <5>2 DEF Compaction, compact, fence, snapshotWritten, preCopy,
             seal, Rotation, drainAndClose, renameSnapshot, fsyncDir, renameWal, openFresh,
             compactFails, NoCompaction, Copying, Phase, CompType
        <5> QED BY <1>4, <5>1, <5>2
      <4> QED BY <4>1, <4>2, <4>3
    <3>3. ASSUME failures' = 0, NEW k \in Key
          PROVE  \/ Shown(expired, store'[k]) = Shown(expired, store[k])
                 \/ \E i \in 1..Len(log') : i > F /\ Wrote(Ctx', i, k)
      <4>1. CASE \E n \in Op : commit(n)
        <5>1. PICK n \in Op : commit(n)
          BY <4>1
        <5>2. /\ log' = Append(log, n) /\ store' = Applied(store, n) /\ ops' = ops
              /\ n \in 1..Len(ops) /\ n \in Nat
          BY <1>0, <5>1 DEF commit, Op, DbTypeOK, OpsType
        <5>3. log \in Seq(Nat) /\ ops[n] \in OpType
          BY <1>0, <5>2 DEF DbTypeOK, OpsType, GhostType
        <5>4. Len(log') = Len(log) + 1 /\ log'[Len(log) + 1] = n
          BY <5>2, <5>3, AppendFacts
        <5>5. CASE ops[n][k] = "keep"
          BY <5>2, <5>5 DEF Applied
        <5>6. CASE ops[n][k] # "keep"
          <6>1. Len(log) + 1 \in 1..Len(log') /\ Len(log) + 1 > F
            BY <1>00, <5>4
          <6>2. Wrote(Ctx', Len(log) + 1, k)
            BY <5>2, <5>4, <5>6, CtxFields DEF Wrote
          <6> QED BY <6>1, <6>2
        <5> QED BY <5>5, <5>6
      <4>2. CASE \E n \in Op : commitSealed(n)
        <5>1. store'[k] = store[k] \/ store'[k] = View(store)[k]
          BY <4>2 DEF commitSealed
        <5> QED BY <1>0, <5>1, ViewShown
      <4>3. CASE \E j \in Key : reap(j)
        <5>1. store'[k] = store[k] \/ (store'[k] = 0 /\ store[k] \in expired)
          BY <1>00, <4>3 DEF reap, State
        <5> QED BY <1>00, <5>1 DEF Shown
      <4>4. CASE flushFails
        BY <1>0, <3>3, <4>4, FailedBatch
      <4>5. CASE store' = store
        BY <4>5
      <4>6. \/ \E n \in Op : commit(n) \/ commitSealed(n)
            \/ (\E j \in Key : reap(j)) \/ flushFails \/ store' = store
        BY <1>4 DEF Writers, issue, passGate, expire, flushStart, flushFrame, flushEnd, syncTimer,
           dbVars, Compaction, compact, fence, snapshotKey, snapshotWritten, preCopy, seal,
           Rotation, drainAndClose, renameSnapshot, fsyncDir, renameWal, openFresh, compactFails
      <4> QED BY <4>1, <4>2, <4>3, <4>4, <4>5, <4>6
    <3> QED BY <1>0, <1>3, <1>5, <3>1, <3>2, <3>3, SnapStep
  <2> QED BY <2>1, <2>2
<1>9. \E G \in 0..Landed' : Behind(G)' /\ SnapOK(G)'
  BY <1>7, <1>8
<1> QED BY <1>9 DEF CopyOK

-----------------------------------------------------------------------------
(***************************************************************************)
(* The files, while they are swapped.                                      *)
(***************************************************************************)
LEMMA KeptDecided ==
  ASSUME NEW o, NEW v, NEW w \in Seq(Nat), NEW n \in 0..Len(w), NEW k, NEW j \in 1..n,
         Touches(o, w[j], k), \A i \in 1..n : Touches(o, w[i], k) => i <= j
  PROVE  Kept(o, v, w, n, k) = Put(o, w[j], k)
<1>1. \/ (\A i \in 1..n : ~Touches(o, w[i], k)) /\ Kept(o, v, w, n, k) = v
      \/ \E i \in 1..n :
           /\ Touches(o, w[i], k)
           /\ \A h \in 1..n : Touches(o, w[h], k) => h <= i
           /\ Kept(o, v, w, n, k) = Put(o, w[i], k)
  BY KeptCases
<1>2. PICK i \in 1..n : /\ Touches(o, w[i], k)
                        /\ \A h \in 1..n : Touches(o, w[h], k) => h <= i
                        /\ Kept(o, v, w, n, k) = Put(o, w[i], k)
  BY <1>1
<1>3. i <= j /\ j <= i
  BY <1>2
<1>4. i = j
  BY <1>3
<1> QED BY <1>2, <1>4

\* The last operation of the log that touches a key decides.
LEMMA LogDecided ==
  ASSUME Basic, NEW k \in Key, NEW j \in 1..Len(log), Touches(ops, log[j], k),
         \A i \in 1..Len(log) : Touches(ops, log[i], k) => i <= j
  PROVE  Kept(ops, base[k], log, Len(log), k) = Put(ops, log[j], k)
<1> DEFINE v == base[k]
           n == Len(log)
<1>1. log \in Seq(Nat)
  BY Ranges
<1>2. n \in 0..Len(log)
  BY <1>1
<1>3. j \in 1..n /\ \A i \in 1..n : Touches(ops, log[i], k) => i <= j
  OBVIOUS
<1> HIDE DEF v, n
<1>4. Kept(ops, v, log, n, k) = Put(ops, log[j], k)
  BY <1>1, <1>2, <1>3, KeptDecided
<1> QED BY <1>4 DEF v, n

\* Positions of a file behind the first b.
LEMMA ShiftFacts ==
  ASSUME NEW b \in Nat, NEW n \in Nat, NEW t, b <= n, t = n - b
  PROVE  /\ \A p \in 1..n : p > b => p - b \in 1..t /\ b + (p - b) = p
         /\ \A q \in 1..t : b + q \in 1..n /\ b + q > b /\ b < b + q
         /\ \A q, r \in 1..t : q < r => b + q < b + r
<1> QED OBVIOUS

\* The snapshot with the tail behind the fence is the store, once the queue
\* is drained.
LEMMA SealedTail ==
  ASSUME DbInv, comp.phase = "drain", Flushed, NEW F \in 0..Landed, Behind(F), SnapOK(F),
         NEW t \in Seq(Nat), Len(t) = Len(file) - comp.base,
         \A i \in 1..Len(t) : t[i] = file[comp.base + i], NEW k \in Key
  PROVE  Good(Ctx, Kept(ops, comp.snap[k], t, Len(t), k), k, Len(log))
<1> DEFINE N == Len(log)
           b == comp.base
           s == comp.snap[k]
           c == Ctx
           v == Kept(ops, s, t, Len(t), k)
<1>0. Basic /\ StoreOK /\ NothingFailed /\ CompOK /\ DbTypeOK /\ FramesOK /\ QueueOK
  BY DEF DbInv, Basic
<1>1. /\ N \in Nat /\ b \in Nat /\ Len(file) \in Nat /\ Len(t) \in Nat /\ b <= Len(file) /\ F \in 0..N
      /\ Landed = N /\ log \in Seq(Nat)
  <2>1. Landed = N
    <3>1. Len(queue) = 0 /\ Len(inflight) = 0 /\ landed = 0
      BY <1>0 DEF Flushed, DbTypeOK, WalType
    <3> QED BY <1>0, <3>1, Ranges DEF Landed, Taken
  <2>2. b \in Nat /\ b <= comp.copied /\ comp.copied <= Len(file) /\ comp.copied \in Nat
    BY <1>0, CompFields DEF CompOK, DbTypeOK, Copying
  <2> QED BY <1>0, <2>1, <2>2, Ranges
<1>11. /\ \A p \in 1..Len(file) : p > b => p - b \in 1..Len(t) /\ b + (p - b) = p
       /\ \A q \in 1..Len(t) : b + q \in 1..Len(file) /\ b + q > b /\ b < b + q
       /\ \A q, r \in 1..Len(t) : q < r => b + q < b + r
  <2> DEFINE n == Len(file)
             m == Len(t)
  <2>1. b \in Nat /\ n \in Nat /\ b <= n /\ m = n - b
    BY <1>1
  <2> HIDE DEF b, n, m
  <2>2. /\ \A p \in 1..n : p > b => p - b \in 1..m /\ b + (p - b) = p
        /\ \A q \in 1..m : b + q \in 1..n /\ b + q > b /\ b < b + q
        /\ \A q, r \in 1..m : q < r => b + q < b + r
    BY <2>1, ShiftFacts
  <2> QED BY <2>2 DEF n, m
<1>12. \A q \in 1..Len(t) : t[q] = file[b + q]
  OBVIOUS
<1>2. /\ \A i, j \in 1..N : log[i] = log[j] => i = j
      /\ \A i \in 1..N : log[i] # Torn /\ log[i] \in Nat
  BY <1>0, <1>1 DEF QueueOK, FramesOK, Torn, DbTypeOK, OpsType
<1>3. ~Unvisited(k)
  BY <1>0 DEF Unvisited, CompOK
<1>4. \A i \in 1..N : Wrote(c, i, k) <=> Touches(ops, log[i], k)
  BY <1>2, CtxFields DEF Wrote, Touches
\* An operation behind the fence that has not failed is in the tail.
<1>5. ASSUME NEW i \in 1..N, i > F, Wrote(c, i, k), ~Failed(c, i)
      PROVE  \E q \in 1..Len(t) : t[q] = log[i] /\ Touches(ops, t[q], k)
  <2>1. PICK p \in 1..Len(file) : p > b /\ file[p] = log[i]
    BY <1>1, <1>5 DEF Behind
  <2>2. p - b \in 1..Len(t) /\ b + (p - b) = p
    BY <1>11, <2>1
  <2>3. t[p - b] = log[i]
    BY <1>12, <2>1, <2>2
  <2> QED BY <1>4, <1>5, <2>2, <2>3
\* Touching frames of the tail come in the order of the log.
<1>6. ASSUME NEW q \in 1..Len(t), Touches(ops, t[q], k)
      PROVE  \E j \in 1..N : j > F /\ t[q] = log[j] /\ Wrote(c, j, k)
  <2>1. b + q \in 1..Len(file) /\ b + q > b /\ t[q] = file[b + q]
    BY <1>11, <1>12
  <2>2. file[b + q] # Torn
    BY <1>6, <2>1 DEF Touches
  <2>3. PICK j \in 1..N : j > F /\ file[b + q] = log[j]
    BY <1>1, <2>1, <2>2 DEF Behind
  <2> QED BY <1>4, <1>6, <2>1, <2>3
<1>7. ASSUME NEW q \in 1..Len(t), NEW r \in 1..Len(t), NEW i \in 1..N, NEW j \in 1..N,
             t[q] = log[i], t[r] = log[j], q < r
      PROVE  i < j
  <2>1. /\ b + q \in 1..Len(file) /\ b + r \in 1..Len(file) /\ b < b + q /\ b + q < b + r
        /\ file[b + q] = log[i] /\ file[b + r] = log[j]
    BY <1>7, <1>11, <1>12
  <2> DEFINE x == b + q
             y == b + r
  <2>2. /\ x \in 1..Len(file) /\ y \in 1..Len(file) /\ comp.base < x /\ x < y
        /\ file[x] = log[i] /\ file[y] = log[j]
    BY <2>1
  <2>3. i \in 1..Landed /\ j \in 1..Landed
    BY <1>1
  <2> HIDE DEF x, y
  <2> QED BY <2>2, <2>3 DEF Behind
<1>8. \/ (\A i \in 1..Len(t) : ~Touches(ops, t[i], k)) /\ v = s
      \/ \E i \in 1..Len(t) :
           /\ Touches(ops, t[i], k)
           /\ \A j \in 1..Len(t) : Touches(ops, t[j], k) => j <= i
           /\ v = Put(ops, t[i], k)
  <2> DEFINE n == Len(t)
  <2>1. n \in 0..Len(t)
    BY <1>1
  <2> HIDE DEF n, s
  <2>2. \/ (\A i \in 1..n : ~Touches(ops, t[i], k)) /\ Kept(ops, s, t, n, k) = s
        \/ \E i \in 1..n :
             /\ Touches(ops, t[i], k)
             /\ \A j \in 1..n : Touches(ops, t[j], k) => j <= i
             /\ Kept(ops, s, t, n, k) = Put(ops, t[i], k)
    BY <2>1, KeptCases
  <2> QED BY <2>2 DEF n
<1>9. CASE (\A i \in 1..Len(t) : ~Touches(ops, t[i], k)) /\ v = s
  <2>1. \A i \in 1..N : i > F /\ Wrote(c, i, k) => Failed(c, i)
    BY <1>5, <1>9
  <2>2. ASSUME failures = 0 PROVE Exact(c, s, k, N)
    <3>1. \A i \in 1..N : ~Failed(c, i)
      BY <1>0, <2>2 DEF NothingFailed
    <3>2. Shown(expired, s) = Shown(expired, store[k])
      BY <1>3, <2>1, <2>2, <3>1 DEF SnapOK
    <3>3. Exact(c, store[k], k, N)
      BY <1>0, <2>2, CtxFields DEF StoreOK, Good
    <3>4. Shown(c.expired, s) = Shown(c.expired, store[k])
      BY <3>2, CtxFields
    <3> HIDE DEF s, c, N
    <3> QED BY <3>3, <3>4, GoodShown
  <2>3. ASSUME Clean(c, k), NEW i \in 1..N, Wrote(c, i, k), ~Failed(c, i)
        PROVE  From(c, s, k, i, N)
    <3>1. i \in 1..F
      BY <1>1, <2>1, <2>3
    <3> QED BY <1>3, <2>3, <3>1 DEF SnapOK
  <2>4. Good(c, s, k, N)
    BY <2>2, <2>3, CtxFields DEF Good, Fits
  <2> QED BY <1>9, <2>4
<1>10. ASSUME NEW q \in 1..Len(t), Touches(ops, t[q], k),
              \A j \in 1..Len(t) : Touches(ops, t[j], k) => j <= q, v = Put(ops, t[q], k)
       PROVE  Good(c, v, k, N)
  <2>1. PICK j \in 1..N : j > F /\ t[q] = log[j] /\ Wrote(c, j, k)
    BY <1>6, <1>10
  <2>2. ASSUME NEW i \in 1..N, i > j, Wrote(c, i, k), ~Failed(c, i) PROVE FALSE
    <3>1. i > F
      BY <1>1, <2>1, <2>2
    <3>2. PICK r \in 1..Len(t) : t[r] = log[i] /\ Touches(ops, t[r], k)
      BY <1>5, <2>2, <3>1
    <3>3. r <= q
      BY <1>10, <3>2
    <3>4. r # q
      <4>1. log[i] # log[j]
        <5>1. i # j
          BY <2>2
        <5> QED BY <1>2, <5>1
      <4> QED BY <2>1, <3>2, <4>1
    <3>5. r < q
      BY <1>1, <3>3, <3>4
    <3>6. i < j
      BY <1>7, <2>1, <3>2, <3>5
    <3> QED BY <2>2, <3>6
  <2>3. ASSUME failures = 0 PROVE Exact(c, v, k, N)
    <3>1. \A i \in 1..N : ~Failed(c, i)
      BY <1>0, <2>3 DEF NothingFailed
    <3>2. \A i \in 1..N : Touches(ops, log[i], k) => i <= j
      BY <1>4, <2>2, <3>1
    <3>3. Touches(ops, log[j], k)
      BY <1>4, <2>1
    <3>5. Kept(ops, base[k], log, Len(log), k) = Put(ops, log[j], k)
      BY <1>0, <3>2, <3>3, LogDecided
    <3>6. v = Put(ops, log[j], k)
      BY <1>10, <2>1
    <3> HIDE DEF v
    <3> QED BY <3>5, <3>6, CtxFields DEF Exact
  <2>4. ASSUME Clean(c, k), NEW i \in 1..N, Wrote(c, i, k), ~Failed(c, i)
        PROVE  From(c, v, k, i, N)
    <3>1. j \in i..N
      <4>1. ~(i > j)
        BY <2>2, <2>4
      <4> QED BY <1>1, <4>1
    <3>2. v = Put(c.ops, c.log[j], k)
      BY <1>10, <2>1, CtxFields
    <3> HIDE DEF v, c
    <3> QED BY <2>1, <3>1, <3>2 DEF From
  <2> QED BY <2>3, <2>4, CtxFields DEF Good, Fits
<1> QED BY <1>8, <1>9, <1>10

\* Every step leaves pairs of files of which each will do.
LEMMA SwapNext ==
  ASSUME DbInv, [DbNext]_dbVars
  PROVE  SwapOK'
<1>0. /\ Basic /\ Basic' /\ SwapOK /\ CopyOK /\ DiskOK /\ CompOK /\ DbTypeOK /\ FramesOK
  BY BasicNext DEF DbInv, Basic
<1>00. /\ file \in Seq(Nat) /\ Len(file) \in 0..Len(file) /\ comp \in CompType /\ comp.tail \in Seq(Nat)
       /\ Len(comp.tail) \in 0..Len(comp.tail) /\ Len(log) \in 0..Len(log) /\ oldWal \subseteq Seq(Nat)
       /\ \A i \in 1..Len(file) : file[i] \in 0..Len(ops)
       /\ \A i \in 1..Len(comp.tail) : comp.tail[i] \in 0..Len(ops)
       /\ \A w \in oldWal : \A i \in 1..Len(w) : w[i] \in 0..Len(ops)
  <2>1. file \in Seq(Nat) /\ comp \in CompType /\ oldWal \subseteq Seq(Nat) /\ log \in Seq(Nat)
    BY <1>0 DEF DbTypeOK, DiskType, GhostType
  <2>2. comp.tail \in Seq(Nat)
    BY <2>1, CompFields
  <2>3. Len(file) \in Nat /\ Len(comp.tail) \in Nat /\ Len(log) \in Nat
    BY <2>1, <2>2
  <2>4. /\ Len(file) \in 0..Len(file) /\ Len(comp.tail) \in 0..Len(comp.tail)
        /\ Len(log) \in 0..Len(log)
    BY <2>3
  <2>5. /\ \A i \in 1..Len(file) : file[i] \in 0..Len(ops)
        /\ \A i \in 1..Len(comp.tail) : comp.tail[i] \in 0..Len(ops)
        /\ \A w \in oldWal : \A i \in 1..Len(w) : w[i] \in 0..Len(ops)
    BY <1>0 DEF FramesOK
  <2> QED BY <2>1, <2>2, <2>4, <2>5
<1> USE DEF opVars, memVars, walVars, diskVars, ghostVars
\* A pair of files that is right stays so.
<1>1. ASSUME Writers \/ Compaction \/ UNCHANGED dbVars, NEW s, NEW w \in Seq(Nat),
             \A i \in 1..Len(w) : w[i] \in 0..Len(ops), NEW k \in Key,
             Good(Ctx, OnDisk(s, w, Len(w), k), k, Len(log))
      PROVE  Good(Ctx', Kept(ops', s[k], w, Len(w), k), k, Len(log))
  <2> DEFINE n == Len(w)
             m == Len(log)
  <2>1. n \in 0..Len(w) /\ m \in 0..Len(log) /\ Good(Ctx, Kept(ops, s[k], w, n, k), k, m)
    BY <1>00, <1>1 DEF OnDisk
  <2> HIDE DEF n, m
  <2>2. Good(Ctx', Kept(ops', s[k], w, n, k), k, m)
    BY <1>0, <1>1, <2>1, FilesLater
  <2> QED BY <2>2 DEF n, m
<1>2. CASE drainAndClose
  <2>1. /\ comp'.phase = "renameSnap" /\ comp'.snap = comp.snap /\ comp'.tail = comp.tail \o Gap
        /\ file' = file /\ ops' = ops /\ Ctx' = Ctx /\ log' = log /\ comp.phase = "drain" /\ Flushed
    BY <1>00, <1>2 DEF drainAndClose, CompType, Ctx, Phase
  <2>2. PICK F \in 0..Landed : Behind(F) /\ SnapOK(F)
    BY <1>0, <2>1 DEF CopyOK, Copying
  <2> DEFINE t == comp.tail \o Gap
  <2>3. t \in Seq(Nat) /\ Len(t) = Len(file) - comp.base /\ \A i \in 1..Len(t) : t[i] = file[comp.base + i]
    <3> DEFINE w == comp.tail
               u == Gap
               b == comp.base
               c == comp.copied
    <3>1. /\ b <= c /\ c <= Len(file) /\ Len(w) = c - b /\ \A i \in 1..Len(w) : w[i] = file[b + i]
      BY <1>0, <2>1 DEF CompOK, Copying
    <3>2. w \in Seq(Nat) /\ u \in Seq(Nat) /\ b \in Nat /\ c \in Nat /\ w \o u \in Seq(Nat)
      BY <1>0, <1>00, GapFacts, CompFields DEF DbTypeOK
    <3>3. Len(u) = Len(file) - c /\ \A i \in 1..Len(u) : u[i] = file[c + i]
      BY <1>0, <1>00, <3>1, GapFacts DEF DbTypeOK
    <3>5. /\ w \in Seq(Nat) /\ u \in Seq(Nat) /\ file \in Seq(Nat) /\ b \in Nat /\ c \in Nat
          /\ b <= c /\ c <= Len(file) /\ Len(w) = c - b /\ Len(u) = Len(file) - c
          /\ \A i \in 1..Len(w) : w[i] = file[b + i]
          /\ \A i \in 1..Len(u) : u[i] = file[c + i]
      BY <1>00, <3>1, <3>2, <3>3
    <3> HIDE DEF w, u, b, c
    <3>4. /\ b <= Len(file) /\ Len(w \o u) = Len(file) - b
          /\ \A i \in 1..Len(w \o u) : (w \o u)[i] = file[b + i]
      BY <3>5, CatShift, ZenonT(40)
    <3> QED BY <3>2, <3>4 DEF w, u, b, c
  <2>4. Landed = Len(log)
    <3>1. Len(queue) = 0 /\ Len(inflight) = 0 /\ landed = 0
      BY <1>0, <2>1 DEF Flushed, DbTypeOK, WalType
    <3> QED BY <1>0, <3>1, Ranges DEF Landed, Taken
  <2> HIDE DEF t
  <2>5. ASSUME NEW k \in Key
        PROVE  Good(Ctx, Kept(ops, comp.snap[k], t, Len(t), k), k, Len(log))
    BY <2>1, <2>2, <2>3, SealedTail
  <2>6. ASSUME NEW k \in Key
        PROVE  Good(Ctx, Kept(ops, comp.snap[k], file, Len(file), k), k, Len(log))
    <3> DEFINE n == Len(file)
               s == comp.snap[k]
               o == snapshot[k]
    <3>1. Good(Ctx, Kept(ops, o, file, n, k), k, Len(log))
      BY <1>0, <2>4 DEF DiskOK, OnDisk
    <3>2. n \in 0..Len(file)
      BY <1>00
    <3>3. \/ Kept(ops, s, file, n, k) = Kept(ops, o, file, n, k)
          \/ (\A i \in 1..n : ~Touches(ops, file[i], k)) /\ Kept(ops, s, file, n, k) = s
      <4>0. file \in Seq(Nat)
        BY <1>00
      <4> HIDE DEF n, s, o
      <4>1. \/ (\A i \in 1..n : ~Touches(ops, file[i], k)) /\ Kept(ops, s, file, n, k) = s
            \/ \E i \in 1..n :
                 /\ Touches(ops, file[i], k)
                 /\ \A h \in 1..n : Touches(ops, file[h], k) => h <= i
                 /\ Kept(ops, s, file, n, k) = Put(ops, file[i], k)
        BY <4>0, <3>2, KeptCases
      <4>2. ASSUME NEW i \in 1..n, Touches(ops, file[i], k),
                   \A h \in 1..n : Touches(ops, file[h], k) => h <= i
            PROVE  Kept(ops, o, file, n, k) = Put(ops, file[i], k)
        BY <4>0, <3>2, <4>2, KeptDecided
      <4> QED BY <4>1, <4>2
    <3>4. CASE (\A i \in 1..n : ~Touches(ops, file[i], k)) /\ Kept(ops, s, file, n, k) = s
      <4>1. \A i \in 1..Len(t) : ~Touches(ops, t[i], k)
        <5>1. comp.base \in Nat /\ comp.base <= Len(file) /\ Len(t) = Len(file) - comp.base
          <6>1. comp.base <= comp.copied /\ comp.copied <= Len(file) /\ comp.base \in Nat /\ comp.copied \in Nat
            BY <1>0, <1>00, <2>1, CompFields DEF CompOK, Copying
          <6> QED BY <1>00, <2>3, <6>1
        <5>2. \A q \in 1..Len(t) : comp.base + q \in 1..Len(file)
          BY <1>00, <5>1, ShiftFacts, SMTT(30)
        <5> QED BY <2>3, <3>4, <5>2
      <4>2. Kept(ops, s, t, Len(t), k) = s
        <5> DEFINE m == Len(t)
        <5>1. m \in 0..Len(t) /\ \A i \in 1..m : ~Touches(ops, t[i], k)
          BY <2>3, <4>1
        <5> HIDE DEF m, s
        <5>2. Kept(ops, s, t, m, k) = s
          BY <2>3, <5>1, KeptCases
        <5> QED BY <5>2 DEF m
      <4> QED BY <2>5, <3>4, <4>2
    <3> QED BY <3>1, <3>3, <3>4
  <2> QED BY <2>1, <2>5, <2>6 DEF SwapOK, OnDisk, t
<1>3. CASE renameSnapshot \/ fsyncDir("syncSnap", "renameWal") \/ renameWal
  <2>1. /\ comp.phase \in Swapping /\ comp'.snap = comp.snap /\ comp'.tail = comp.tail
        /\ Ctx' = Ctx /\ ops' = ops /\ log' = log
    BY <1>00, <1>3 DEF renameSnapshot, fsyncDir, renameWal, CompType, Ctx, Phase, Swapping
  <2>2. \A k \in Key :
          /\ Good(Ctx, Kept(ops, comp.snap[k], file, Len(file), k), k, Len(log))
          /\ Good(Ctx, Kept(ops, comp.snap[k], comp.tail, Len(comp.tail), k), k, Len(log))
    BY <1>0, <2>1 DEF SwapOK, OnDisk
  <2>3. CASE renameSnapshot
    <3>1. Landed = Len(log)
      <4>1. Flushed
        BY <1>0, <2>3 DEF renameSnapshot, Phase, CompOK, Sealing
      <4>2. Len(queue) = 0 /\ Len(inflight) = 0 /\ landed = 0
        BY <1>0, <4>1 DEF Flushed, DbTypeOK, WalType
      <4> QED BY <1>0, <4>2, Ranges DEF Landed, Taken
    <3>2. \A k \in Key : Good(Ctx, Kept(ops, snapshot[k], file, Len(file), k), k, Len(log))
      BY <1>0, <3>1 DEF DiskOK, OnDisk
    <3>3. comp'.phase = "syncSnap" /\ oldSnap' = {snapshot} /\ file' = file
      BY <1>00, <2>3 DEF renameSnapshot, CompType
    <3> QED BY <2>1, <2>2, <3>2, <3>3 DEF SwapOK, OnDisk
  <2>4. CASE fsyncDir("syncSnap", "renameWal")
    <3>1. comp'.phase = "renameWal" /\ file' = file
      BY <1>00, <2>4 DEF fsyncDir, CompType
    <3> QED BY <2>1, <2>2, <3>1 DEF SwapOK, OnDisk
  <2>5. CASE renameWal
    <3>1. comp'.phase = "syncWal" /\ oldWal' = {file} /\ snapshot' = comp.snap
      BY <1>0, <1>00, <2>5 DEF renameWal, CompType, CompOK, Phase
    <3> QED BY <2>1, <2>2, <3>1 DEF SwapOK, OnDisk, Swapping
  <2> QED BY <1>3, <2>3, <2>4, <2>5
<1>4. CASE \/ kill \/ powerLoss \/ compact \/ fence \/ snapshotWritten \/ preCopy \/ seal
           \/ fsyncDir("syncWal", "open") \/ openFresh \/ compactFails \/ \E k \in Key : snapshotKey(k)
  <2>1. comp'.phase \notin Swapping \cup {"syncWal"}
    BY <1>00, <1>4 DEF kill, powerLoss, reopen, compact, fence, snapshotWritten, preCopy, seal,
       fsyncDir, openFresh, compactFails, snapshotKey, NoCompaction, CompType, Swapping, Phase
  <2> QED BY <2>1 DEF SwapOK, Swapping
<1>5. CASE Writers \/ UNCHANGED dbVars
  <2>1. /\ comp'.phase = comp.phase /\ comp'.snap = comp.snap /\ comp'.tail = comp.tail
        /\ UNCHANGED <<snapshot, oldSnap, oldWal>>
    BY <1>00, <1>5 DEF Writers, issue, passGate, commit, commitSealed, expire, reap, flushStart,
       flushFrame, flushEnd, flushFails, syncTimer, CompType, dbVars
  <2> SUFFICES ASSUME comp.phase \in Swapping \cup {"syncWal"} PROVE SwapOK'
    BY <2>1 DEF SwapOK, Swapping
  <2>2. sealed /\ Flushed
    BY <1>0 DEF CompOK, Swapping, Sealing
  <2>3. log' = log /\ file' = file
    <3>1. Len(inflight) = 0 /\ landed = 0
      BY <1>0, <2>2 DEF Flushed, DbTypeOK, WalType
    <3>2. ~flushStart /\ ~flushFrame /\ ~flushEnd /\ ~flushFails /\ ~\E n \in Op : commit(n)
      BY <2>2, <3>1 DEF Flushed, flushStart, flushFrame, flushEnd, flushFails, commit
    <3> QED BY <1>5, <3>2 DEF Writers, issue, passGate, commitSealed, expire, reap, syncTimer, dbVars
  <2>4. ASSUME comp.phase \in Swapping, NEW k \in Key
        PROVE  /\ Good(Ctx', Kept(ops', comp.snap[k], file, Len(file), k), k, Len(log))
               /\ Good(Ctx', Kept(ops', comp.snap[k], comp.tail, Len(comp.tail), k), k, Len(log))
    <3>1. /\ Good(Ctx, OnDisk(comp.snap, file, Len(file), k), k, Len(log))
          /\ Good(Ctx, OnDisk(comp.snap, comp.tail, Len(comp.tail), k), k, Len(log))
      BY <1>0, <2>4 DEF SwapOK
    <3> DEFINE s == comp.snap
               w == comp.tail
    <3>2. /\ Good(Ctx, OnDisk(s, file, Len(file), k), k, Len(log))
          /\ Good(Ctx, OnDisk(s, w, Len(w), k), k, Len(log))
          /\ w \in Seq(Nat) /\ \A i \in 1..Len(w) : w[i] \in 0..Len(ops)
      BY <1>00, <3>1
    <3> HIDE DEF s, w
    <3>3. /\ Good(Ctx', Kept(ops', s[k], file, Len(file), k), k, Len(log))
          /\ Good(Ctx', Kept(ops', s[k], w, Len(w), k), k, Len(log))
      BY <1>00, <1>1, <1>5, <3>2
    <3> QED BY <3>3 DEF s, w
  <2>5. ASSUME comp.phase = "syncSnap", NEW s \in oldSnap, NEW k \in Key
        PROVE  Good(Ctx', Kept(ops', s[k], file, Len(file), k), k, Len(log))
    BY <1>0, <1>00, <1>1, <1>5, <2>5 DEF SwapOK
  <2>6. ASSUME comp.phase = "syncWal", NEW w \in oldWal, NEW k \in Key
        PROVE  Good(Ctx', Kept(ops', snapshot[k], w, Len(w), k), k, Len(log))
    BY <1>0, <1>00, <1>1, <1>5, <2>6 DEF SwapOK
  <2> QED BY <2>1, <2>3, <2>4, <2>5, <2>6 DEF SwapOK, OnDisk
<1> QED
  BY <1>2, <1>3, <1>4, <1>5 DEF DbNext, Compaction, Rotation

-----------------------------------------------------------------------------
(***************************************************************************)
(* The invariant, and what it says of recovery.                            *)
(***************************************************************************)
LEMMA DbInvInit == DbInit => DbInv
<1> SUFFICES ASSUME DbInit PROVE DbInv
  OBVIOUS
<1>1. /\ Len(ops) = 0 /\ Len(status) = 0 /\ Len(prev) = 0 /\ Len(queue) = 0 /\ Len(inflight) = 0
      /\ Len(file) = 0 /\ Len(log) = 0 /\ landed = 0 /\ synced = 0
  BY DEF DbInit
<1>2. DbTypeOK
  <2>1. OpsType
    BY <1>1 DEF DbInit, OpsType
  <2>2. MemType
    BY EmptyTypes, MiniDbAssumption DEF DbInit, MemType
  <2>3. WalType
    <3>1. sealed \in BOOLEAN /\ rotateLock \in BOOLEAN
      BY DEF DbInit
    <3>2. queue \in Seq(Nat) /\ inflight \in Seq(Nat)
      BY DEF DbInit
    <3>3. landed \in 0..Len(inflight)
      BY <1>1
    <3> QED BY <3>1, <3>2, <3>3 DEF WalType
  <2>4. DiskType /\ GhostType
    BY <1>1, EmptyTypes DEF DbInit, DiskType, GhostType
  <2> QED BY <2>1, <2>2, <2>3, <2>4, EmptyTypes DEF DbTypeOK, DbInit
<1>3. comp.phase = "none" /\ comp.todo = {} /\ Len(comp.tail) = 0
  BY DEF DbInit, NoCompaction
<1>4. FramesOK
  BY <1>1, <1>3 DEF FramesOK, DbInit
<1>5. Taken = 0 /\ Landed = 0
  BY <1>1 DEF Taken, Landed
<1>6. QueueOK
  BY <1>1 DEF QueueOK
<1>7. CompOK
  BY <1>3 DEF CompOK, DbInit, Sealing, Copying, Swapping
<1>8. Basic
  BY <1>2, <1>4, <1>6, <1>7 DEF Basic
<1>9. ASSUME NEW k \in Key PROVE Good(Ctx, Empty[k], k, 0)
  <2>1. Ctx.log \in Seq(Nat) /\ Ctx.base[k] = Empty[k]
    BY CtxFields DEF DbInit
  <2> DEFINE v == Empty[k]
             c == Ctx
  <2>2. c.log \in Seq(Nat) /\ Shown(c.expired, v) = Shown(c.expired, c.base[k])
    BY <2>1
  <2> HIDE DEF v, c
  <2>3. Good(c, v, k, 0)
    BY <2>2, GoodStart
  <2> QED BY <2>3 DEF v, c
<1>10. StoreOK
  BY <1>1, <1>9 DEF StoreOK, DbInit
<1>11. PrevOK /\ OwnOK
  BY <1>1 DEF PrevOK, OwnOK, DbInit
<1>12. DiskOK
  <2>1. ASSUME NEW k \in Key PROVE Kept(ops, Empty[k], file, 0, k) = Empty[k]
    BY <1>2, KeptNone DEF DbTypeOK, DiskType
  <2> QED BY <1>1, <1>5, <1>9, <2>1 DEF DiskOK, OnDisk, DbInit
<1>13. PrefixOK
  <2>1. AllSynced
    BY <1>1 DEF AllSynced
  <2> QED BY <1>8, <1>12, <2>1, PrefixFull
<1>14. CopyOK /\ SwapOK
  BY <1>3 DEF CopyOK, SwapOK, Copying, Swapping
<1>15. NothingFailed
  BY <1>1 DEF NothingFailed, DbInit
<1> QED
  BY <1>2, <1>4, <1>6, <1>7, <1>10, <1>11, <1>12, <1>13, <1>14, <1>15 DEF DbInv

\* Every step keeps the invariant.
LEMMA DbInvNext == DbInv /\ [DbNext]_dbVars => DbInv'
<1> SUFFICES ASSUME DbInv, [DbNext]_dbVars PROVE DbInv'
  OBVIOUS
<1>1. Basic'
  BY BasicNext DEF DbInv, Basic
<1> QED
  BY <1>1, StoreNext, PrevNext, OwnNext, DiskNext, PrefixNext, CopyNext, SwapNext, NothingFailedNext
     DEF DbInv, Basic

\* The invariant holds in every state of every execution, for any keys,
\* operations and bounds.
THEOREM MiniDbInvariant == DbSpec => []DbInv
<1> QED BY DbInvInit, DbInvNext, PTL DEF DbSpec

\* fsyncDir has made a rename durable before the next one is made, and before the
\* rotation ends.
RenamesSynced ==
  /\ comp.phase \in {"renameWal", "syncWal", "open"} => oldSnap = {}
  /\ comp.phase = "open" => oldWal = {}

\* The fsync comes between the renames in every step of the compaction.
LEMMA RenamesSyncedNext == DbInv /\ RenamesSynced /\ [DbNext]_dbVars => RenamesSynced'
<1> SUFFICES ASSUME DbInv, RenamesSynced, [DbNext]_dbVars PROVE RenamesSynced'
  OBVIOUS
<1> USE DEF opVars, memVars, walVars, diskVars, ghostVars
<1>0. comp \in CompType
  BY DEF DbInv, DbTypeOK, DiskType
<1>1. CASE fsyncDir("syncSnap", "renameWal")
  BY <1>0, <1>1 DEF fsyncDir, CompType, RenamesSynced
<1>2. CASE renameWal
  BY <1>0, <1>2 DEF renameWal, CompType, RenamesSynced, Phase
<1>3. CASE fsyncDir("syncWal", "open")
  BY <1>0, <1>3 DEF fsyncDir, CompType, RenamesSynced
<1>4. CASE \/ kill \/ powerLoss \/ compact \/ fence \/ snapshotWritten \/ preCopy \/ seal \/ drainAndClose
           \/ renameSnapshot \/ openFresh \/ compactFails \/ \E k \in Key : snapshotKey(k)
  <2>1. comp'.phase \notin {"renameWal", "syncWal", "open"}
    BY <1>0, <1>4 DEF kill, powerLoss, reopen, compact, fence, snapshotWritten, preCopy, seal, drainAndClose,
       renameSnapshot, openFresh, compactFails, snapshotKey, NoCompaction, CompType, Phase
  <2> QED BY <2>1 DEF RenamesSynced
<1>5. CASE Writers \/ UNCHANGED dbVars
  <2>1. comp'.phase = comp.phase /\ UNCHANGED <<oldSnap, oldWal>>
    BY <1>0, <1>5 DEF Writers, issue, passGate, commit, commitSealed, expire, reap, flushStart,
       flushFrame, flushEnd, flushFails, syncTimer, CompType, dbVars
  <2> QED BY <2>1 DEF RenamesSynced
<1> QED BY <1>1, <1>2, <1>3, <1>4, <1>5 DEF DbNext, Compaction, Rotation

\* At every moment only the rename that is being fsynced can be undone.
LEMMA RenamesAreSynced == DbSpec => []RenamesSynced
<1>1. DbInit => RenamesSynced
  BY DEF DbInit, NoCompaction, RenamesSynced
<1> QED BY <1>1, RenamesSyncedNext, MiniDbInvariant, PTL DEF DbSpec

\* Recovery from files that hold the first m operations.
LEMMA RecoveredState ==
  ASSUME Basic, NEW s \in State, NEW w \in Seq(Nat), \A i \in 1..Len(w) : w[i] \in 0..Len(ops),
         NEW m \in 0..Len(log), \A k \in Key : Exact(Ctx, OnDisk(s, w, Len(w), k), k, m)
  PROVE  recover(s, w) = View(FoldLeft(Applied, base, SubSeq(log, 1, m)))
<1>1. recover(s, w) = [k \in Key |-> Shown(expired, Kept(ops, s[k], w, Len(w), k))]
  BY RecoverType
<1>2. View(FoldLeft(Applied, base, SubSeq(log, 1, m)))
        = [k \in Key |-> Shown(expired, Kept(ops, base[k], log, m, k))]
  <2>1. base \in State /\ log \in Seq(Nat) /\ ops \in Seq(OpType) /\ \A i \in DOMAIN log : log[i] \in 1..Len(ops)
    BY DEF Basic, DbTypeOK, GhostType, OpsType, FramesOK
  <2> DEFINE b == base
             u == log
  <2>2. b \in State /\ u \in Seq(Nat) /\ m \in 0..Len(u) /\ \A i \in DOMAIN u : u[i] \in 1..Len(ops)
    BY <2>1
  <2> HIDE DEF b, u
  <2>3. View(FoldLeft(Applied, b, SubSeq(u, 1, m)))
          = [k \in Key |-> Shown(expired, Kept(ops, b[k], u, m, k))]
    BY <2>1, <2>2, CommittedIsKept
  <2> QED BY <2>3 DEF b, u
<1>3. \A k \in Key : Shown(expired, Kept(ops, s[k], w, Len(w), k)) = Shown(expired, Kept(ops, base[k], log, m, k))
  BY CtxFields DEF Exact, OnDisk
<1> QED BY <1>1, <1>2, <1>3

\* The last acknowledged operation.
LEMMA LastAckedFacts ==
  ASSUME Basic
  PROVE  /\ LastAcked \in 0..Len(log)
         /\ \A x \in Nat : (\A i \in 1..Len(log) : status[log[i]] = "acked" => i <= x) => LastAcked <= x
<1> DEFINE S == Acked \cup {0}
<1>1. Len(log) \in Nat /\ DOMAIN log = 1..Len(log)
  BY Ranges
<1>2. S \in SUBSET (0..Len(log)) /\ 0 \in S
  BY <1>1 DEF Acked
<1>3. \E x \in S : \A y \in S : y <= x
  <2> DEFINE T == Acked
  <2>1. CASE T = {}
    BY <2>1
  <2>2. CASE T # {}
    <3>1. T \in SUBSET (1..Len(log))
      BY <1>1 DEF Acked
    <3>2. Max(T) \in T /\ \A y \in T : y <= Max(T)
      <4> HIDE DEF T
      <4> QED BY <1>1, <2>2, <3>1, MaxFacts
    <3>3. 0 <= Max(T)
      <4>1. Max(T) \in 1..Len(log)
        BY <3>1, <3>2
      <4> QED BY <1>1, <4>1
    <3> QED BY <3>2, <3>3
  <2> QED BY <2>1, <2>2
<1>4. Max(S) \in S /\ \A y \in S : y <= Max(S)
  <2>1. \E x \in S : \A y \in S : x >= y
    <3>1. PICK x \in S : \A y \in S : y <= x
      BY <1>3
    <3>2. \A y \in S : x >= y
      BY <1>1, <1>2, <3>1
    <3> QED BY <3>2
  <2> HIDE DEF S
  <2>2. Max(S) \in S /\ \A y \in S : Max(S) >= y
    BY <2>1 DEF Max
  <2> QED BY <1>1, <1>2, <2>2
<1>5. LastAcked = Max(S)
  BY DEF LastAcked
<1>6. ASSUME NEW x \in Nat, \A i \in 1..Len(log) : status[log[i]] = "acked" => i <= x
      PROVE  LastAcked <= x
  <2>1. \A y \in S : y <= x
    BY <1>1, <1>6 DEF Acked
  <2> QED BY <1>4, <1>5, <2>1
<1> QED BY <1>2, <1>4, <1>5, <1>6

\* The disks a power failure may leave, and what they recover to.
LEMMA Disks ==
  ASSUME DbInv, RenamesSynced, NEW d \in ProtectedDisks
  PROVE  /\ d.snap \in State /\ d.wal \in Seq(Nat) /\ \A i \in 1..Len(d.wal) : d.wal[i] \in 0..Len(ops)
         /\ \/ \E n \in synced..Len(file) : \A k \in Key :
                 OnDisk(d.snap, d.wal, Len(d.wal), k) = OnDisk(snapshot, file, n, k)
            \/ \A k \in Key : Good(Ctx, OnDisk(d.snap, d.wal, Len(d.wal), k), k, Len(log))
<1>0. Basic /\ SwapOK /\ CompOK /\ DbTypeOK
  BY DEF DbInv, Basic
<1>1. /\ d.snap \in {snapshot} \cup IF Phase("syncSnap") THEN oldSnap ELSE {}
      /\ d.wal \in {SubSeq(file, 1, n) : n \in synced..Len(file)}
                     \cup IF Phase("syncWal") THEN oldWal ELSE {}
  BY DEF ProtectedDisks, SnapRenamed, WalRenamed, RenamesSynced, Phase
<1>2. /\ d.snap \in State /\ d.wal \in Seq(Nat) /\ \A i \in 1..Len(d.wal) : d.wal[i] \in 0..Len(ops)
  <2>1. d \in AfterPowerLoss
    BY DEF ProtectedDisks, SnapRenamed, WalRenamed, AfterPowerLoss
  <2> QED BY <1>0, <2>1, DisksLeft
<1>3. file \in Seq(Nat) /\ Len(file) \in Nat /\ synced \in 0..Len(file)
  BY <1>0 DEF DbTypeOK, DiskType
<1>4. ASSUME NEW n \in synced..Len(file), d.wal = SubSeq(file, 1, n), NEW s
      PROVE  \A k \in Key : OnDisk(s, d.wal, Len(d.wal), k) = OnDisk(s, file, n, k)
  <2> DEFINE f == file
  <2>1. n \in 0..Len(f) /\ f \in Seq(Nat)
    BY <1>3
  <2> HIDE DEF f
  <2>2. \A k \in Key : Kept(ops, s[k], SubSeq(f, 1, n), Len(SubSeq(f, 1, n)), k) = Kept(ops, s[k], f, n, k)
    BY <2>1, KeptPrefix
  <2> QED BY <1>4, <2>2 DEF OnDisk, f
<1>5. CASE d.snap = snapshot /\ \E n \in synced..Len(file) : d.wal = SubSeq(file, 1, n)
  BY <1>2, <1>4, <1>5
<1>6. CASE comp.phase = "syncSnap" /\ d.snap \in oldSnap
  <2>1. PICK n \in synced..Len(file) : d.wal = SubSeq(file, 1, n)
    BY <1>1, <1>6 DEF Phase
  <2>2. n = Len(file)
    <3>1. synced = Len(file)
      BY <1>0, <1>6 DEF CompOK, Swapping
    <3> QED BY <1>3, <3>1
  <2>3. \A k \in Key : Good(Ctx, OnDisk(d.snap, file, Len(file), k), k, Len(log))
    BY <1>0, <1>6 DEF SwapOK
  <2>4. \A k \in Key : OnDisk(d.snap, d.wal, Len(d.wal), k) = OnDisk(d.snap, file, n, k)
    BY <1>4, <2>1
  <2> QED BY <1>2, <2>2, <2>3, <2>4
<1>7. CASE comp.phase = "syncWal" /\ d.wal \in oldWal
  <2>1. d.snap = snapshot
    BY <1>1, <1>7 DEF Phase
  <2>2. \A k \in Key : Good(Ctx, OnDisk(snapshot, d.wal, Len(d.wal), k), k, Len(log))
    BY <1>0, <1>7 DEF SwapOK
  <2> QED BY <1>2, <2>1, <2>2
<1> QED BY <1>1, <1>5, <1>6, <1>7 DEF Phase

\* The invariant says what recovery finds.
LEMMA PrefixFromInv == DbInv /\ RenamesSynced => RecoversAPrefix
<1> SUFFICES ASSUME DbInv, RenamesSynced, failures = 0 PROVE RecoversAPrefix
  BY DEF RecoversAPrefix
<1>0. Basic /\ DiskOK /\ PrefixOK /\ DbTypeOK /\ FramesOK
  BY DEF DbInv, Basic
<1>1. /\ Len(log) \in Nat /\ Landed \in 0..Len(log) /\ Landed \in Nat /\ Len(file) \in Nat
      /\ file \in Seq(Nat) /\ synced \in 0..Len(file) /\ snapshot \in State
      /\ LastAcked \in 0..Len(log)
      /\ \A i \in 1..Len(file) : file[i] \in 0..Len(ops)
  BY <1>0, Ranges, LastAckedFacts DEF DbTypeOK, DiskType, FramesOK
<1>2. ASSUME NEW s \in State, NEW w \in Seq(Nat), \A i \in 1..Len(w) : w[i] \in 0..Len(ops),
             NEW m \in 0..Len(log), \A k \in Key : Exact(Ctx, OnDisk(s, w, Len(w), k), k, m),
             NEW i \in Nat, i <= m
      PROVE  recover(s, w) \in StatesFrom(i)
  <2>1. recover(s, w) = View(FoldLeft(Applied, base, SubSeq(log, 1, m)))
    BY <1>0, <1>2, RecoveredState
  <2>2. m \in i..Len(log)
    BY <1>1, <1>2
  <2> QED BY <2>1, <2>2 DEF StatesFrom
<1>3. LastAcked <= Landed
  <2>1. \A i \in 1..Len(log) : status[log[i]] = "acked" => i <= Landed
    BY <1>0, <1>1, AckedLanded
  <2> QED BY <1>0, <1>1, <2>1, LastAckedFacts
<1>4. recover(snapshot, file) \in StatesFrom(LastAcked)
  <2>1. \A k \in Key : Exact(Ctx, OnDisk(snapshot, file, Len(file), k), k, Landed)
    BY <1>0, CtxFields DEF DiskOK, Good
  <2>2. LastAcked \in Nat
    BY <1>1
  <2> QED BY <1>1, <1>2, <1>3, <2>1, <2>2
<1>5. ASSUME NEW d \in ProtectedDisks
      PROVE  recover(d.snap, d.wal) \in StatesFrom(IF policy = "always" THEN LastAcked ELSE 0)
  <2> DEFINE s == d.snap
             w == d.wal
             i == IF policy = "always" THEN LastAcked ELSE 0
  <2>1. /\ s \in State /\ w \in Seq(Nat) /\ \A h \in 1..Len(w) : w[h] \in 0..Len(ops)
        /\ \/ \E n \in synced..Len(file) : \A k \in Key :
                OnDisk(s, w, Len(w), k) = OnDisk(snapshot, file, n, k)
           \/ \A k \in Key : Good(Ctx, OnDisk(s, w, Len(w), k), k, Len(log))
    BY Disks
  <2>2. i \in Nat /\ i <= Len(log)
    BY <1>1
  <2>3. CASE \A k \in Key : Good(Ctx, OnDisk(s, w, Len(w), k), k, Len(log))
    <3>1. Len(log) \in 0..Len(log) /\ \A k \in Key : Exact(Ctx, OnDisk(s, w, Len(w), k), k, Len(log))
      BY <1>1, <2>3, CtxFields DEF Good
    <3> HIDE DEF s, w, i
    <3>2. recover(s, w) \in StatesFrom(i)
      BY <1>2, <2>1, <2>2, <3>1
    <3> QED BY <3>2 DEF s, w, i
  <2>4. ASSUME NEW n \in synced..Len(file),
               \A k \in Key : OnDisk(s, w, Len(w), k) = OnDisk(snapshot, file, n, k)
        PROVE  recover(d.snap, d.wal) \in StatesFrom(i)
    <3> DEFINE m == Cut(n)
    <3>1. \A k \in Key : Exact(Ctx, OnDisk(s, w, Len(w), k), k, m)
      BY <1>0, <2>4 DEF PrefixOK
    <3>2. Cut(synced) \in Nat /\ Cut(synced) <= m /\ m \in 0..Len(log)
      <4>1. 0 <= Cut(synced)
        BY <1>0 DEF PrefixOK
      <4>2. n \in Nat /\ synced <= n /\ n <= Len(file)
        BY <1>1
      <4> QED BY <1>1, <4>1, <4>2 DEF Cut
    <3>3. i <= m
      <4>1. CASE policy = "always"
        <5>1. \A h \in 1..Len(log) : status[log[h]] = "acked" => h <= Cut(synced)
          BY <1>0, <4>1 DEF PrefixOK
        <5>2. LastAcked <= Cut(synced)
          BY <1>0, <3>2, <5>1, LastAckedFacts
        <5> QED BY <1>1, <3>2, <4>1, <5>2
      <4>2. CASE policy # "always"
        BY <3>2, <4>2
      <4> QED BY <4>1, <4>2
    <3> HIDE DEF s, w, i, m
    <3>4. recover(s, w) \in StatesFrom(i)
      BY <1>2, <2>1, <2>2, <3>1, <3>2, <3>3
    <3> QED BY <3>4 DEF s, w
  <2> QED BY <2>1, <2>3, <2>4
<1> QED BY <1>4, <1>5 DEF RecoversAPrefix

\* The invariant says that acknowledged writes survive.
LEMMA SurviveFromInv == DbInv /\ RenamesSynced => AckedWritesSurvive
<1> SUFFICES ASSUME DbInv, RenamesSynced, NEW d \in CrashDisks, NEW k \in Key, NoFailedDel(k), NEW i \in Acked,
                    Written(i, k)
             PROVE  \E j \in i..Len(log) : Written(j, k) /\ recover(d.snap, d.wal)[k] = ValueBy(j, k)
  BY DEF AckedWritesSurvive, Survives
<1>0. Basic /\ DiskOK /\ PrefixOK /\ DbTypeOK /\ FramesOK
  BY DEF DbInv, Basic
<1>1. /\ log \in Seq(Nat) /\ Len(log) \in Nat /\ Landed \in 0..Len(log) /\ Landed \in Nat
      /\ Len(file) \in Nat /\ file \in Seq(Nat) /\ snapshot \in State /\ 0 \notin expired
      /\ \A h \in 1..Len(file) : file[h] \in 0..Len(ops)
      /\ \A h \in 1..Len(log) : log[h] \in 1..Len(ops)
  <2>1. log \in Seq(Nat) /\ Len(log) \in Nat /\ Landed \in Nat /\ Landed <= Len(log)
    BY <1>0, Ranges
  <2>2. Len(file) \in Nat /\ file \in Seq(Nat) /\ snapshot \in State /\ 0 \notin expired
    BY <1>0, Ranges DEF DbTypeOK, DiskType
  <2>3. /\ \A h \in 1..Len(file) : file[h] \in 0..Len(ops)
        /\ \A h \in 1..Len(log) : log[h] \in 1..Len(ops)
    BY <1>0 DEF FramesOK
  <2> QED BY <2>1, <2>2, <2>3
<1>2. i \in 1..Len(log) /\ status[log[i]] = "acked"
  BY <1>1 DEF Acked
<1>3. Clean(Ctx, k) /\ \A j : Wrote(Ctx, j, k) <=> Written(j, k)
  <2>1. DOMAIN log = 1..Len(log)
    BY <1>1
  <2> QED BY <2>1, CtxFields DEF NoFailedDel, Clean, Failed, Wrote, Written
<1>4. i \in 1..Landed /\ ~Failed(Ctx, i)
  BY <1>0, <1>2, AckedLanded
<1> DEFINE s == d.snap
           w == d.wal
           v == OnDisk(s, w, Len(w), k)
<1>5. /\ s \in State /\ w \in Seq(Nat) /\ \A h \in 1..Len(w) : w[h] \in 0..Len(ops)
      /\ \E m \in 0..Len(log) : From(Ctx, v, k, i, m)
  <2>1. CASE d = AfterKill
    <3>1. s = snapshot /\ w = file
      BY <2>1 DEF AfterKill
    <3>2. Good(Ctx, OnDisk(snapshot, file, Len(file), k), k, Landed)
      BY <1>0 DEF DiskOK
    <3>3. From(Ctx, OnDisk(snapshot, file, Len(file), k), k, i, Landed)
      BY <1>3, <1>4, <3>2 DEF Good, Fits
    <3> QED BY <1>1, <3>1, <3>3
  <2>2. CASE policy = "always" /\ d \in ProtectedDisks
    <3>1. /\ s \in State /\ w \in Seq(Nat) /\ \A h \in 1..Len(w) : w[h] \in 0..Len(ops)
          /\ \/ \E n \in synced..Len(file) : \A j \in Key :
                  OnDisk(s, w, Len(w), j) = OnDisk(snapshot, file, n, j)
             \/ \A j \in Key : Good(Ctx, OnDisk(s, w, Len(w), j), j, Len(log))
      BY <2>2, Disks
    <3>2. CASE \A j \in Key : Good(Ctx, OnDisk(s, w, Len(w), j), j, Len(log))
      <4>1. From(Ctx, v, k, i, Len(log))
        BY <1>2, <1>3, <1>4, <3>2 DEF Good, Fits
      <4>2. Len(log) \in 0..Len(log)
        BY <1>1
      <4> QED BY <3>1, <4>1, <4>2
    <3>3. ASSUME NEW n \in synced..Len(file), v = OnDisk(snapshot, file, n, k)
          PROVE  From(Ctx, v, k, i, Landed)
      BY <1>0, <1>2, <1>3, <2>2, <3>3 DEF PrefixOK
    <3> QED BY <1>1, <3>1, <3>2, <3>3
  <2> QED BY <2>1, <2>2 DEF CrashDisks
<1>6. PICK m \in 0..Len(log) : From(Ctx, v, k, i, m)
  BY <1>5
<1>7. PICK j \in i..m : Wrote(Ctx, j, k) /\ Shown(expired, v) = Shown(expired, Put(ops, log[j], k))
  BY <1>6, CtxFields DEF From
<1>8. j \in i..Len(log) /\ j \in 1..Len(log)
  BY <1>1, <1>2
<1>9. recover(s, w)[k] = Shown(expired, v)
  <2> HIDE DEF s, w
  <2>1. recover(s, w) = [h \in Key |-> Shown(expired, Kept(ops, s[h], w, Len(w), h))]
    BY <1>0, <1>5, RecoverType
  <2> QED BY <2>1, SMTT(30) DEF OnDisk
<1>10. ValueBy(j, k) = Shown(expired, Put(ops, log[j], k))
  <2>1. ops[log[j]] \in OpType /\ ops[log[j]][k] # "keep"
    BY <1>0, <1>1, <1>3, <1>7, <1>8 DEF DbTypeOK, OpsType, Written
  <2>2. Applied(Empty, log[j])[k] = Put(ops, log[j], k)
    BY <2>1 DEF Applied, Put, OpType
  <2> QED BY <1>0, <2>2, ViewShown DEF ValueBy
<1> QED BY <1>3, <1>7, <1>8, <1>9, <1>10

\* The invariant says that memory is what is durable.
LEMMA DurableFromInv == DbInv => MemoryIsDurable
<1> SUFFICES ASSUME DbInv, Flushed, failures = 0 PROVE View(store) = recover(snapshot, file)
  BY DEF MemoryIsDurable
<1>0. Basic /\ DiskOK /\ StoreOK /\ DbTypeOK /\ FramesOK
  BY DEF DbInv, Basic
<1>1. Landed = Len(log)
  <2>1. Len(queue) = 0 /\ Len(inflight) = 0 /\ landed = 0
    BY <1>0 DEF Flushed, DbTypeOK, WalType
  <2> QED BY <1>0, <2>1, Ranges DEF Landed, Taken
<1>2. recover(snapshot, file) = [k \in Key |-> Shown(expired, Kept(ops, snapshot[k], file, Len(file), k))]
  BY <1>0, RecoverType DEF DbTypeOK, DiskType, FramesOK
<1>3. ASSUME NEW k \in Key
      PROVE  Shown(expired, store[k]) = Shown(expired, Kept(ops, snapshot[k], file, Len(file), k))
  <2>1. Exact(Ctx, store[k], k, Len(log)) /\ Exact(Ctx, OnDisk(snapshot, file, Len(file), k), k, Len(log))
    BY <1>0, <1>1, CtxFields DEF StoreOK, DiskOK, Good
  <2> QED BY <2>1, CtxFields DEF Exact, OnDisk
<1>4. View(store) = [k \in Key |-> Shown(expired, store[k])]
  BY DEF View, Shown
<1> QED BY <1>2, <1>3, <1>4

\* compaction.ts, recovery.ts: wherever a crash or a power failure comes, recovery
\* rebuilds the store after a first part of the committed operations, every
\* acknowledged one among them, as long as no write of the log has failed.
THEOREM RecoveryFindsAPrefix == DbSpec => []RecoversAPrefix
<1> QED BY MiniDbInvariant, RenamesAreSynced, PrefixFromInv, PTL

\* runCompaction's catch, restoreKey: whatever writes and compactions fail, a crash
\* takes no key back behind its last acknowledged write, unless a delete of the key
\* has failed.
THEOREM AcknowledgedSurvives == DbSpec => []AckedWritesSurvive
<1> QED BY MiniDbInvariant, RenamesAreSynced, SurviveFromInv, PTL

\* set(), del(), batch(): as long as no write of the log has failed, with nothing
\* on its way to the file the store is what a restart would rebuild.
THEOREM StoreIsDurable == DbSpec => []MemoryIsDurable
<1> QED BY MiniDbInvariant, DurableFromInv, PTL
=============================================================================
