--------------------------- MODULE TurnFlowProofs ---------------------------
(***************************************************************************)
(* Proofs about the turns of a session: which worker is the active turn,   *)
(* for how long the session retries by itself, and that no race of turns,  *)
(* compactions and cancels drops or doubles an input.  They hold for every *)
(* number of inputs, steps, goals, compactions and attempts.               *)
(***************************************************************************)
EXTENDS TurnFlow, QueueLemmas, FiniteSetTheorems

-----------------------------------------------------------------------------
(* The inductive invariant *)

\* The submitted inputs, and what a history is made of: 0 is the model's.
Inputs == 1..Len(origins)
Items == 0..Len(origins)
CompactionType ==
  [pc : {"summarizing", "reinjecting", "done", "failed"}, aborted : BOOLEAN,
   blockedByTurn : BOOLEAN, original : Seq(Nat)]

\* The history and the places of the inputs are of the right types.
ContextOK ==
  /\ origins \in Seq({"user", "note"})
  /\ history \in Seq(Items) /\ parked \in Seq(Items) /\ steerBuffer \in Seq(Inputs)
  /\ refused \subseteq Items /\ summarized \subseteq Items
  /\ withdrawn \subseteq Items /\ lost \subseteq Items /\ dropped \subseteq Items

\* An open tool exchange is that of some worker.
ExchangeOK == exchange \in 0..Len(workers)

\* So are the compactions.
CompactionOK ==
  /\ compactions \in Seq(CompactionType) /\ Len(compactions) <= MaxCompactions
  /\ compacting \in 0..Len(compactions)

\* So are the workers; a step that is under way is within the limit.
WorkerOK(r, id, n) ==
  /\ r \in WorkerType
  /\ r.turn <= id
  /\ \A i \in DOMAIN r.prompt : i = 1 /\ r.prompt[i] \in 0..n
  /\ r.pc \in {"request", "compacting"} => r.steps < MaxSteps
WorkersOK ==
  /\ turnId \in Nat /\ activeTurn \in 0..Len(workers)
  /\ workers \in Seq(WorkerType)
  /\ \A w \in Worker : WorkerOK(workers[w], turnId, Len(origins))

\* The retries of the session, counted against its pauses.  A cancelled turn
\* that completes resets both while a retry may be parked, hence the one more.
ResumeOK ==
  /\ goal \in Goals
  /\ resume \in 0..turnId /\ pauses \in Nat /\ autoResumes \in 0..MaxAttempts
  /\ autoResumes <= pauses + 1
  /\ resume # 0 => autoResumes <= pauses

\* The active turn is one that runs and that nobody cancelled, later turns are
\* those of cancelled workers, and the last turn, when it is not a driver's,
\* finds no other one active.
TurnsOK ==
  /\ OneLiveTurn /\ ParkedForLastTurn
  /\ activeTurn # 0 =>
       /\ Live(activeTurn) /\ ~Aborted(activeTurn)
       /\ \A w \in Worker : workers[w].turn > workers[activeTurn].turn => Aborted(w)
  /\ \A w \in Worker :
       workers[w].turn = turnId /\ ~workers[w].driven => activeTurn \in {0, w}

\* The messages of the session, the parked ones behind the open exchange included.
Line == history \o parked

\* Every input has exactly one place, and occurs there once.
In(n, seq) == \E i \in DOMAIN seq : seq[i] = n
Once(seq) == \A i, j \in DOMAIN seq : seq[i] = seq[j] /\ seq[i] # 0 => i = j
Waits(w, n) == At(w, "prompt") /\ In(n, workers[w].prompt)
Waiting(n) == \E w \in Worker : Waits(w, n)
PlaceNames ==
  {"line", "buffer", "prompt", "refused", "summarized", "withdrawn", "lost", "dropped"}
Home(n, h, hist, buffer) ==
  /\ h \in PlaceNames
  /\ In(n, hist) <=> h = "line"
  /\ In(n, buffer) <=> h = "buffer"
  /\ Waiting(n) <=> h = "prompt"
  /\ n \in refused <=> h = "refused"
  /\ n \in summarized <=> h = "summarized"
  /\ n \in withdrawn <=> h = "withdrawn"
  /\ n \in lost <=> h = "lost"
  /\ n \in dropped <=> h = "dropped"
Placed(hist, buffer) ==
  /\ Once(hist) /\ Once(buffer)
  /\ \A n \in Inputs : \E h \in PlaceNames : Home(n, h, hist, buffer)
WaitsOnce ==
  \A n \in Inputs : \A v, w \in Worker :
    Waits(v, n) /\ Waits(w, n) => v = w
PlacesOK == Placed(Line, steerBuffer) /\ WaitsOnce

\* The inductive invariant.
IInv ==
  ContextOK /\ ExchangeOK /\ CompactionOK /\ WorkersOK /\ ResumeOK /\ TurnsOK /\ PlacesOK

-----------------------------------------------------------------------------
(* Sequences and where an input occurs in them *)

\* A sequence over a set is one over a larger set.
LEMMA WiderSeq ==
  ASSUME NEW S, NEW T, S \subseteq T, NEW s \in Seq(S)
  PROVE  s \in Seq(T)
<1>1. Len(s) \in Nat /\ s \in [1..Len(s) -> S]
  BY LenProperties
<1>2. s \in [1..Len(s) -> T]
  BY <1>1
<1> QED
  BY <1>1, <1>2

\* The members of [...s, x].
LEMMA AppendIn ==
  ASSUME NEW S, NEW s \in Seq(S), NEW x \in S
  PROVE  /\ Append(s, x) \in Seq(S)
         /\ \A n : In(n, Append(s, x)) <=> In(n, s) \/ n = x
         /\ Once(s) /\ (x = 0 \/ ~In(x, s)) => Once(Append(s, x))
<1> DEFINE r == Append(s, x)
<1>1. /\ Len(s) \in Nat /\ DOMAIN s = 1..Len(s)
      /\ r \in Seq(S) /\ DOMAIN r = 1..(Len(s) + 1)
      /\ \A i \in 1..Len(s) : r[i] = s[i]
      /\ r[Len(s) + 1] = x
  BY AppendProperties, LenProperties
<1> HIDE DEF r
<1>2. \A i \in 1..(Len(s) + 1) : i \in 1..Len(s) \/ i = Len(s) + 1
  BY <1>1
<1>3. Len(s) + 1 \in 1..(Len(s) + 1) /\ 1..Len(s) \subseteq 1..(Len(s) + 1)
  BY <1>1
<1>4. \A n : In(n, r) <=> In(n, s) \/ n = x
  BY <1>1, <1>2, <1>3 DEF In
<1>5. ASSUME Once(s), x = 0 \/ ~In(x, s) PROVE Once(r)
  BY <1>1, <1>2, <1>5 DEF Once, In
<1> QED
  BY <1>1, <1>4, <1>5 DEF r

\* The members of [...s, ...t].
LEMMA ConcatIn ==
  ASSUME NEW S, NEW s \in Seq(S), NEW t \in Seq(S)
  PROVE  /\ s \o t \in Seq(S)
         /\ \A n : In(n, s \o t) <=> In(n, s) \/ In(n, t)
         /\ Once(s) /\ Once(t) /\ (\A n : n # 0 => ~(In(n, s) /\ In(n, t))) => Once(s \o t)
<1> DEFINE r == s \o t
<1>1. /\ Len(s) \in Nat /\ Len(t) \in Nat /\ DOMAIN s = 1..Len(s) /\ DOMAIN t = 1..Len(t)
      /\ r \in Seq(S) /\ DOMAIN r = 1..(Len(s) + Len(t))
      /\ \A i \in 1..(Len(s) + Len(t)) :
           r[i] = IF i <= Len(s) THEN s[i] ELSE t[i - Len(s)]
  BY ConcatProperties, LenProperties
<1> HIDE DEF r
<1>2. \A i \in 1..(Len(s) + Len(t)) :
        \/ i \in 1..Len(s) /\ r[i] = s[i]
        \/ i - Len(s) \in 1..Len(t) /\ r[i] = t[i - Len(s)]
  BY <1>1
<1>3. \A i \in 1..Len(s) : i \in 1..(Len(s) + Len(t)) /\ r[i] = s[i]
  BY <1>1
<1>4. \A i \in 1..Len(t) : i + Len(s) \in 1..(Len(s) + Len(t)) /\ r[i + Len(s)] = t[i]
  BY <1>1
<1>5. \A n : In(n, r) <=> In(n, s) \/ In(n, t)
  BY <1>1, <1>2, <1>3, <1>4, ZenonT(30) DEF In
<1>6. ASSUME Once(s), Once(t), \A n : n # 0 => ~(In(n, s) /\ In(n, t)) PROVE Once(r)
  <2> SUFFICES ASSUME NEW i \in 1..(Len(s) + Len(t)), NEW j \in 1..(Len(s) + Len(t)),
                      r[i] = r[j], r[i] # 0
               PROVE  i = j
    BY <1>1 DEF Once
  <2>1. CASE i \in 1..Len(s) /\ j \in 1..Len(s)
    BY <1>1, <1>3, <1>6, <2>1 DEF Once
  <2>2. CASE i - Len(s) \in 1..Len(t) /\ j - Len(s) \in 1..Len(t)
    <3>1. r[i] = t[i - Len(s)] /\ r[j] = t[j - Len(s)]
      BY <1>1, <2>2
    <3>2. i - Len(s) = j - Len(s)
      BY <1>1, <1>6, <2>2, <3>1 DEF Once
    <3> QED
      BY <1>1, <3>2
  <2>3. CASE i \in 1..Len(s) /\ j - Len(s) \in 1..Len(t)
    <3>1. r[i] = s[i] /\ r[j] = t[j - Len(s)]
      BY <1>1, <2>3
    <3> QED
      BY <1>1, <1>6, <2>3, <3>1 DEF In
  <2>4. CASE j \in 1..Len(s) /\ i - Len(s) \in 1..Len(t)
    <3>1. r[j] = s[j] /\ r[i] = t[i - Len(s)]
      BY <1>1, <2>4
    <3> QED
      BY <1>1, <1>6, <2>4, <3>1 DEF In
  <2> QED
    BY <1>2, <2>1, <2>2, <2>3, <2>4
<1> QED
  BY <1>1, <1>5, <1>6 DEF r

\* The members of a queue without its head.
LEMMA TailIn ==
  ASSUME NEW S, NEW s \in Seq(S), s # << >>, Once(s)
  PROVE  /\ Head(s) \in S /\ Tail(s) \in Seq(S) /\ Once(Tail(s))
         /\ \A n : In(n, s) <=> In(n, Tail(s)) \/ n = Head(s)
         /\ Head(s) # 0 => ~In(Head(s), Tail(s))
<1> DEFINE r == Tail(s)
<1>1. /\ Len(s) \in Nat \ {0} /\ DOMAIN s = 1..Len(s) /\ Head(s) = s[1] /\ Head(s) \in S
      /\ r \in Seq(S) /\ DOMAIN r = 1..(Len(s) - 1)
      /\ \A i \in 1..(Len(s) - 1) : r[i] = s[i + 1]
  BY HeadTailProperties, LenProperties, EmptySeq
<1> HIDE DEF r
<1>2. \A i \in 1..Len(s) : i = 1 \/ (i - 1 \in 1..(Len(s) - 1) /\ s[i] = r[i - 1])
  BY <1>1
<1>3. \A i \in 1..(Len(s) - 1) : i + 1 \in 1..Len(s) /\ i + 1 # 1 /\ r[i] = s[i + 1]
  BY <1>1
<1>4. Once(r)
  <2> SUFFICES ASSUME NEW i \in 1..(Len(s) - 1), NEW j \in 1..(Len(s) - 1), r[i] = r[j], r[i] # 0
               PROVE  i = j
    BY <1>1 DEF Once
  <2>1. i + 1 = j + 1
    BY <1>1, <1>3 DEF Once
  <2> QED
    BY <1>1, <2>1
<1>7. 1 \in 1..Len(s)
  BY <1>1
<1>5. \A n : In(n, s) <=> In(n, r) \/ n = Head(s)
  BY <1>1, <1>2, <1>3, <1>7 DEF In
<1>6. Head(s) # 0 => ~In(Head(s), r)
  BY <1>1, <1>3 DEF Once, In
<1> QED
  BY <1>1, <1>4, <1>5, <1>6 DEF r

\* The members of a history without its last item.
LEMMA FrontIn ==
  ASSUME NEW S, NEW s \in Seq(S), s # << >>, Once(s)
  PROVE  /\ Last(s) \in S /\ Front(s) \in Seq(S) /\ Once(Front(s))
         /\ \A n : In(n, s) <=> In(n, Front(s)) \/ n = Last(s)
         /\ Last(s) # 0 => ~In(Last(s), Front(s))
<1> DEFINE r == Front(s)
<1>1. /\ Len(s) \in Nat \ {0} /\ DOMAIN s = 1..Len(s) /\ Last(s) = s[Len(s)]
      /\ \A i \in 1..Len(s) : s[i] \in S
  BY LenProperties, EmptySeq, ElementOfSeq DEF Last
<1>2. /\ r \in Seq(S) /\ DOMAIN r = 1..(Len(s) - 1)
      /\ \A i \in 1..(Len(s) - 1) : r[i] = s[i]
  <2>1. r = SubSeq(s, 1, Len(s) - 1)
    BY DEF Front
  <2>2. r = [i \in 1..(Len(s) - 1) |-> s[i]]
    BY <1>1, <2>1
  <2> HIDE DEF r
  <2>3. r \in [1..(Len(s) - 1) -> S]
    BY <1>1, <2>2
  <2> QED
    BY <1>1, <2>2, <2>3
<1> HIDE DEF r
<1>10. Len(s) \in Nat \ {0}
  BY <1>1
<1>11. \A N \in Nat \ {0} : /\ \A i \in 1..N : i = N \/ i \in 1..(N - 1)
                          /\ \A i \in 1..(N - 1) : i \in 1..N /\ i # N
  OBVIOUS
<1>3. \A i \in 1..Len(s) : i = Len(s) \/ (i \in 1..(Len(s) - 1) /\ s[i] = r[i])
  BY <1>2, <1>10, <1>11
<1>4. \A i \in 1..(Len(s) - 1) : i \in 1..Len(s) /\ i # Len(s) /\ r[i] = s[i]
  BY <1>2, <1>10, <1>11
<1>5. Once(r)
  BY <1>1, <1>2, <1>4 DEF Once
<1>6. Len(s) \in 1..Len(s)
  BY <1>1
<1>7. \A n : In(n, s) <=> In(n, r) \/ n = Last(s)
  BY <1>1, <1>2, <1>3, <1>4, <1>6 DEF In
<1>8. Last(s) # 0 => ~In(Last(s), r)
  BY <1>1, <1>2, <1>4, <1>6 DEF Once, In
<1>9. Last(s) \in S
  BY <1>1, <1>6
<1> QED
  BY <1>2, <1>5, <1>7, <1>8, <1>9 DEF r

\* filter() keeps what is at the positions it keeps, once each.
LEMMA FilteredIn ==
  ASSUME NEW S, NEW s \in Seq(S), NEW K \in SUBSET (DOMAIN s), NEW r \in Filtered(s, K)
  PROVE  /\ r \in Seq(S)
         /\ \A n : In(n, r) <=> \E i \in K : s[i] = n
         /\ Once(s) => Once(r)
<1>1. /\ DOMAIN s = 1..Len(s) /\ Len(s) \in Nat /\ \A i \in DOMAIN s : s[i] \in S
  BY LenProperties, ElementOfSeq
<1>2. IsFiniteSet(K) /\ Cardinality(K) \in Nat
  <2>1. IsFiniteSet(1..Len(s))
    BY <1>1, FS_Interval
  <2> QED
    BY <1>1, <2>1, FS_Subset, FS_CardinalityType
<1>3. PICK f \in Ascending(K) : r = [j \in DOMAIN f |-> s[f[j]]]
  BY DEF Filtered
<1>4. /\ f \in [1..Cardinality(K) -> K] /\ K = {f[i] : i \in DOMAIN f}
      /\ \A i, j \in DOMAIN f : i < j => f[i] < f[j]
  BY DEF Ascending
<1>5. DOMAIN r = DOMAIN f /\ DOMAIN f = 1..Cardinality(K)
      /\ \A j \in DOMAIN f : r[j] = s[f[j]] /\ f[j] \in K
  BY <1>3, <1>4
<1>6. r \in Seq(S)
  <2>1. r \in [1..Cardinality(K) -> S]
    BY <1>1, <1>3, <1>5
  <2> QED
    BY <1>2, <2>1
<1>7. \A n : In(n, r) <=> \E i \in K : s[i] = n
  <2>1. \A i \in K : \E j \in DOMAIN f : f[j] = i
    BY <1>4
  <2>2. ASSUME NEW n, NEW i \in K, s[i] = n PROVE In(n, r)
    <3>1. PICK j \in DOMAIN f : f[j] = i
      BY <2>1
    <3> QED
      BY <1>5, <2>2, <3>1 DEF In
  <2>3. ASSUME NEW n, In(n, r) PROVE \E i \in K : s[i] = n
    BY <1>5, <2>3 DEF In
  <2> QED
    BY <2>2, <2>3
<1>8. ASSUME Once(s) PROVE Once(r)
  <2> SUFFICES ASSUME NEW i \in DOMAIN f, NEW j \in DOMAIN f, r[i] = r[j], r[i] # 0
               PROVE  i = j
    BY <1>5 DEF Once
  <2>1. f[i] = f[j]
    BY <1>5, <1>8 DEF Once
  <2>2. i \in Int /\ j \in Int /\ f[i] \in Int /\ f[j] \in Int
    BY <1>1, <1>2, <1>5
  <2>3. ~(i < j) /\ ~(j < i)
    BY <1>4, <2>1, <2>2
  <2> QED
    BY <2>2, <2>3
<1> QED
  BY <1>6, <1>7, <1>8

\* What occurs once in [...s, ...t] occurs once in one of them.
LEMMA OnceParts ==
  ASSUME NEW S, NEW s \in Seq(S), NEW t \in Seq(S), Once(s \o t)
  PROVE  Once(s) /\ Once(t) /\ \A n : n # 0 => ~(In(n, s) /\ In(n, t))
<1> DEFINE r == s \o t
<1>1. /\ Len(s) \in Nat /\ Len(t) \in Nat /\ DOMAIN s = 1..Len(s) /\ DOMAIN t = 1..Len(t)
      /\ DOMAIN r = 1..(Len(s) + Len(t)) /\ Once(r)
      /\ \A i \in 1..(Len(s) + Len(t)) :
           r[i] = IF i <= Len(s) THEN s[i] ELSE t[i - Len(s)]
  BY ConcatProperties, LenProperties
<1> HIDE DEF r
<1>2. \A i \in 1..Len(s) : i \in DOMAIN r /\ r[i] = s[i]
  BY <1>1
<1>3. \A i \in 1..Len(t) : i + Len(s) \in DOMAIN r /\ r[i + Len(s)] = t[i]
  BY <1>1
<1>4. Once(s)
  BY <1>1, <1>2 DEF Once
<1>5. ASSUME NEW i \in 1..Len(t), NEW j \in 1..Len(t), t[i] = t[j], t[i] # 0 PROVE i = j
  <2>1. i + Len(s) = j + Len(s)
    BY <1>1, <1>3, <1>5 DEF Once
  <2> QED
    BY <1>1, <2>1
<1>6. ASSUME NEW i \in 1..Len(s), NEW j \in 1..Len(t), s[i] = t[j], s[i] # 0 PROVE FALSE
  <2>1. i = j + Len(s)
    BY <1>1, <1>2, <1>3, <1>6 DEF Once
  <2> QED
    BY <1>1, <2>1
<1> QED
  BY <1>1, <1>4, <1>5, <1>6 DEF Once, In

-----------------------------------------------------------------------------
(* The goal *)

\* No operation of GoalMode leaves the states of a goal.
LEMMA GoalMoves ==
  ASSUME NEW g \in Goals
  PROVE  /\ {markBlocked(g), incrementTurn(g), pauseActiveGoal(g), resumeGoal(g),
             clearGoal(g)} \subseteq Goals
         /\ UserGoalMoves(g) \subseteq Goals /\ ModelGoalMoves(g) \subseteq Goals
<1>1. /\ g.status \in GoalStatus /\ g.turns \in Nat /\ g.created \in 0..MaxGoals
      /\ g = [status |-> g.status, turns |-> g.turns, created |-> g.created]
  BY DEF Goals
<1>2. markBlocked(g) \in Goals /\ pauseActiveGoal(g) \in Goals
  BY <1>1 DEF markBlocked, pauseActiveGoal, Goals, GoalStatus
<1>3. clearGoal(g) \in Goals
  BY <1>1 DEF clearGoal, Goals, GoalStatus
<1>6. incrementTurn(g) \in Goals
  <2>1. g.turns + 1 \in Nat
    BY <1>1
  <2> QED
    BY <1>1, <2>1 DEF incrementTurn, Goals
<1>4. resumeGoal(g) \in Goals
  BY <1>1 DEF resumeGoal, Goals, GoalStatus
<1>5. createGoal(g) \subseteq Goals
  BY DEF createGoal
<1> QED
  BY <1>2, <1>3, <1>4, <1>5, <1>6 DEF UserGoalMoves, ModelGoalMoves

\* Nor does the end of a turn.
LEMMA GoalAfterTurn ==
  ASSUME NEW w, NEW reason, NEW g \in Goals
  PROVE  GoalAfter(w, reason, g) \in Goals /\ incrementTurn(GoalAfter(w, reason, g)) \in Goals
<1> DEFINE c == IF workers[w].driven THEN g ELSE incrementTurn(g)
<1>1. g \in Goals /\ incrementTurn(g) \in Goals /\ markBlocked(g) \in Goals /\ pauseActiveGoal(g) \in Goals
  BY GoalMoves
<1>2. c \in Goals
  BY <1>1
<1>3. markBlocked(c) \in Goals
  BY <1>2, GoalMoves
<1>4. GoalAfter(w, reason, g) \in Goals
  BY <1>1, <1>2, <1>3 DEF GoalAfter
<1> QED
  BY <1>4, GoalMoves

-----------------------------------------------------------------------------
(* The shapes of a step: what it does to the workers, the active turn and  *)
(* the parked retry.                                                       *)

\* No worker moves.
Rests ==
  /\ UNCHANGED turnVars
  /\ UNCHANGED <<pauses, autoResumes>> /\ resume' \in {resume, 0} /\ goal' \in Goals

\* Messages that are those of the session and some items, whatever is the
\* model's among them.
Keeps(hist, items) ==
  /\ \A n : n # 0 => (In(n, hist) <=> In(n, Line) \/ In(n, items))
  /\ Once(Line) /\ Once(items) /\ (\A n : n # 0 => ~(In(n, Line) /\ In(n, items)))
       => Once(hist)

\* The messages and the buffer a running turn leaves: as they were, or with the
\* buffer flushed.
Handed(hist, buffer) ==
  \/ Keeps(hist, << >>) /\ buffer = steerBuffer
  \/ Keeps(hist, steerBuffer) /\ buffer = << >>
LineTyped == history' \in Seq(Items) /\ parked' \in Seq(Items)
Moved == LineTyped /\ Handed(Line', steerBuffer')

\* What a worker that goes on does to the inputs.
HandsOver(w) ==
  /\ UNCHANGED <<refused, summarized, withdrawn, lost, dropped>>
  /\ \/ At(w, "prompt") /\ LineTyped /\ Keeps(Line', workers[w].prompt) /\ UNCHANGED steerBuffer
     \/ ~At(w, "prompt") /\ Moved

\* A worker goes on with its turn, and its prompt is no longer pending.
Proceeds(w) ==
  /\ w \in Worker /\ Live(w) /\ HandsOver(w)
  /\ UNCHANGED <<origins, turnId, activeTurn, resumeVars>> /\ goal' \in Goals
  /\ \E r :
       /\ workers' = [workers EXCEPT ![w] = r]
       /\ WorkerOK(r, turnId, Len(origins)) /\ r.pc \notin {"prompt", "done"}
       /\ r.turn = workers[w].turn /\ r.driven = workers[w].driven
       /\ r.aborted = workers[w].aborted

\* A turn is launched, perhaps by the timer of a parked retry.
Launches(items, g) ==
  /\ activeTurn = 0 /\ StartWorker(items, g) /\ g \in Goals
  /\ items \in Seq(Nat) /\ \A i \in DOMAIN items : i = 1 /\ items[i] \in Items'
  /\ resume' = 0 /\ UNCHANGED pauses
  /\ \/ UNCHANGED autoResumes
     \/ resume # 0 /\ pauses < MaxAttempts /\ autoResumes' = autoResumes + 1

\* A turn ends; one that was cancelled does not pause, and completes only where
\* its budget had stopped it.
Reasons == {"completed", "maxSteps", "cancelled", "failed", "blocked", "paused"}
Finishes(w, reason, items, buffer, g) ==
  /\ w \in Worker /\ Live(w) /\ EndTurn(w, reason, items, buffer, g)
  /\ reason \in Reasons /\ g \in Goals
  /\ Settled(items) \in Seq(Items) /\ Handed(Settled(items), buffer)
  /\ At(w, "prompt") => reason \notin {"completed", "maxSteps"}
  /\ Aborted(w) => reason # "paused"
  /\ Aborted(w) /\ reason \in {"completed", "maxSteps"} =>
       At(w, "afterStop") /\ workers[w].overBudget /\ IsActive(goal) /\ g = goal
  /\ UNCHANGED compactionVars

\* A worker's step is one of the two.
WorkerMoves(w) ==
  Proceeds(w) \/ \E reason, items, buffer, g : Finishes(w, reason, items, buffer, g)

\* Every step has one of these shapes.
Shaped ==
  \/ Rests
  \/ \E w \in Worker : Proceeds(w)
  \/ \E items, g : Launches(items, g)
  \/ \E w, reason, items, buffer, g : Finishes(w, reason, items, buffer, g)
  \/ \E recall \in BOOLEAN : cancel(recall)

\* The types, which are inductive without the rest.
Typed == ContextOK /\ CompactionOK /\ WorkersOK /\ ResumeOK

\* The messages without an open exchange, some items added, are all there.
LEMMA SettledKeeps ==
  ASSUME NEW S, 0 \in S, history \in Seq(S), parked \in Seq(S), NEW items \in Seq(S)
  PROVE  /\ Settled(items) \in Seq(S) /\ Keeps(Settled(items), items)
         /\ Append(Settled(items), 0) \in Seq(S) /\ Keeps(Append(Settled(items), 0), items)
<1>1. PICK h : h = IF hasOpenToolExchange THEN Append(history, 0) ELSE history
  OBVIOUS
<1>2. /\ h \in Seq(S) /\ (\A n : n # 0 => (In(n, h) <=> In(n, history)))
      /\ Once(history) => Once(h)
  BY <1>1, AppendIn
<1>3. PICK l : l = h \o parked
  OBVIOUS
<1>4. /\ l \in Seq(S) /\ (\A n : n # 0 => (In(n, l) <=> In(n, Line)))
      /\ Once(Line) => Once(l)
  <2>1. \A n : In(n, Line) <=> In(n, history) \/ In(n, parked)
    BY ConcatIn DEF Line
  <2>2. l \in Seq(S) /\ \A n : In(n, l) <=> In(n, h) \/ In(n, parked)
    BY <1>2, <1>3, ConcatIn
  <2>3. ASSUME Once(Line) PROVE Once(l)
    <3>1. Once(history) /\ Once(parked) /\ \A n : n # 0 => ~(In(n, history) /\ In(n, parked))
      BY <2>3, OnceParts DEF Line
    <3> QED
      BY <1>2, <1>3, <3>1, ConcatIn
  <2> QED
    BY <1>2, <2>1, <2>2, <2>3
<1>5. PICK r : r = l \o items
  OBVIOUS
<1>6. Settled(items) = r
  BY <1>1, <1>3, <1>5 DEF Settled
<1>7. r \in Seq(S) /\ Keeps(r, items)
  <2>1. r \in Seq(S) /\ \A n : In(n, r) <=> In(n, l) \/ In(n, items)
    BY <1>4, <1>5, ConcatIn
  <2>2. ASSUME Once(Line), Once(items), \A n : n # 0 => ~(In(n, Line) /\ In(n, items))
        PROVE  Once(r)
    BY <1>4, <1>5, <2>2, ConcatIn
  <2> QED
    BY <1>4, <2>1, <2>2 DEF Keeps
<1>8. Append(r, 0) \in Seq(S) /\ Keeps(Append(r, 0), items)
  <2>1. /\ Append(r, 0) \in Seq(S) /\ \A n : In(n, Append(r, 0)) <=> In(n, r) \/ n = 0
        /\ Once(r) => Once(Append(r, 0))
    BY <1>7, AppendIn
  <2> QED
    BY <1>7, <2>1 DEF Keeps
<1> QED
  BY <1>6, <1>7, <1>8

\* What is appended is added, behind an open exchange or to the history.
LEMMA AppendedKeeps ==
  ASSUME NEW S, history \in Seq(S), parked \in Seq(S), NEW items \in Seq(S),
         appendMessage(items)
  PROVE  history' \in Seq(S) /\ parked' \in Seq(S) /\ Keeps(Line', items)
<1>1. /\ \A n : In(n, Line) <=> In(n, history) \/ In(n, parked)
      /\ Once(Line) => /\ Once(history) /\ Once(parked)
                       /\ \A n : n # 0 => ~(In(n, history) /\ In(n, parked))
  BY ConcatIn, OnceParts DEF Line
<1>2. ASSUME NEW h \in Seq(S), NEW p \in Seq(S), history' = h, parked' = p,
             \A n : In(n, h) \/ In(n, p) <=> In(n, Line) \/ In(n, items),
             Once(Line) /\ Once(items) /\ (\A n : n # 0 => ~(In(n, Line) /\ In(n, items)))
               => Once(h) /\ Once(p) /\ \A n : n # 0 => ~(In(n, h) /\ In(n, p))
      PROVE  Keeps(Line', items)
  <2>1. PICK l : l = h \o p
    OBVIOUS
  <2>2. Line' = l
    BY <1>2, <2>1 DEF Line
  <2>3. /\ \A n : In(n, l) <=> In(n, h) \/ In(n, p)
        /\ Once(h) /\ Once(p) /\ (\A n : n # 0 => ~(In(n, h) /\ In(n, p))) => Once(l)
    BY <2>1, ConcatIn
  <2> QED
    BY <1>2, <2>2, <2>3 DEF Keeps
<1>3. CASE hasOpenToolExchange
  <2>1. PICK p : p = parked \o items
    OBVIOUS
  <2>2. history' = history /\ parked' = p
    BY <1>3, <2>1 DEF appendMessage
  <2>3. /\ p \in Seq(S) /\ \A n : In(n, p) <=> In(n, parked) \/ In(n, items)
        /\ Once(parked) /\ Once(items) /\ (\A n : n # 0 => ~(In(n, parked) /\ In(n, items)))
             => Once(p)
    BY <2>1, ConcatIn
  <2> QED
    BY <1>1, <1>2, <2>2, <2>3
<1>4. CASE ~hasOpenToolExchange
  <2>1. PICK h : h = history \o items
    OBVIOUS
  <2>2. history' = h /\ parked' = parked
    BY <1>4, <2>1 DEF appendMessage
  <2>3. /\ h \in Seq(S) /\ \A n : In(n, h) <=> In(n, history) \/ In(n, items)
        /\ Once(history) /\ Once(items) /\ (\A n : n # 0 => ~(In(n, history) /\ In(n, items)))
             => Once(h)
    BY <2>1, ConcatIn
  <2> QED
    BY <1>1, <1>2, <2>2, <2>3
<1> QED
  BY <1>3, <1>4

\* A closed exchange leaves no message parked.
LEMMA ClosedLine ==
  ASSUME NEW S, NEW hist \in Seq(S), ClosesWith(hist)
  PROVE  history' = hist /\ parked' = << >> /\ parked' \in Seq(S) /\ Line' = hist
<1>1. history' = hist /\ parked' = << >>
  BY DEF ClosesWith
<1>2. hist \o << >> = hist /\ << >> \in Seq(S)
  OBVIOUS
<1> QED
  BY <1>1, <1>2 DEF Line

\* The ways in which a running turn moves the messages.
LEMMA Moves ==
  ASSUME Typed
  PROVE  /\ Settled(<< >>) \in Seq(Items) /\ Handed(Settled(<< >>), steerBuffer)
         /\ Settled(<<0>>) \in Seq(Items) /\ Handed(Settled(<<0>>), steerBuffer)
         /\ Settled(steerBuffer) \in Seq(Items) /\ Handed(Settled(steerBuffer), << >>)
         /\ UNCHANGED <<historyVars, steerBuffer>> => Moved
         /\ UNCHANGED <<history, parked, steerBuffer>> => Moved
         /\ appendMessage(<<0>>) /\ UNCHANGED steerBuffer => Moved
         /\ appendMessage(steerBuffer) /\ steerBuffer' = << >> => Moved
         /\ ClosesWith(Settled(<< >>)) /\ UNCHANGED steerBuffer => Moved
         /\ ClosesWith(Append(Settled(steerBuffer), 0)) /\ steerBuffer' = << >> => Moved
<1>1. /\ 0 \in Items /\ history \in Seq(Items) /\ parked \in Seq(Items)
      /\ steerBuffer \in Seq(Items)
  <2>1. Len(origins) \in Nat
    BY LenProperties DEF Typed, ContextOK
  <2>2. 0 \in Items /\ Inputs \subseteq Items
    BY <2>1 DEF Inputs, Items
  <2> QED
    BY <2>2, WiderSeq DEF Typed, ContextOK
<1> DEFINE none == << >>
           note == <<0>>
<1>2. /\ none \in Seq(Items) /\ Once(none) /\ \A n : ~In(n, none)
      /\ note \in Seq(Items) /\ Once(note) /\ \A n : n # 0 => ~In(n, note)
  BY <1>1 DEF Once, In
<1> HIDE DEF none, note
<1>3. \A hist : Keeps(hist, note) => Keeps(hist, none)
  BY <1>2 DEF Keeps
<1>4. Keeps(Line, none)
  BY <1>2 DEF Keeps
<1>5. /\ Settled(none) \in Seq(Items) /\ Keeps(Settled(none), none)
      /\ Settled(note) \in Seq(Items) /\ Keeps(Settled(note), none)
      /\ Settled(steerBuffer) \in Seq(Items) /\ Keeps(Settled(steerBuffer), steerBuffer)
      /\ Append(Settled(steerBuffer), 0) \in Seq(Items)
      /\ Keeps(Append(Settled(steerBuffer), 0), steerBuffer)
  BY <1>1, <1>2, <1>3, SettledKeeps
<1>6. ASSUME UNCHANGED <<history, parked, steerBuffer>> PROVE Moved
  <2>1. Line' = Line
    BY <1>6 DEF Line
  <2> QED
    BY <1>1, <1>4, <1>6, <2>1 DEF Moved, LineTyped, Handed, none
<1>7. ASSUME appendMessage(note), UNCHANGED steerBuffer PROVE Moved
  <2>1. history' \in Seq(Items) /\ parked' \in Seq(Items) /\ Keeps(Line', none)
    BY <1>1, <1>2, <1>3, <1>7, AppendedKeeps
  <2> QED
    BY <1>7, <2>1 DEF Moved, LineTyped, Handed, none
<1>8. ASSUME appendMessage(steerBuffer), steerBuffer' = << >> PROVE Moved
  <2>1. history' \in Seq(Items) /\ parked' \in Seq(Items) /\ Keeps(Line', steerBuffer)
    BY <1>1, <1>8, AppendedKeeps
  <2> QED
    BY <1>8, <2>1 DEF Moved, LineTyped, Handed
<1>9. ASSUME ClosesWith(Settled(none)), UNCHANGED steerBuffer PROVE Moved
  <2>1. history' \in Seq(Items) /\ parked' \in Seq(Items) /\ Line' = Settled(none)
    BY <1>5, <1>9, ClosedLine
  <2> QED
    BY <1>5, <1>9, <2>1 DEF Moved, LineTyped, Handed, none
<1>10. ASSUME ClosesWith(Append(Settled(steerBuffer), 0)), steerBuffer' = << >> PROVE Moved
  <2>1. /\ history' \in Seq(Items) /\ parked' \in Seq(Items)
        /\ Line' = Append(Settled(steerBuffer), 0)
    BY <1>5, <1>10, ClosedLine
  <2> QED
    BY <1>5, <1>10, <2>1 DEF Moved, LineTyped, Handed
<1>11. /\ Handed(Settled(none), steerBuffer) /\ Handed(Settled(note), steerBuffer)
       /\ Handed(Settled(steerBuffer), << >>)
  BY <1>5 DEF Handed, none
<1> QED
  BY <1>5, <1>6, <1>7, <1>8, <1>9, <1>10, <1>11 DEF historyVars, none, note

\* launch() starts a turn or moves no worker.
LEMMA Launch ==
  ASSUME Typed, NEW items, NEW buffer, NEW g \in Goals, launch(items, buffer, g),
         items \in Seq(Nat), \A i \in DOMAIN items : i = 1 /\ items[i] \in Items',
         UNCHANGED <<pauses, autoResumes>>
  PROVE  Rests \/ Launches(items, g)
<1>1. CASE activeTurn # 0
  BY <1>1 DEF launch, LaunchOrDefer, Rests
<1>2. CASE activeTurn = 0 /\ compacting' # 0
  BY <1>2 DEF launch, LaunchOrDefer, Rests
<1>3. CASE activeTurn = 0 /\ compacting' = 0
  BY <1>3 DEF launch, LaunchOrDefer, Launches
<1> QED
  BY <1>1, <1>2, <1>3

\* A worker that only changes its place in the turn goes on.
LEMMA ContinuesShape ==
  ASSUME Typed, NEW w \in Worker, Live(w), NEW pc \in Pcs \ {"prompt", "done"},
         pc \in {"request", "compacting"} => workers[w].steps < MaxSteps,
         Continues(w, pc), goal' \in Goals, HandsOver(w)
  PROVE  Proceeds(w)
<1> DEFINE r == [workers[w] EXCEPT !.pc = pc, !.wait = 0]
<1>1. WorkerOK(workers[w], turnId, Len(origins)) /\ w \in 1..Len(workers) /\ workers \in Seq(WorkerType)
  BY DEF Typed, WorkersOK, Worker
<1>2. workers' = [workers EXCEPT ![w] = r]
  BY <1>1 DEF Continues
<1>3. /\ r.pc = pc /\ r.turn = workers[w].turn /\ r.driven = workers[w].driven
      /\ r.aborted = workers[w].aborted /\ r.prompt = workers[w].prompt
      /\ r.steps = workers[w].steps
  BY <1>1 DEF WorkerOK, WorkerType
<1>4. r \in WorkerType
  <2>1. 0 \in 0..MaxCompactions /\ pc \in Pcs /\ workers[w] \in WorkerType
    BY <1>1, MaxCompactionsAssumption DEF WorkerOK
  <2> QED
    BY <2>1 DEF WorkerType
<1>5. WorkerOK(r, turnId, Len(origins))
  BY <1>1, <1>3, <1>4 DEF WorkerOK
<1> HIDE DEF r
<1> QED
  BY <1>2, <1>3, <1>5 DEF Proceeds, Continues

\* The prompt of a turn is made of items, one at most.
LEMMA PromptType ==
  ASSUME Typed, NEW w \in Worker
  PROVE  workers[w].prompt \in Seq(Items) /\ Once(workers[w].prompt)
<1> DEFINE p == workers[w].prompt
<1>1. p \in Seq(Nat) /\ \A i \in DOMAIN p : i = 1 /\ p[i] \in Items
  BY DEF Typed, WorkersOK, WorkerOK, WorkerType, Items
<1> HIDE DEF p
<1>2. p \in Seq(Items)
  <2>1. Len(p) \in Nat /\ DOMAIN p = 1..Len(p) /\ p \in [1..Len(p) -> Nat]
    BY <1>1, LenProperties
  <2>2. p \in [1..Len(p) -> Items]
    BY <1>1, <2>1
  <2> QED
    BY <2>1, <2>2
<1>3. Once(p)
  BY <1>1 DEF Once
<1> QED
  BY <1>2, <1>3 DEF p

\* What a worker does in one step.
LEMMA WorkerShape ==
  ASSUME Typed, NEW w \in Worker, TurnWorker(w)
  PROVE  WorkerMoves(w)
<1> USE DEF Typed
<1>1. /\ WorkerOK(workers[w], turnId, Len(origins)) /\ w \in 1..Len(workers) /\ workers \in Seq(WorkerType)
      /\ workers[w] \in WorkerType /\ goal \in Goals /\ Aborted(w) \in BOOLEAN
  BY DEF WorkersOK, WorkerOK, Worker, ResumeOK, Aborted, WorkerType
<1>0. /\ Settled(<< >>) \in Seq(Items) /\ Handed(Settled(<< >>), steerBuffer)
      /\ Settled(<<0>>) \in Seq(Items) /\ Handed(Settled(<<0>>), steerBuffer)
      /\ Settled(steerBuffer) \in Seq(Items) /\ Handed(Settled(steerBuffer), << >>)
      /\ UNCHANGED <<historyVars, steerBuffer>> => Moved
      /\ UNCHANGED <<history, parked, steerBuffer>> => Moved
      /\ appendMessage(<<0>>) /\ UNCHANGED steerBuffer => Moved
      /\ appendMessage(steerBuffer) /\ steerBuffer' = << >> => Moved
      /\ ClosesWith(Settled(<< >>)) /\ UNCHANGED steerBuffer => Moved
      /\ stepBegin(w) => Moved
  BY Moves DEF stepBegin
<1>2. ASSUME NEW reason \in Reasons, NEW items, NEW buffer, NEW g \in Goals, Live(w),
             EndTurn(w, reason, items, buffer, g),
             Settled(items) \in Seq(Items), Handed(Settled(items), buffer),
             At(w, "prompt") => reason \notin {"completed", "maxSteps"},
             Aborted(w) => reason # "paused",
             Aborted(w) /\ reason \in {"completed", "maxSteps"} =>
               At(w, "afterStop") /\ workers[w].overBudget /\ IsActive(goal) /\ g = goal,
             UNCHANGED compactionVars
      PROVE  WorkerMoves(w)
  <2>1. Finishes(w, reason, items, buffer, g)
    BY <1>2 DEF Finishes
  <2> QED
    BY <2>1 DEF WorkerMoves
<1>3. ASSUME NEW reason \in {"cancelled", "failed", "blocked"}, Live(w), Ends(w, reason),
             UNCHANGED compactionVars
      PROVE  WorkerMoves(w)
  BY <1>0, <1>1, <1>2, <1>3 DEF Ends, Reasons
<1>4. ASSUME NEW pc \in Pcs \ {"prompt", "done"}, Live(w), Continues(w, pc), goal' \in Goals,
             ~At(w, "prompt"), Moved,
             pc \in {"request", "compacting"} => workers[w].steps < MaxSteps
      PROVE  WorkerMoves(w)
  <2>1. HandsOver(w)
    BY <1>4 DEF Continues, HandsOver, recallVars
  <2> QED
    BY <1>4, <2>1, ContinuesShape DEF WorkerMoves
<1>5. ASSUME NEW r, Live(w), r \in WorkerType, workers' = [workers EXCEPT ![w] = r],
             UNCHANGED <<refused, summarized, withdrawn, lost, dropped>>, ~At(w, "prompt"), Moved,
             UNCHANGED <<origins, turnId, activeTurn, resumeVars>>, goal' \in Goals,
             r.pc \in Pcs \ {"prompt", "done"},
             r.pc \in {"request", "compacting"} => r.steps < MaxSteps,
             r.turn = workers[w].turn, r.driven = workers[w].driven,
             r.aborted = workers[w].aborted, r.prompt = workers[w].prompt
      PROVE  WorkerMoves(w)
  <2>1. WorkerOK(r, turnId, Len(origins))
    BY <1>1, <1>5 DEF WorkerOK
  <2>2. Proceeds(w)
    BY <1>5, <2>1 DEF Proceeds, HandsOver
  <2> QED
    BY <2>2 DEF WorkerMoves
<1>6. CASE appendPrompt(w)
  <2>1. Live(w) /\ goal' \in Goals /\ Continues(w, "hook")
    BY <1>1, <1>6 DEF appendPrompt, Live, At
  <2>2. HandsOver(w)
    <3> DEFINE items == workers[w].prompt
    <3>1. items \in Seq(Items)
      BY <1>1, PromptType
    <3>2. /\ appendMessage(items) /\ UNCHANGED steerBuffer /\ At(w, "prompt")
          /\ UNCHANGED <<refused, summarized, withdrawn, lost, dropped>>
      BY <1>6 DEF appendPrompt, Continues, recallVars
    <3> HIDE DEF items
    <3>3. history' \in Seq(Items) /\ parked' \in Seq(Items) /\ Keeps(Line', items)
      BY <3>1, <3>2, AppendedKeeps DEF ContextOK
    <3> QED
      BY <3>2, <3>3 DEF HandsOver, LineTyped, items
  <2> QED
    BY <2>1, <2>2, ContinuesShape DEF Pcs, WorkerMoves
<1>7. CASE promptLost(w)
  <2>1. Live(w) /\ UNCHANGED compactionVars
        /\ Ends(w, IF Aborted(w) THEN "cancelled" ELSE "failed")
    BY <1>7 DEF promptLost, Live, At
  <2> QED
    BY <2>1, <1>3
<1>8. CASE applyUserPromptHook(w)
  <2>1. Live(w) /\ ~At(w, "prompt") /\ UNCHANGED compactionVars
    BY <1>8 DEF applyUserPromptHook, Live, At
  <2>2. CASE Continues(w, "loop") /\ UNCHANGED goal /\ UNCHANGED <<historyVars, steerBuffer>>
    BY <1>0, <1>1, <1>4, <2>1, <2>2 DEF Pcs
  <2>3. CASE Ends(w, "cancelled")
    BY <1>3, <2>1, <2>3
  <2>4. CASE EndTurn(w, "blocked", <<0>>, steerBuffer, goal)
    BY <1>0, <1>1, <1>2, <2>1, <2>4 DEF Reasons
  <2> QED
    BY <1>8, <2>2, <2>3, <2>4 DEF applyUserPromptHook
<1>9. CASE beforeStep(w)
  <2>1. Live(w) /\ ~At(w, "prompt")
    BY <1>9 DEF beforeStep, Live, At
  <2>2. CASE Ends(w, "cancelled") /\ UNCHANGED compactionVars
    BY <1>3, <2>1, <2>2
  <2>3. CASE ~Aborted(w) /\ Ends(w, "maxSteps") /\ UNCHANGED compactionVars
    BY <1>0, <1>1, <1>2, <2>1, <2>3 DEF Ends, Reasons
  <2>4. CASE ~StepLimit(w) /\ stepBegin(w) /\ UNCHANGED goal
    <3>1. workers[w].steps < MaxSteps
      <4>1. workers[w].steps \in 0..MaxSteps /\ ~(workers[w].steps >= MaxSteps)
        BY <1>1, <2>4 DEF StepLimit, WorkerType
      <4> QED
        BY <4>1, FlowAssumption
    <3> QED
      BY <1>0, <1>1, <1>4, <2>1, <2>4, <3>1 DEF Pcs, stepBegin
  <2>5. CASE /\ ~StepLimit(w)
             /\ \/ begin("auto")
                \/ /\ compacting # 0
                   /\ compactions' = [compactions EXCEPT ![compacting].blockedByTurn = TRUE]
                   /\ UNCHANGED compacting
             /\ workers' = [workers EXCEPT ![w].pc = "compacting", ![w].wait = compacting']
             /\ UNCHANGED <<contextVars, inputVars, recallVars, turnId, activeTurn, resumeVars, goal>>
    <3>1. compacting' \in 0..MaxCompactions
      <4>1. Len(compactions) \in Nat /\ Len(compactions) <= MaxCompactions /\ MaxCompactions \in Nat
        BY MaxCompactionsAssumption, LenProperties DEF CompactionOK
      <4> QED
        BY <2>5, <4>1 DEF begin, CompactionOK
    <3>2. workers[w].steps < MaxSteps
      <4>1. workers[w].steps \in 0..MaxSteps /\ ~(workers[w].steps >= MaxSteps)
        BY <1>1, <2>5 DEF StepLimit, WorkerType
      <4> QED
        BY <4>1, FlowAssumption
    <3> DEFINE r == [workers[w] EXCEPT !.pc = "compacting", !.wait = compacting']
    <3>3. r \in WorkerType
      BY <1>1, <3>1 DEF WorkerType, Pcs
    <3>4. /\ r.pc = "compacting" /\ r.steps = workers[w].steps /\ r.turn = workers[w].turn
          /\ r.driven = workers[w].driven /\ r.aborted = workers[w].aborted
          /\ r.prompt = workers[w].prompt
      BY <1>1 DEF WorkerType
    <3>5. workers' = [workers EXCEPT ![w] = r]
      BY <2>5
    <3> HIDE DEF r
    <3> QED
      BY <1>0, <1>1, <1>5, <2>1, <2>5, <3>2, <3>3, <3>4, <3>5
         DEF Pcs, contextVars, inputVars, recallVars
  <2> QED
    BY <1>9, <2>2, <2>3, <2>4, <2>5 DEF beforeStep
<1>10. CASE compacted(w)
  <2>1. Live(w) /\ ~At(w, "prompt") /\ UNCHANGED compactionVars
        /\ workers[w].steps < MaxSteps
    BY <1>1, <1>10 DEF compacted, Live, At, WorkerOK
  <2>2. CASE Ends(w, IF Aborted(w) THEN "cancelled" ELSE "failed")
    BY <1>3, <2>1, <2>2
  <2>3. CASE EndTurn(w, "cancelled", steerBuffer, << >>, goal)
    BY <1>0, <1>1, <1>2, <2>1, <2>3 DEF Reasons
  <2>4. CASE stepBegin(w) /\ UNCHANGED goal
    BY <1>0, <1>1, <1>4, <2>1, <2>4 DEF Pcs, stepBegin
  <2> QED
    BY <1>10, <2>2, <2>3, <2>4 DEF compacted
<1>11. CASE overflow(w)
  <2>1. compacting' \in 0..MaxCompactions
    <3>1. Len(compactions) \in Nat /\ Len(compactions) <= MaxCompactions /\ MaxCompactions \in Nat
      BY MaxCompactionsAssumption, LenProperties DEF CompactionOK
    <3> QED
      BY <1>11, <3>1 DEF overflow, begin, CompactionOK
  <2> DEFINE r == [workers[w] EXCEPT !.pc = "overflow", !.wait = compacting', !.steps = 0]
  <2>2. r \in WorkerType
    <3>1. 0 \in 0..MaxSteps
      BY FlowAssumption
    <3> QED
      BY <1>1, <2>1, <3>1 DEF WorkerType, Pcs
  <2>3. /\ r.pc = "overflow" /\ r.turn = workers[w].turn
        /\ r.driven = workers[w].driven /\ r.aborted = workers[w].aborted
        /\ r.prompt = workers[w].prompt
    BY <1>1 DEF WorkerType
  <2>4. workers' = [workers EXCEPT ![w] = r] /\ Live(w)
        /\ UNCHANGED <<contextVars, inputVars, recallVars, turnId, activeTurn, resumeVars, goal>>
        /\ ~At(w, "prompt")
    BY <1>11 DEF overflow, Live, At
  <2> HIDE DEF r
  <2> QED
    BY <1>0, <1>1, <1>5, <2>2, <2>3, <2>4 DEF Pcs, contextVars, inputVars, recallVars
<1>12. CASE overflowHandled(w)
  <2>1. Live(w) /\ ~At(w, "prompt") /\ UNCHANGED compactionVars
    BY <1>12 DEF overflowHandled, Live, At
  <2>2. CASE Ends(w, "failed")
    BY <1>3, <2>1, <2>2
  <2>3. CASE Continues(w, "loop") /\ UNCHANGED goal /\ UNCHANGED <<historyVars, steerBuffer>>
    BY <1>0, <1>1, <1>4, <2>1, <2>3 DEF Pcs
  <2> QED
    BY <1>12, <2>2, <2>3 DEF overflowHandled
<1>13. CASE executeLoopStep(w)
  <2>1. Live(w) /\ ~At(w, "prompt") /\ UNCHANGED compactionVars
        /\ workers[w].steps < MaxSteps
    BY <1>1, <1>13 DEF executeLoopStep, Live, At, WorkerOK
  <2>2. CASE Ends(w, "cancelled")
    BY <1>3, <2>1, <2>2
  <2>3. CASE Ends(w, "failed")
    BY <1>3, <2>1, <2>3
  <2>4. CASE ~Aborted(w) /\ Ends(w, "paused")
    BY <1>0, <1>1, <1>2, <2>1, <2>4 DEF Ends, Reasons
  <2>5. ASSUME NEW pc \in {"tools", "afterStop"}, NEW spent \in BOOLEAN,
               workers' = [workers EXCEPT ![w].pc = pc, ![w].steps = @ + 1,
                                          ![w].overBudget = spent],
               UNCHANGED <<history, parked, origins, summarized, dropped, turnId, activeTurn,
                           inputVars, recallVars, resumeVars, goal>>
        PROVE  WorkerMoves(w)
    <3> DEFINE r == [workers[w] EXCEPT !.pc = pc, !.steps = @ + 1, !.overBudget = spent]
    <3>1. workers[w].steps + 1 \in 0..MaxSteps
      <4>1. workers[w].steps \in 0..MaxSteps
        BY <1>1 DEF WorkerType
      <4> QED
        BY <4>1, <2>1, FlowAssumption
    <3>2. r \in WorkerType
      BY <1>1, <3>1 DEF WorkerType, Pcs
    <3>3. /\ r.pc = pc /\ r.turn = workers[w].turn
          /\ r.driven = workers[w].driven /\ r.aborted = workers[w].aborted
          /\ r.prompt = workers[w].prompt
      BY <1>1 DEF WorkerType
    <3>4. workers' = [workers EXCEPT ![w] = r]
      BY <2>5
    <3> HIDE DEF r
    <3> QED
      BY <1>0, <1>1, <1>5, <2>1, <2>5, <3>2, <3>3, <3>4 DEF Pcs, inputVars, recallVars
  <2>6. (IsActive(goal) /\ overBudget(goal)) \in BOOLEAN
    BY DEF IsActive, overBudget
  <2> QED
    BY <1>13, <2>2, <2>3, <2>4, <2>5, <2>6 DEF executeLoopStep
<1>16. CASE runToolCallBatch(w)
  <2>1. Live(w) /\ ~At(w, "prompt") /\ UNCHANGED compactionVars
    BY <1>16 DEF runToolCallBatch, Live, At
  <2>2. PICK g \in StepGoals :
          \/ EndTurn(w, "cancelled", << >>, steerBuffer, g)
          \/ EndTurn(w, "failed", << >>, steerBuffer, g)
          \/ /\ goal' = g /\ UNCHANGED steerBuffer
             /\ ClosesWith(Settled(<< >>)) \/ UNCHANGED historyVars
             /\ \E pc \in {"loop", "afterStop"} : Continues(w, pc)
    BY <1>16 DEF runToolCallBatch
  <2>3. g \in Goals
    BY <1>1, GoalMoves DEF StepGoals
  <2>4. CASE \E reason \in {"cancelled", "failed"} : EndTurn(w, reason, << >>, steerBuffer, g)
    BY <1>0, <1>2, <2>1, <2>3, <2>4 DEF Reasons
  <2>5. ASSUME goal' = g, UNCHANGED steerBuffer,
               ClosesWith(Settled(<< >>)) \/ UNCHANGED historyVars,
               NEW pc \in {"loop", "afterStop"}, Continues(w, pc)
        PROVE  WorkerMoves(w)
    BY <1>0, <1>4, <2>1, <2>3, <2>5 DEF Pcs
  <2> QED
    BY <2>2, <2>4, <2>5
<1>14. CASE shouldContinueAfterStop(w)
  <2>1. Live(w) /\ At(w, "afterStop") /\ ~At(w, "prompt") /\ UNCHANGED compactionVars
    BY <1>14 DEF shouldContinueAfterStop, Live, At
  <2>2. CASE /\ workers[w].overBudget /\ IsActive(goal)
             /\ EndTurn(w, "completed", steerBuffer, << >>, goal)
    BY <1>0, <1>1, <1>2, <2>1, <2>2 DEF Reasons
  <2>3. CASE Continues(w, "loop") /\ UNCHANGED goal /\ flushSteerBuffer
    BY <1>0, <1>1, <1>4, <2>1, <2>3 DEF Pcs, flushSteerBuffer
  <2>4. CASE Ends(w, "cancelled")
    BY <1>3, <2>1, <2>4
  <2>5. CASE ~Aborted(w) /\ Ends(w, "completed")
    BY <1>0, <1>1, <1>2, <2>1, <2>5 DEF Ends, Reasons
  <2>6. CASE /\ Continues(w, "stopHook") /\ UNCHANGED goal
             /\ UNCHANGED <<historyVars, steerBuffer>>
    BY <1>0, <1>1, <1>4, <2>1, <2>6 DEF Pcs
  <2> QED
    BY <1>14, <2>2, <2>3, <2>4, <2>5, <2>6 DEF shouldContinueAfterStop
<1>15. CASE stopHook(w)
  <2>1. Live(w) /\ ~At(w, "prompt") /\ UNCHANGED compactionVars
    BY <1>15 DEF stopHook, Live, At
  <2>2. CASE Ends(w, "cancelled")
    BY <1>3, <2>1, <2>2
  <2>3. CASE ~Aborted(w) /\ Ends(w, "completed")
    BY <1>0, <1>1, <1>2, <2>1, <2>3 DEF Ends, Reasons
  <2>4. CASE /\ workers' = [workers EXCEPT ![w].pc = "loop", ![w].hookUsed = TRUE]
             /\ appendMessage(<<0>>)
             /\ UNCHANGED <<origins, summarized, dropped, turnId, activeTurn, inputVars, recallVars,
                            resumeVars, goal>>
    <3> DEFINE r == [workers[w] EXCEPT !.pc = "loop", !.hookUsed = TRUE]
    <3>1. r \in WorkerType
      BY <1>1 DEF WorkerType, Pcs
    <3>2. /\ r.pc = "loop" /\ r.turn = workers[w].turn
          /\ r.driven = workers[w].driven /\ r.aborted = workers[w].aborted
          /\ r.prompt = workers[w].prompt
      BY <1>1 DEF WorkerType
    <3>3. workers' = [workers EXCEPT ![w] = r]
      BY <2>4
    <3> HIDE DEF r
    <3> QED
      BY <1>0, <1>1, <1>5, <2>1, <2>4, <3>1, <3>2, <3>3 DEF Pcs, inputVars, recallVars
  <2> QED
    BY <1>15, <2>2, <2>3, <2>4 DEF stopHook
<1> QED
  BY <1>6, <1>7, <1>8, <1>9, <1>10, <1>11, <1>12, <1>13, <1>14, <1>15, <1>16 DEF TurnWorker

\* Every step has one of the shapes.
LEMMA Shape == Typed /\ [FlowNext]_flowVars => Shaped
<1> SUFFICES ASSUME Typed, [FlowNext]_flowVars PROVE Shaped
  OBVIOUS
<1> USE DEF Typed
<1>1. /\ goal \in Goals /\ Len(origins) \in Nat /\ steerBuffer \in Seq(Inputs)
      /\ origins \in Seq({"user", "note"})
  BY LenProperties DEF ResumeOK, ContextOK
<1>2. ASSUME UNCHANGED turnVars, UNCHANGED <<pauses, autoResumes>>, resume' \in {resume, 0},
             goal' \in Goals
      PROVE  Shaped
  BY <1>2 DEF Shaped, Rests
<1>3. ASSUME NEW items, NEW buffer, NEW g \in Goals, launch(items, buffer, g),
             items \in Seq(Nat), \A i \in DOMAIN items : i = 1 /\ items[i] \in Items',
             UNCHANGED <<pauses, autoResumes>>
      PROVE  Shaped
  BY <1>3, Launch DEF Shaped
<1>4. ASSUME NEW origin \in {"user", "note"}, Submit(origin)
      PROVE  \A i \in DOMAIN <<Len(origins) + 1>> : i = 1 /\ <<Len(origins) + 1>>[i] \in Items'
  <2>1. origins' = Append(origins, origin)
    BY <1>4 DEF Submit
  <2>2. Len(origins') = Len(origins) + 1
    BY <1>1, <2>1, AppendProperties
  <2>3. DOMAIN <<Len(origins) + 1>> = {1} /\ <<Len(origins) + 1>>[1] = Len(origins) + 1
    OBVIOUS
  <2> QED
    BY <1>1, <2>2, <2>3 DEF Items
<1>5. CASE prompt
  <2>1. Submit("user") /\ launch(<<Len(origins) + 1>>, steerBuffer, goal)
        /\ UNCHANGED <<pauses, autoResumes>>
    BY <1>5 DEF prompt
  <2>2. <<Len(origins) + 1>> \in Seq(Nat)
    BY <1>1
  <2> QED
    BY <1>1, <1>3, <1>4, <2>1, <2>2
<1>6. ASSUME NEW origin \in {"user", "note"}, steer(origin) PROVE Shaped
  <2>1. Submit(origin) /\ UNCHANGED <<pauses, autoResumes>>
    BY <1>6 DEF steer
  <2>2. CASE UNCHANGED <<turnVars, goal, resume>>
    BY <1>1, <1>2, <2>1, <2>2
  <2>3. CASE launch(<<Len(origins) + 1>>, steerBuffer, goal)
    <3>1. <<Len(origins) + 1>> \in Seq(Nat)
      BY <1>1
    <3> QED
      BY <1>1, <1>3, <1>4, <2>1, <2>3, <3>1
  <2> QED
    BY <1>6, <2>2, <2>3 DEF steer
<1>7. CASE cancelOther
  BY <1>1, <1>2, <1>7 DEF cancelOther, resumeVars
<1>8. CASE goalCommand
  <2>1. goal' \in Goals
    BY <1>1, <1>8, GoalMoves DEF goalCommand
  <2> QED
    BY <1>2, <1>8, <2>1 DEF goalCommand, resumeVars
<1>9. CASE cancelGoal
  <2>1. goal' \in Goals
    BY <1>1, <1>9, GoalMoves DEF cancelGoal
  <2> QED
    BY <1>2, <1>9, <2>1 DEF cancelGoal, resumeVars
<1>10. CASE beginCompaction
  BY <1>1, <1>2, <1>10 DEF beginCompaction, resumeVars
<1>11. CASE cancelCompaction
  BY <1>1, <1>2, <1>11 DEF cancelCompaction, resumeVars
<1>12. ASSUME NEW c, summaryApplied(c) PROVE Shaped
  BY <1>1, <1>2, <1>12 DEF summaryApplied, resumeVars
<1>13. ASSUME NEW c, compactionOver(c) PROVE Shaped
  <2>1. UNCHANGED <<pauses, autoResumes, origins>> /\ onCompactionFinished
    BY <1>13 DEF compactionOver
  <2>2. CASE UNCHANGED <<turnVars, goal, resume>>
    BY <1>1, <1>2, <2>1, <2>2
  <2>3. CASE steerBuffer # << >> /\ launch(<<Head(steerBuffer)>>, Tail(steerBuffer), goal)
    <3>1. Head(steerBuffer) \in Inputs
      BY <1>1, <2>3, HeadTailProperties
    <3> DEFINE x == Head(steerBuffer)
    <3>2. x \in Nat /\ x \in Items'
      BY <1>1, <2>1, <3>1 DEF Inputs, Items
    <3> HIDE DEF x
    <3>3. <<x>> \in Seq(Nat) /\ \A i \in DOMAIN <<x>> : i = 1 /\ <<x>>[i] \in Items'
      BY <3>2
    <3> QED
      BY <1>1, <1>3, <2>1, <2>3, <3>3 DEF x
  <2> QED
    BY <2>1, <2>2, <2>3 DEF onCompactionFinished
<1>14. CASE fireRateLimitResume
  <2>1. CASE MayResume
    <3> DEFINE g == IF goal.status = "paused" THEN resumeGoal(goal) ELSE goal
    <3>1. g \in Goals
      BY <1>1, GoalMoves
    <3> HIDE DEF g
    <3>2. /\ launch(<< >>, steerBuffer, g) /\ autoResumes' = autoResumes + 1
          /\ resume # 0 /\ UNCHANGED <<compacting, pauses>>
      BY <1>14, <2>1 DEF fireRateLimitResume, compactionVars, g
    <3>3. activeTurn = 0 /\ compacting' = 0 /\ pauses < MaxAttempts
      BY <2>1, <3>2 DEF MayResume
    <3>4. << >> \in Seq(Nat) /\ \A i \in DOMAIN << >> : i = 1 /\ << >>[i] \in Items'
      OBVIOUS
    <3>5. Launches(<< >>, g)
      BY <3>1, <3>2, <3>3, <3>4 DEF Launches, launch, LaunchOrDefer
    <3> QED
      BY <3>5 DEF Shaped
  <2>2. CASE ~MayResume
    BY <1>1, <1>2, <1>14, <2>2 DEF fireRateLimitResume
  <2> QED
    BY <2>1, <2>2
<1>15. CASE UNCHANGED flowVars
  BY <1>1, <1>2, <1>15 DEF flowVars, resumeVars
<1>16. CASE \E recall \in BOOLEAN : cancel(recall)
  BY <1>16 DEF Shaped
<1>17. CASE User
  BY <1>5, <1>6, <1>7, <1>8, <1>9, <1>10, <1>11, <1>16, <1>17 DEF User
<1>18. CASE Workers
  <2>1. ASSUME NEW w \in Worker, TurnWorker(w) PROVE Shaped
    BY <2>1, WorkerShape DEF WorkerMoves, Shaped
  <2> QED
    BY <1>12, <1>13, <1>18, <2>1 DEF Workers, CompactionWorker
<1> QED
  BY <1>14, <1>15, <1>17, <1>18 DEF FlowNext

-----------------------------------------------------------------------------
(* The workers, the active turn and the retries *)

\* The record of a worker that starts, or goes on to, a turn.
LEMMA NewWorkerFacts ==
  ASSUME Typed, NEW n \in Nat, NEW items \in Seq(Nat), NEW driven \in BOOLEAN,
         NEW aborted \in BOOLEAN, \A i \in DOMAIN items : i = 1 /\ items[i] \in 0..n
  PROVE  /\ WorkerOK(NewWorker(items, driven, aborted), turnId + 1, n)
         /\ WorkerOK(EndedWorker(NewWorker(items, driven, aborted)), turnId + 1, n)
<1> DEFINE r == NewWorker(items, driven, aborted)
           e == EndedWorker(r)
<1>1. turnId + 1 \in Nat /\ 0 \in 0..MaxSteps /\ 0 \in 0..MaxCompactions
  BY FlowAssumption, MaxCompactionsAssumption DEF Typed, WorkersOK
<1>2. r \in WorkerType /\ r.turn = turnId + 1 /\ r.prompt = items /\ r.pc = "prompt"
  BY <1>1 DEF NewWorker, WorkerType, Pcs
<1>3. << >> \in Seq(Nat) /\ DOMAIN << >> = {}
  OBVIOUS
<1>4. e.turn = turnId + 1 /\ e.prompt = << >> /\ e.pc = "done"
  BY DEF NewWorker, EndedWorker
<1>5. e \in WorkerType
  <2> HIDE DEF r
  <2> QED
    BY <1>1, <1>2, <1>3 DEF EndedWorker, WorkerType, Pcs
<1> HIDE DEF r, e
<1>6. r.turn <= turnId + 1 /\ e.turn <= turnId + 1
  BY <1>1, <1>2, <1>4
<1>7. WorkerOK(r, turnId + 1, n)
  BY <1>2, <1>6 DEF WorkerOK
<1>8. WorkerOK(e, turnId + 1, n)
  BY <1>3, <1>4, <1>5, <1>6 DEF WorkerOK
<1> QED
  BY <1>7, <1>8 DEF r, e

\* What the shapes do to the sequence of workers.
LEMMA LaunchedWorkers ==
  ASSUME Typed, NEW items, NEW g, Launches(items, g), Len(origins') \in Nat,
         Len(origins) <= Len(origins')
  PROVE  \E r : /\ workers' = Append(workers, r) /\ WorkerOK(r, turnId', Len(origins'))
                /\ turnId' = turnId + 1 /\ r.turn = turnId' /\ ~r.aborted
                /\ \/ r.pc = "done" /\ activeTurn' = 0
                   \/ r.pc = "prompt" /\ r.prompt = items /\ activeTurn' = Len(workers) + 1
                /\ goal' \in Goals
<1>1. IsActive(g) \in BOOLEAN
  BY DEF IsActive
<1>2. /\ items \in Seq(Nat) /\ \A i \in DOMAIN items : i = 1 /\ items[i] \in 0..Len(origins')
      /\ turnId' = turnId + 1 /\ activeTurn = 0
      /\ markBlocked(g) \in Goals /\ incrementTurn(g) \in Goals
  BY GoalMoves DEF Launches, StartWorker, Items
<1>3. CASE IsActive(g) /\ overBudget(g)
  <2> DEFINE r == EndedWorker(NewWorker(items, TRUE, FALSE))
  <2>1. workers' = Append(workers, r) /\ activeTurn' = 0 /\ goal' = markBlocked(g)
    BY <1>2, <1>3 DEF Launches, StartWorker
  <2>2. WorkerOK(r, turnId', Len(origins'))
    BY <1>2, NewWorkerFacts
  <2>3. r.turn = turnId + 1 /\ r.aborted = FALSE /\ r.pc = "done"
    BY DEF NewWorker, EndedWorker
  <2> HIDE DEF r
  <2> QED
    BY <1>2, <2>1, <2>2, <2>3
<1>4. CASE ~(IsActive(g) /\ overBudget(g))
  <2> DEFINE r == NewWorker(items, IsActive(g), FALSE)
  <2>1. workers' = Append(workers, r) /\ activeTurn' = Len(workers) + 1
        /\ goal' = incrementTurn(g)
    BY <1>4 DEF Launches, StartWorker
  <2>2. WorkerOK(r, turnId', Len(origins'))
    BY <1>1, <1>2, NewWorkerFacts
  <2>3. r.turn = turnId + 1 /\ r.aborted = FALSE /\ r.pc = "prompt" /\ r.prompt = items
    BY DEF NewWorker
  <2> HIDE DEF r
  <2> QED
    BY <1>2, <2>1, <2>2, <2>3
<1> QED
  BY <1>3, <1>4

\* A worker whose turn ends drives another one or is done.
LEMMA FinishedWorkers ==
  ASSUME Typed, NEW w, NEW reason, NEW items, NEW buffer, NEW g,
         Finishes(w, reason, items, buffer, g)
  PROVE  \E r :
           /\ workers' = [workers EXCEPT ![w] = r] /\ WorkerOK(r, turnId', Len(origins))
           /\ UNCHANGED origins /\ goal' \in Goals
           /\ r.aborted = workers[w].aborted
           /\ \/ /\ GoesOn(w, reason, g) /\ turnId' = turnId + 1 /\ r.turn = turnId'
                 /\ r.pc = "prompt" /\ r.prompt = << 0 >> /\ r.driven /\ UNCHANGED activeTurn
              \/ /\ ~GoesOn(w, reason, g) /\ turnId' = turnId /\ r.turn = workers[w].turn
                 /\ r.pc = "done" /\ r.driven = workers[w].driven
                 /\ activeTurn' = release(w, g)
<1>1. /\ WorkerOK(workers[w], turnId, Len(origins)) /\ w \in 1..Len(workers)
      /\ workers[w] \in WorkerType /\ Aborted(w) \in BOOLEAN /\ Len(origins) \in Nat
  BY LenProperties
     DEF Typed, WorkersOK, ContextOK, Finishes, Worker, WorkerOK, Aborted, WorkerType
<1>2. GoalAfter(w, reason, g) \in Goals /\ incrementTurn(GoalAfter(w, reason, g)) \in Goals
  BY GoalAfterTurn DEF Finishes
<1>3. CASE GoesOn(w, reason, g)
  <2> DEFINE r == NewWorker(<< 0 >>, TRUE, Aborted(w))
  <2>1. /\ workers' = [workers EXCEPT ![w] = r] /\ turnId' = turnId + 1
        /\ UNCHANGED <<activeTurn, origins>>
        /\ goal' = incrementTurn(GoalAfter(w, reason, g))
    BY <1>3 DEF Finishes, EndTurn
  <2>2. << 0 >> \in Seq(Nat) /\ \A i \in DOMAIN << 0 >> : i = 1 /\ << 0 >>[i] \in 0..Len(origins)
    BY <1>1
  <2>3. WorkerOK(r, turnId + 1, Len(origins))
    BY <1>1, <2>2, NewWorkerFacts
  <2>4. r.turn = turnId + 1 /\ r.aborted = Aborted(w) /\ r.pc = "prompt" /\ r.prompt = << 0 >>
        /\ r.driven = TRUE
    BY DEF NewWorker
  <2> HIDE DEF r
  <2> QED
    BY <1>2, <1>3, <2>1, <2>3, <2>4 DEF Aborted
<1>4. CASE ~GoesOn(w, reason, g)
  <2> DEFINE r == EndedWorker(workers[w])
  <2>1. /\ workers' = [workers EXCEPT ![w] = r] /\ turnId' = turnId
        /\ activeTurn' = release(w, g) /\ UNCHANGED origins
        /\ goal' = GoalAfter(w, reason, g)
    BY <1>4 DEF Finishes, EndTurn
  <2>2. << >> \in Seq(Nat) /\ DOMAIN << >> = {} /\ 0 \in 0..MaxSteps /\ 0 \in 0..MaxCompactions
    BY FlowAssumption, MaxCompactionsAssumption
  <2>3. r \in WorkerType
    BY <1>1, <2>2 DEF EndedWorker, WorkerType, Pcs
  <2>4. /\ r.turn = workers[w].turn /\ r.aborted = workers[w].aborted
        /\ r.driven = workers[w].driven /\ r.pc = "done" /\ r.prompt = << >>
    BY <1>1 DEF EndedWorker, WorkerType
  <2> HIDE DEF r
  <2>5. WorkerOK(r, turnId, Len(origins))
    BY <1>1, <2>2, <2>3, <2>4 DEF WorkerOK
  <2> QED
    BY <1>2, <1>4, <2>1, <2>4, <2>5
<1> QED
  BY <1>3, <1>4

\* Inputs are only added.
LEMMA OriginsGrow ==
  ASSUME Typed, [FlowNext]_flowVars
  PROVE  \/ UNCHANGED origins
         \/ \E o \in {"user", "note"} : Submit(o) /\ (prompt \/ steer(o))
<1>1. ASSUME NEW w, NEW reason, NEW items, NEW buffer, NEW g, EndTurn(w, reason, items, buffer, g)
      PROVE  UNCHANGED origins
  BY <1>1 DEF EndTurn
<1>2. ASSUME NEW w, NEW pc, Continues(w, pc) PROVE UNCHANGED origins
  BY <1>2 DEF Continues
<1>3. ASSUME NEW w, TurnWorker(w) PROVE UNCHANGED origins
  <2>1. ASSUME appendPrompt(w) \/ promptLost(w) \/ applyUserPromptHook(w) PROVE UNCHANGED origins
    BY <1>1, <1>2, <2>1 DEF appendPrompt, promptLost, applyUserPromptHook, Ends
  <2>2. ASSUME beforeStep(w) \/ compacted(w) PROVE UNCHANGED origins
    BY <1>1, <1>2, <2>2 DEF beforeStep, compacted, stepBegin, Ends, contextVars
  <2>3. ASSUME overflow(w) \/ overflowHandled(w) PROVE UNCHANGED origins
    BY <1>1, <1>2, <2>3 DEF overflow, overflowHandled, Ends, contextVars
  <2>4. ASSUME executeLoopStep(w) \/ runToolCallBatch(w) PROVE UNCHANGED origins
    BY <1>1, <1>2, <2>4 DEF executeLoopStep, runToolCallBatch, Ends
  <2>5. ASSUME shouldContinueAfterStop(w) \/ stopHook(w) PROVE UNCHANGED origins
    BY <1>1, <1>2, <2>5 DEF shouldContinueAfterStop, stopHook, Ends
  <2> QED
    BY <1>3, <2>1, <2>2, <2>3, <2>4, <2>5 DEF TurnWorker
<1>4. ASSUME Workers PROVE UNCHANGED origins
  BY <1>3, <1>4 DEF Workers, CompactionWorker, summaryApplied, compactionOver
<1>5. ASSUME NEW recall, cancel(recall) PROVE UNCHANGED origins
  BY <1>5 DEF cancel, contextVars
<1>6. ASSUME cancelOther \/ goalCommand \/ cancelGoal \/ beginCompaction \/ cancelCompaction
      PROVE  UNCHANGED origins
  BY <1>6 DEF cancelOther, goalCommand, cancelGoal, beginCompaction, cancelCompaction, contextVars
<1>7. ASSUME prompt PROVE \E o \in {"user", "note"} : Submit(o) /\ (prompt \/ steer(o))
  BY <1>7 DEF prompt
<1>8. ASSUME NEW o \in {"user", "note"}, steer(o)
      PROVE  \E x \in {"user", "note"} : Submit(x) /\ (prompt \/ steer(x))
  BY <1>8 DEF steer
<1>9. ASSUME fireRateLimitResume PROVE UNCHANGED origins
  BY <1>9 DEF fireRateLimitResume
<1>10. CASE UNCHANGED flowVars
  BY <1>10 DEF flowVars, contextVars
<1> QED
  BY <1>4, <1>5, <1>6, <1>7, <1>8, <1>9, <1>10 DEF FlowNext, User

\* The inputs keep their origins, and their number only grows.
LEMMA OriginsType ==
  ASSUME Typed, [FlowNext]_flowVars
  PROVE  /\ origins' \in Seq({"user", "note"}) /\ Len(origins) \in Nat
         /\ Len(origins') \in Nat /\ Len(origins) <= Len(origins')
         /\ \A i \in 1..Len(origins) : origins'[i] = origins[i]
<1>1. origins \in Seq({"user", "note"}) /\ Len(origins) \in Nat
  BY LenProperties DEF Typed, ContextOK
<1>2. CASE UNCHANGED origins
  BY <1>1, <1>2
<1>3. ASSUME NEW o \in {"user", "note"}, origins' = Append(origins, o)
      PROVE  /\ origins' \in Seq({"user", "note"}) /\ Len(origins') = Len(origins) + 1
             /\ \A i \in 1..Len(origins) : origins'[i] = origins[i]
  BY <1>1, <1>3, AppendProperties
<1> QED
  BY <1>1, <1>2, <1>3, OriginsGrow DEF Submit

\* The workers keep their types.
LEMMA WorkersStep == Typed /\ [FlowNext]_flowVars => WorkersOK' /\ (goal \in Goals)'
<1> SUFFICES ASSUME Typed, [FlowNext]_flowVars PROVE WorkersOK' /\ goal' \in Goals
  OBVIOUS
<1>1. /\ workers \in Seq(WorkerType) /\ turnId \in Nat /\ activeTurn \in 0..Len(workers)
      /\ Len(workers) \in Nat /\ DOMAIN workers = 1..Len(workers)
      /\ \A w \in 1..Len(workers) :
           workers[w] \in WorkerType /\ WorkerOK(workers[w], turnId, Len(origins))
      /\ goal \in Goals
  BY LenProperties, ElementOfSeq DEF Typed, WorkersOK, ResumeOK, Worker
<1>2. Len(origins) \in Nat /\ Len(origins') \in Nat /\ Len(origins) <= Len(origins')
  BY OriginsType
<1>3. \A r : \A id \in Nat : WorkerOK(r, turnId, Len(origins)) /\ turnId <= id
        => WorkerOK(r, id, Len(origins'))
  <2> SUFFICES ASSUME NEW r, NEW id \in Nat, WorkerOK(r, turnId, Len(origins)), turnId <= id
               PROVE  WorkerOK(r, id, Len(origins'))
    OBVIOUS
  <2>1. r.turn \in Nat /\ r.turn <= turnId
    BY DEF WorkerOK, WorkerType
  <2>2. r.turn <= id
    BY <1>1, <2>1
  <2>3. 0..Len(origins) \subseteq 0..Len(origins')
    BY <1>2
  <2> QED
    BY <2>2, <2>3 DEF WorkerOK
<1>4. ASSUME NEW w \in 1..Len(workers), NEW r, workers' = [workers EXCEPT ![w] = r],
             turnId' \in Nat, turnId <= turnId', WorkerOK(r, turnId', Len(origins')),
             activeTurn' \in 0..Len(workers)
      PROVE  WorkersOK'
  <2>1. r \in WorkerType
    BY <1>4 DEF WorkerOK
  <2>2. /\ workers' \in Seq(WorkerType) /\ Len(workers') = Len(workers)
        /\ \A v \in 1..Len(workers) : workers'[v] = IF v = w THEN r ELSE workers[v]
    BY <1>1, <1>4, <2>1, ExceptSeq
  <2>3. \A v \in 1..Len(workers) : WorkerOK(workers'[v], turnId', Len(origins'))
    BY <1>1, <1>3, <1>4, <2>2
  <2> QED
    BY <1>4, <2>2, <2>3 DEF WorkersOK, Worker
<1>5. CASE Rests
  <2>1. UNCHANGED <<turnId, activeTurn, workers>> /\ goal' \in Goals
    BY <1>5 DEF Rests, turnVars
  <2>2. \A w \in 1..Len(workers) : WorkerOK(workers[w], turnId, Len(origins'))
    <3>1. turnId <= turnId
      BY <1>1
    <3> QED
      BY <1>1, <1>3, <3>1
  <2> QED
    BY <1>1, <2>1, <2>2 DEF WorkersOK, Worker
<1>6. ASSUME NEW w \in Worker, Proceeds(w) PROVE WorkersOK' /\ goal' \in Goals
  <2>1. PICK r : workers' = [workers EXCEPT ![w] = r] /\ WorkerOK(r, turnId, Len(origins))
    BY <1>6 DEF Proceeds
  <2>2. UNCHANGED <<origins, turnId, activeTurn>> /\ goal' \in Goals
    BY <1>6 DEF Proceeds
  <2>3. turnId <= turnId
    BY <1>1
  <2> QED
    BY <1>1, <1>4, <2>1, <2>2, <2>3 DEF Worker
<1>7. ASSUME NEW items, NEW g, Launches(items, g) PROVE WorkersOK' /\ goal' \in Goals
  <2>1. PICK r : /\ workers' = Append(workers, r) /\ WorkerOK(r, turnId', Len(origins'))
                 /\ turnId' = turnId + 1 /\ activeTurn' \in {0, Len(workers) + 1}
                 /\ goal' \in Goals
    BY <1>2, <1>7, LaunchedWorkers
  <2>2. r \in WorkerType
    BY <2>1 DEF WorkerOK
  <2>3. /\ workers' \in Seq(WorkerType) /\ Len(workers') = Len(workers) + 1
        /\ \A v \in 1..Len(workers) : workers'[v] = workers[v]
        /\ workers'[Len(workers) + 1] = r
    BY <1>1, <2>1, <2>2, AppendProperties
  <2>4. \A v \in 1..Len(workers') : WorkerOK(workers'[v], turnId', Len(origins'))
    <3>1. turnId' \in Nat /\ turnId <= turnId'
      BY <1>1, <2>1
    <3>2. \A v \in 1..Len(workers) : WorkerOK(workers'[v], turnId', Len(origins'))
      BY <1>1, <1>3, <2>3, <3>1
    <3>3. \A v \in 1..Len(workers') : v \in 1..Len(workers) \/ v = Len(workers) + 1
      BY <1>1, <2>3
    <3> QED
      BY <2>1, <2>3, <3>2, <3>3
  <2>5. activeTurn' \in 0..Len(workers') /\ turnId' \in Nat
    BY <1>1, <2>1, <2>3
  <2> QED
    BY <2>1, <2>3, <2>4, <2>5 DEF WorkersOK, Worker
<1>8. ASSUME NEW w, NEW reason, NEW items, NEW buffer, NEW g,
             Finishes(w, reason, items, buffer, g)
      PROVE  WorkersOK' /\ goal' \in Goals
  <2>1. PICK r : /\ workers' = [workers EXCEPT ![w] = r] /\ WorkerOK(r, turnId', Len(origins))
                 /\ UNCHANGED origins /\ goal' \in Goals
                 /\ turnId' \in {turnId, turnId + 1}
                 /\ activeTurn' = activeTurn \/ activeTurn' = release(w, g)
    BY <1>8, FinishedWorkers
  <2>2. activeTurn' \in 0..Len(workers)
    BY <1>1, <2>1 DEF release
  <2>3. w \in 1..Len(workers) /\ turnId' \in Nat /\ turnId <= turnId'
    BY <1>1, <1>8, <2>1 DEF Finishes, Worker
  <2> QED
    BY <1>4, <2>1, <2>2, <2>3
<1>9. ASSUME NEW recall, cancel(recall) PROVE WorkersOK' /\ goal' \in Goals
  <2> DEFINE r == [workers[activeTurn] EXCEPT !.aborted = TRUE]
  <2>1. activeTurn \in 1..Len(workers) /\ activeTurn' = 0
        /\ UNCHANGED <<turnId, origins, goal>>
    BY <1>1, <1>9 DEF cancel, contextVars
  <2>2. workers' = [workers EXCEPT ![activeTurn] = r]
    BY <1>9 DEF cancel
  <2>3. r \in WorkerType /\ r.turn = workers[activeTurn].turn /\ r.pc = workers[activeTurn].pc
        /\ r.prompt = workers[activeTurn].prompt /\ r.steps = workers[activeTurn].steps
    BY <1>1, <2>1 DEF WorkerType
  <2> HIDE DEF r
  <2>4. WorkerOK(r, turnId, Len(origins))
    BY <1>1, <2>1, <2>3 DEF WorkerOK
  <2>5. turnId <= turnId /\ 0 \in 0..Len(workers)
    BY <1>1
  <2> QED
    BY <1>1, <1>4, <2>1, <2>2, <2>4, <2>5
<1> QED
  BY <1>5, <1>6, <1>7, <1>8, <1>9, Shape DEF Shaped

\* No worker is forgotten.
LEMMA WorkersGrow ==
  ASSUME Typed, [FlowNext]_flowVars
  PROVE  Len(workers) \in Nat /\ Len(workers') \in Nat /\ Len(workers) <= Len(workers')
<1>1. /\ workers \in Seq(WorkerType) /\ Len(workers) \in Nat /\ activeTurn \in 0..Len(workers)
      /\ \A w \in 1..Len(workers) : workers[w] \in WorkerType
  BY LenProperties, ElementOfSeq DEF Typed, WorkersOK
<1>2. ASSUME NEW w \in 1..Len(workers), NEW r \in WorkerType, workers' = [workers EXCEPT ![w] = r]
      PROVE  Len(workers') = Len(workers)
  BY <1>1, <1>2, ExceptSeq
<1>3. CASE Rests
  BY <1>1, <1>3 DEF Rests, turnVars
<1>4. ASSUME NEW w \in Worker, Proceeds(w) PROVE Len(workers') = Len(workers)
  BY <1>2, <1>4 DEF Proceeds, Worker, WorkerOK
<1>5. ASSUME NEW items, NEW g, Launches(items, g) PROVE Len(workers') = Len(workers) + 1
  <2>1. PICK r : workers' = Append(workers, r) /\ r \in WorkerType
    BY <1>5, LaunchedWorkers, OriginsType DEF WorkerOK
  <2> QED
    BY <1>1, <2>1, AppendProperties
<1>6. ASSUME NEW w, NEW reason, NEW items, NEW buffer, NEW g,
             Finishes(w, reason, items, buffer, g)
      PROVE  Len(workers') = Len(workers)
  <2>1. PICK r : workers' = [workers EXCEPT ![w] = r] /\ r \in WorkerType
    BY <1>6, FinishedWorkers DEF WorkerOK
  <2>2. w \in 1..Len(workers)
    BY <1>6 DEF Finishes, Worker
  <2> QED
    BY <1>2, <2>1, <2>2
<1>7. ASSUME NEW recall, cancel(recall) PROVE Len(workers') = Len(workers)
  <2> DEFINE r == [workers[activeTurn] EXCEPT !.aborted = TRUE]
  <2>1. activeTurn \in 1..Len(workers) /\ workers' = [workers EXCEPT ![activeTurn] = r]
    BY <1>1, <1>7 DEF cancel
  <2>2. r \in WorkerType
    BY <1>1, <2>1 DEF WorkerType
  <2> HIDE DEF r
  <2> QED
    BY <1>2, <2>1, <2>2
<1> QED
  BY <1>1, <1>3, <1>4, <1>5, <1>6, <1>7, Shape DEF Shaped

\* Only a worker opens an exchange, its own.
LEMMA ExchangeStep == Typed /\ ExchangeOK /\ [FlowNext]_flowVars => ExchangeOK'
<1> SUFFICES ASSUME Typed, ExchangeOK, [FlowNext]_flowVars PROVE ExchangeOK'
  OBVIOUS
<1> DEFINE Legal == exchange' = exchange \/ exchange' = 0 \/ exchange' \in Worker
<1> USE DEF historyVars
<1>1. ASSUME NEW hist, ClosesWith(hist) PROVE Legal
  BY <1>1 DEF ClosesWith
<1>2. ASSUME NEW items, appendMessage(items) PROVE Legal
  BY <1>2 DEF appendMessage
<1>3. ASSUME NEW w, NEW reason, NEW items, NEW buffer, NEW g, EndTurn(w, reason, items, buffer, g)
      PROVE  Legal
  <2>1. \E hist : ClosesWith(hist)
    BY <1>3 DEF EndTurn, withdrawInput
  <2> QED
    BY <1>1, <2>1
<1>4. ASSUME NEW items, NEW buffer, NEW g, launch(items, buffer, g) PROVE Legal
  BY <1>2, <1>4 DEF launch, LaunchOrDefer, StartWorker
<1>5. ASSUME UNCHANGED historyVars PROVE Legal
  BY <1>5
<1>6. ASSUME UNCHANGED contextVars PROVE Legal
  BY <1>6 DEF contextVars
<1> HIDE DEF historyVars
<1>7. ASSUME NEW w \in Worker, TurnWorker(w) PROVE Legal
  <2>1. CASE appendPrompt(w) \/ promptLost(w) \/ applyUserPromptHook(w)
    BY <1>2, <1>3, <1>5, <2>1 DEF appendPrompt, promptLost, applyUserPromptHook, Ends
  <2>2. CASE beforeStep(w) \/ compacted(w)
    BY <1>1, <1>3, <1>6, <2>2 DEF beforeStep, compacted, stepBegin, Ends
  <2>3. CASE overflow(w) \/ overflowHandled(w)
    BY <1>3, <1>5, <1>6, <2>3 DEF overflow, overflowHandled, Ends
  <2>4. CASE executeLoopStep(w)
    BY <1>3, <2>4 DEF executeLoopStep, Ends
  <2>5. CASE runToolCallBatch(w)
    BY <1>1, <1>3, <1>5, <2>5 DEF runToolCallBatch
  <2>6. CASE shouldContinueAfterStop(w) \/ stopHook(w)
    BY <1>2, <1>3, <1>5, <2>6 DEF shouldContinueAfterStop, stopHook, flushSteerBuffer, Ends
  <2> QED
    BY <1>7, <2>1, <2>2, <2>3, <2>4, <2>5, <2>6 DEF TurnWorker
<1>8. ASSUME NEW c, CompactionWorker(c) PROVE Legal
  BY <1>1, <1>2, <1>4, <1>8
     DEF CompactionWorker, summaryApplied, applyCompaction, compactionOver, onCompactionFinished
<1>9. ASSUME NEW o, steer(o) PROVE Legal
  BY <1>4, <1>5, <1>9 DEF steer
<1>10. ASSUME prompt \/ fireRateLimitResume PROVE Legal
  BY <1>4, <1>5, <1>10 DEF prompt, fireRateLimitResume
<1>11. ASSUME NEW recall, cancel(recall) PROVE Legal
  BY <1>6, <1>11 DEF cancel
<1>12. ASSUME cancelOther \/ goalCommand \/ cancelGoal \/ beginCompaction \/ cancelCompaction
       PROVE  Legal
  BY <1>2, <1>6, <1>12
     DEF cancelOther, goalCommand, cancelGoal, beginCompaction, cancelCompaction
<1>13. ASSUME UNCHANGED flowVars PROVE Legal
  BY <1>6, <1>13 DEF flowVars
<1>14. Legal
  BY <1>7, <1>8, <1>9, <1>10, <1>11, <1>12, <1>13 DEF FlowNext, User, Workers
<1> QED
  BY <1>14, WorkersGrow DEF ExchangeOK, Worker

\* The retries keep within the pauses.
LEMMA ResumeStep == Typed /\ [FlowNext]_flowVars => ResumeOK'
<1> SUFFICES ASSUME Typed, [FlowNext]_flowVars PROVE ResumeOK'
  OBVIOUS
<1>1. /\ turnId \in Nat /\ resume \in 0..turnId /\ pauses \in Nat
      /\ autoResumes \in 0..MaxAttempts /\ autoResumes <= pauses + 1
      /\ resume # 0 => autoResumes <= pauses
      /\ MaxAttempts \in Nat
  BY FlowAssumption DEF Typed, WorkersOK, ResumeOK
<1>2. goal' \in Goals /\ turnId' \in Nat
  BY WorkersStep DEF WorkersOK
<1>3. CASE Rests
  <2>1. UNCHANGED <<turnId, pauses, autoResumes>> /\ resume' \in {resume, 0}
    BY <1>3 DEF Rests, turnVars
  <2> QED
    BY <1>1, <1>2, <2>1 DEF ResumeOK
<1>4. ASSUME NEW w \in Worker, Proceeds(w) PROVE ResumeOK'
  <2>1. UNCHANGED <<turnId, pauses, autoResumes, resume>>
    BY <1>4 DEF Proceeds, resumeVars
  <2> QED
    BY <1>1, <1>2, <2>1 DEF ResumeOK
<1>5. ASSUME NEW items, NEW g, Launches(items, g) PROVE ResumeOK'
  <2>1. /\ resume' = 0 /\ UNCHANGED pauses
        /\ \/ UNCHANGED autoResumes
           \/ resume # 0 /\ pauses < MaxAttempts /\ autoResumes' = autoResumes + 1
    BY <1>5 DEF Launches
  <2> QED
    BY <1>1, <1>2, <2>1 DEF ResumeOK
<1>6. ASSUME NEW w, NEW reason, NEW items, NEW buffer, NEW g,
             Finishes(w, reason, items, buffer, g)
      PROVE  ResumeOK'
  <2>1. turnId' \in {turnId, turnId + 1}
    BY <1>6, FinishedWorkers
  <2>2. workers[w].turn \in 0..turnId
    BY <1>1, <1>6 DEF Typed, WorkersOK, WorkerOK, WorkerType, Finishes
  <2>3. countPauses(w, reason)
    BY <1>6 DEF Finishes, EndTurn
  <2>4. \/ resume' = workers[w].turn /\ pauses' = pauses + 1 /\ UNCHANGED autoResumes
        \/ pauses' = 0 /\ autoResumes' = 0 /\ UNCHANGED resume
        \/ UNCHANGED <<pauses, autoResumes, resume>>
    BY <2>3 DEF countPauses, resumeVars
  <2> QED
    BY <1>1, <1>2, <2>1, <2>2, <2>4 DEF ResumeOK
<1>7. ASSUME NEW recall, cancel(recall) PROVE ResumeOK'
  <2>1. resume' = 0 /\ UNCHANGED <<turnId, pauses, autoResumes>>
    BY <1>7 DEF cancel
  <2> QED
    BY <1>1, <1>2, <2>1 DEF ResumeOK
<1> QED
  BY <1>3, <1>4, <1>5, <1>6, <1>7, Shape DEF Shaped

\* The active turn stays the one that runs and was not cancelled.
LEMMA TurnsStep == Typed /\ TurnsOK /\ [FlowNext]_flowVars => TurnsOK'
<1> SUFFICES ASSUME Typed, TurnsOK, [FlowNext]_flowVars PROVE TurnsOK'
  OBVIOUS
<1> USE DEF TurnsOK, OneLiveTurn, ParkedForLastTurn, Live, Aborted, Worker
<1>1. /\ workers \in Seq(WorkerType) /\ turnId \in Nat /\ activeTurn \in 0..Len(workers)
      /\ Len(workers) \in Nat /\ DOMAIN workers = 1..Len(workers)
      /\ \A w \in 1..Len(workers) :
           /\ workers[w] \in WorkerType /\ workers[w].turn \in Nat /\ workers[w].turn <= turnId
           /\ workers[w].driven \in BOOLEAN /\ workers[w].aborted \in BOOLEAN
      /\ resume \in 0..turnId
  BY LenProperties, ElementOfSeq DEF Typed, WorkersOK, ResumeOK, WorkerOK, WorkerType
<1>2. ASSUME NEW w \in 1..Len(workers), NEW r, r \in WorkerType, workers' = [workers EXCEPT ![w] = r]
      PROVE  /\ Len(workers') = Len(workers)
             /\ \A v \in 1..Len(workers) : workers'[v] = IF v = w THEN r ELSE workers[v]
  BY <1>1, <1>2, ExceptSeq
<1>3. CASE Rests
  <2>1. UNCHANGED <<turnId, activeTurn, workers>> /\ resume' \in {resume, 0}
    BY <1>3 DEF Rests, turnVars
  <2> QED
    BY <2>1
<1>4. ASSUME NEW w \in Worker, Proceeds(w) PROVE TurnsOK'
  <2>1. PICK r : /\ workers' = [workers EXCEPT ![w] = r] /\ WorkerOK(r, turnId, Len(origins))
                 /\ r.pc # "done" /\ r.turn = workers[w].turn
                 /\ r.driven = workers[w].driven /\ r.aborted = workers[w].aborted
    BY <1>4 DEF Proceeds
  <2>2. /\ Len(workers') = Len(workers)
        /\ \A v \in 1..Len(workers) : workers'[v] = IF v = w THEN r ELSE workers[v]
    BY <1>2, <2>1 DEF WorkerOK
  <2>3. UNCHANGED <<turnId, activeTurn, resume>> /\ workers[w].pc # "done"
    BY <1>4 DEF Proceeds, resumeVars
  <2>4. \A v \in 1..Len(workers) :
          /\ workers'[v].turn = workers[v].turn /\ workers'[v].driven = workers[v].driven
          /\ workers'[v].aborted = workers[v].aborted
          /\ workers'[v].pc # "done" <=> workers[v].pc # "done"
    BY <2>1, <2>2, <2>3
  <2> QED
    BY <1>1, <2>2, <2>3, <2>4, SMTT(30)
<1>5. ASSUME NEW items, NEW g, Launches(items, g) PROVE TurnsOK'
  <2>1. PICK r : /\ workers' = Append(workers, r) /\ r \in WorkerType
                 /\ turnId' = turnId + 1 /\ r.turn = turnId' /\ ~r.aborted
                 /\ \/ r.pc = "done" /\ activeTurn' = 0
                    \/ r.pc = "prompt" /\ activeTurn' = Len(workers) + 1
    BY <1>5, LaunchedWorkers, OriginsType DEF WorkerOK
  <2>2. /\ Len(workers') = Len(workers) + 1
        /\ \A v \in 1..Len(workers) : workers'[v] = workers[v]
        /\ workers'[Len(workers) + 1] = r
    BY <1>1, <2>1, AppendProperties
  <2>3. activeTurn = 0 /\ resume' = 0
    BY <1>5 DEF Launches
  <2>4. \A v \in 1..Len(workers') : v \in 1..Len(workers) \/ v = Len(workers) + 1
    BY <1>1, <2>2
  <2>5. \A v \in 1..Len(workers) : workers'[v].turn < turnId'
    BY <1>1, <2>1, <2>2
  <2>6. \A v \in 1..Len(workers') : workers'[v].turn <= turnId' /\ workers'[v].turn \in Nat
    BY <1>1, <2>1, <2>2, <2>4, <2>5
  <2>7. \A v \in 1..Len(workers) : workers'[v].pc # "done" => workers'[v].aborted
    BY <1>1, <2>2, <2>3
  <2>8. CASE r.pc = "done" /\ activeTurn' = 0
    <3>1. OneLiveTurn'
      BY <2>2, <2>4, <2>7, <2>8
    <3> QED
      BY <2>3, <2>8, <3>1
  <2>9. CASE r.pc = "prompt" /\ activeTurn' = Len(workers) + 1
    <3>1. OneLiveTurn'
      BY <2>2, <2>4, <2>7, <2>9
    <3>2. activeTurn' # 0 =>
            /\ Live(activeTurn)' /\ ~Aborted(activeTurn)'
            /\ \A w \in Worker' : ~(workers'[w].turn > workers'[activeTurn'].turn)
      BY <1>1, <2>1, <2>2, <2>6, <2>9
    <3>3. \A w \in Worker' : workers'[w].turn = turnId' => w = activeTurn'
      <4>1. \A v \in 1..Len(workers) : workers'[v].turn # turnId'
        BY <1>1, <2>1, <2>2
      <4> QED
        BY <2>4, <2>9, <4>1
    <3> QED
      BY <2>3, <3>1, <3>2, <3>3
  <2> QED
    BY <2>1, <2>8, <2>9
<1>6. ASSUME NEW w, NEW reason, NEW items, NEW buffer, NEW g,
             Finishes(w, reason, items, buffer, g)
      PROVE  TurnsOK'
  <2>1. PICK r :
          /\ workers' = [workers EXCEPT ![w] = r] /\ r \in WorkerType
          /\ r.aborted = workers[w].aborted
          /\ \/ /\ GoesOn(w, reason, g) /\ turnId' = turnId + 1 /\ r.turn = turnId'
                /\ r.pc = "prompt" /\ r.driven /\ UNCHANGED activeTurn
             \/ /\ ~GoesOn(w, reason, g) /\ turnId' = turnId /\ r.turn = workers[w].turn
                /\ r.pc = "done" /\ r.driven = workers[w].driven
                /\ activeTurn' = release(w, g)
    BY <1>6, FinishedWorkers DEF WorkerOK
  <2>2. w \in 1..Len(workers) /\ workers[w].pc # "done"
    BY <1>6 DEF Finishes
  <2>3. /\ Len(workers') = Len(workers)
        /\ \A v \in 1..Len(workers) : workers'[v] = IF v = w THEN r ELSE workers[v]
    BY <1>2, <2>1, <2>2
  <2>4. \/ reason = "paused" /\ ~workers[w].aborted /\ resume' = workers[w].turn
        \/ reason # "paused" /\ UNCHANGED resume
    BY <1>6 DEF Finishes, EndTurn, countPauses, resumeVars
  <2>5. CASE GoesOn(w, reason, g)
    <3>1. UNCHANGED resume
      BY <2>4, <2>5 DEF GoesOn
    <3>2. /\ turnId' = turnId + 1 /\ r.turn = turnId + 1 /\ r.pc = "prompt" /\ r.driven
          /\ UNCHANGED activeTurn
      BY <2>1, <2>5
    <3>3. OneLiveTurn'
      BY <2>1, <2>2, <2>3, <3>2
    <3>4. ASSUME resume' # 0
          PROVE  activeTurn' = 0 /\ \A v \in Worker' : workers'[v].turn > resume' => workers'[v].aborted
      <4>1. /\ activeTurn = 0 /\ workers[w].aborted
            /\ \A v \in Worker : workers[v].turn > resume => workers[v].aborted
        BY <2>2, <3>1, <3>4
      <4>2. Worker' = Worker
        BY <2>3 DEF Worker
      <4>3. ASSUME NEW v \in Worker, workers'[v].turn > resume PROVE workers'[v].aborted
        <5>1. CASE v = w
          BY <2>1, <2>3, <4>1, <5>1
        <5>2. CASE v # w
          BY <2>3, <4>1, <4>3, <5>2
        <5> QED BY <5>1, <5>2
      <4> QED
        BY <3>1, <3>2, <4>1, <4>2, <4>3
    <3>5. ASSUME activeTurn' # 0
          PROVE  /\ workers'[activeTurn'].pc # "done" /\ ~workers'[activeTurn'].aborted
                 /\ \A v \in Worker' : workers'[v].turn > workers'[activeTurn'].turn => workers'[v].aborted
      <4>1. CASE activeTurn = w
        <5>1. \A v \in 1..Len(workers) : ~(workers'[v].turn > workers'[w].turn)
          BY <1>1, <2>2, <2>3, <3>2
        <5> QED
          BY <2>1, <2>2, <2>3, <3>2, <3>5, <4>1, <5>1
      <4>2. CASE activeTurn # w
        <5>1. workers[w].aborted /\ workers'[activeTurn] = workers[activeTurn]
          BY <1>1, <2>2, <2>3, <3>2, <3>5, <4>2
        <5> QED
          BY <1>1, <2>1, <2>2, <2>3, <3>2, <3>5, <4>2, <5>1
      <4> QED
        BY <4>1, <4>2
    <3>6. \A v \in Worker' : workers'[v].turn = turnId' => workers'[v].driven
      BY <1>1, <2>3, <3>2
    <3> QED
      BY <3>3, <3>4, <3>5, <3>6
  <2>6. CASE ~GoesOn(w, reason, g)
    <3>1. /\ turnId' = turnId /\ r.turn = workers[w].turn /\ r.pc = "done"
          /\ r.driven = workers[w].driven /\ activeTurn' = release(w, g)
      BY <2>1, <2>6
    <3>2. activeTurn' \in {0, activeTurn} /\ activeTurn' # w
      BY <2>2, <3>1, <1>1 DEF release, owns
    <3>3. \A v \in 1..Len(workers) :
            /\ workers'[v].turn = workers[v].turn /\ workers'[v].driven = workers[v].driven
            /\ workers'[v].aborted = workers[v].aborted
            /\ v # w => workers'[v].pc = workers[v].pc
            /\ v = w => workers'[v].pc = "done"
      BY <2>1, <2>3, <3>1
    <3>4. OneLiveTurn'
      <4> SUFFICES ASSUME NEW v \in 1..Len(workers), workers'[v].pc # "done", ~workers'[v].aborted
                   PROVE  activeTurn' = v
        BY <2>3
      <4>1. v # w /\ activeTurn = v
        BY <3>3
      <4>2. ~(~workers[w].driven /\ turnId = workers[w].turn)
        BY <2>2, <4>1, <1>1
      <4> QED
        BY <3>1, <4>1, <4>2 DEF release, owns
    <3>5. ASSUME resume' # 0
          PROVE  activeTurn' = 0 /\ \A v \in Worker' : workers'[v].turn > resume' => workers'[v].aborted
      <4>1. CASE reason = "paused" /\ ~workers[w].aborted /\ resume' = workers[w].turn
        <5>1. activeTurn = w
          BY <2>2, <4>1
        <5>2. activeTurn' = 0
          BY <3>1, <5>1 DEF release, owns
        <5>3. \A v \in 1..Len(workers) : workers[v].turn > workers[w].turn => workers[v].aborted
          BY <1>1, <2>2, <5>1
        <5> QED
          BY <2>3, <3>3, <4>1, <5>2, <5>3
      <4>2. CASE UNCHANGED resume
        BY <2>3, <3>2, <3>3, <3>5, <4>2
      <4> QED
        BY <2>4, <4>1, <4>2
    <3>6. ASSUME activeTurn' # 0
          PROVE  /\ workers'[activeTurn'].pc # "done" /\ ~workers'[activeTurn'].aborted
                 /\ \A v \in Worker' : workers'[v].turn > workers'[activeTurn'].turn => workers'[v].aborted
      BY <1>1, <2>3, <3>2, <3>3, <3>6
    <3>7. \A v \in Worker' : workers'[v].turn = turnId' /\ ~workers'[v].driven => activeTurn' \in {0, v}
      BY <2>3, <3>1, <3>2, <3>3
    <3> QED
      BY <3>4, <3>5, <3>6, <3>7
  <2> QED
    BY <2>5, <2>6
<1>7. ASSUME NEW recall, cancel(recall) PROVE TurnsOK'
  <2> DEFINE r == [workers[activeTurn] EXCEPT !.aborted = TRUE]
  <2>1. activeTurn \in 1..Len(workers) /\ activeTurn' = 0 /\ resume' = 0 /\ UNCHANGED turnId
    BY <1>1, <1>7 DEF cancel
  <2>2. workers' = [workers EXCEPT ![activeTurn] = r]
    BY <1>7 DEF cancel
  <2>3. r \in WorkerType /\ r.aborted
    BY <1>1, <2>1 DEF WorkerType
  <2> HIDE DEF r
  <2>4. /\ Len(workers') = Len(workers)
        /\ \A v \in 1..Len(workers) : workers'[v] = IF v = activeTurn THEN r ELSE workers[v]
    BY <1>2, <2>1, <2>2, <2>3
  <2>5. OneLiveTurn'
    BY <2>3, <2>4
  <2> QED
    BY <2>1, <2>5
<1> QED
  BY <1>3, <1>4, <1>5, <1>6, <1>7, Shape DEF Shaped

-----------------------------------------------------------------------------
(* What a step may never do *)

\* A worker goes on to a turn only for an active goal within its budget.
LEMMA GoesOnInBudget ==
  ASSUME NEW w, NEW reason, NEW g \in Goals, GoesOn(w, reason, g)
  PROVE  /\ incrementTurn(GoalAfter(w, reason, g)).turns <= TurnBudget
         /\ IsActive(g) => ~overBudget(g)
<1> DEFINE c == IF workers[w].driven THEN g ELSE incrementTurn(g)
<1>1. c \in Goals
  BY GoalMoves
<1>2. GoalAfter(w, reason, g) = (IF overBudget(c) THEN markBlocked(c) ELSE c)
  BY DEF GoesOn, GoalAfter
<1>3. c = g \/ c = incrementTurn(g)
  OBVIOUS
<1> HIDE DEF c
<1>4. ~IsActive(markBlocked(c))
  BY <1>1 DEF markBlocked, IsActive, Goals
<1>5. IsActive(GoalAfter(w, reason, g))
  BY DEF GoesOn
<1>6. ~overBudget(c) /\ GoalAfter(w, reason, g) = c /\ IsActive(c)
  BY <1>2, <1>4, <1>5
<1>7. c.turns \in Nat /\ c.turns < TurnBudget /\ TurnBudget \in Nat
  BY <1>1, <1>6, GoalAssumption DEF overBudget, Goals
<1>8. incrementTurn(c).turns = c.turns + 1
  BY <1>1, <1>6 DEF incrementTurn, Goals
<1>9. incrementTurn(c).turns <= TurnBudget
  BY <1>7, <1>8
<1>10. ASSUME IsActive(g) PROVE ~overBudget(g)
  <2>1. CASE c = g
    BY <1>6, <2>1
  <2>2. CASE c = incrementTurn(g)
    <3>1. g.turns \in Nat /\ c.turns = g.turns + 1
      BY <1>10, <2>2 DEF incrementTurn, Goals
    <3> QED
      BY <1>7, <3>1 DEF overBudget
  <2> QED
    BY <1>3, <2>1, <2>2
<1> QED
  BY <1>6, <1>9, <1>10

\* A step of a cancelled worker.
LEMMA CancelledStep ==
  ASSUME Typed, [FlowNext]_flowVars, NEW w \in Worker, Aborted(w),
         workers'[w].turn # workers[w].turn
  PROVE  At(w, "afterStop") /\ workers[w].overBudget /\ ~overBudget(goal)
<1>1. /\ workers \in Seq(WorkerType) /\ Len(workers) \in Nat
      /\ w \in 1..Len(workers) /\ DOMAIN workers = 1..Len(workers)
      /\ \A v \in 1..Len(workers) : workers[v] \in WorkerType
  BY LenProperties, ElementOfSeq DEF Typed, WorkersOK, Worker
<1>2. ASSUME NEW v \in 1..Len(workers), NEW r, workers' = [workers EXCEPT ![v] = r],
             r.turn = workers[v].turn
      PROVE  FALSE
  BY <1>1, <1>2
<1>3. CASE Rests
  BY <1>3 DEF Rests, turnVars
<1>4. ASSUME NEW v \in Worker, Proceeds(v) PROVE FALSE
  BY <1>2, <1>4 DEF Proceeds, Worker
<1>5. ASSUME NEW items, NEW g, Launches(items, g) PROVE FALSE
  <2>1. PICK r : workers' = Append(workers, r) /\ r \in WorkerType
    BY <1>5, LaunchedWorkers, OriginsType DEF WorkerOK
  <2> QED
    BY <1>1, <2>1, AppendProperties
<1>6. ASSUME NEW v, NEW reason, NEW items, NEW buffer, NEW g,
             Finishes(v, reason, items, buffer, g)
      PROVE  At(w, "afterStop") /\ workers[w].overBudget /\ ~overBudget(goal)
  <2>1. PICK r : /\ workers' = [workers EXCEPT ![v] = r]
                 /\ GoesOn(v, reason, g) \/ r.turn = workers[v].turn
    BY <1>6, FinishedWorkers
  <2>2. v \in 1..Len(workers)
    BY <1>6 DEF Finishes, Worker
  <2>3. v = w /\ GoesOn(w, reason, g)
    BY <1>1, <1>2, <2>1, <2>2
  <2>4. At(w, "afterStop") /\ workers[w].overBudget /\ IsActive(goal) /\ g = goal
    BY <1>6, <2>3 DEF Finishes, GoesOn
  <2>5. ~overBudget(goal)
    BY <1>6, <2>3, <2>4, GoesOnInBudget DEF Finishes
  <2> QED
    BY <2>4, <2>5
<1>7. ASSUME NEW recall, cancel(recall) PROVE FALSE
  <2> DEFINE r == [workers[activeTurn] EXCEPT !.aborted = TRUE]
  <2>1. activeTurn \in 1..Len(workers) /\ workers' = [workers EXCEPT ![activeTurn] = r]
    BY <1>1, <1>7 DEF cancel, Typed, WorkersOK
  <2>2. r.turn = workers[activeTurn].turn
    BY <1>1, <2>1 DEF WorkerType
  <2> HIDE DEF r
  <2> QED
    BY <1>2, <2>1, <2>2
<1> QED
  BY <1>3, <1>4, <1>5, <1>6, <1>7, Shape DEF Shaped

\* A step that starts a driven turn.
LEMMA BudgetStep ==
  ASSUME Typed, [FlowNext]_flowVars, NEW w \in 1..Len(workers'),
         workers'[w].driven, workers'[w].pc = "prompt",
         w \in Worker => workers[w].turn # workers'[w].turn
  PROVE  goal'.turns <= TurnBudget
<1>1. /\ workers \in Seq(WorkerType) /\ Len(workers) \in Nat /\ DOMAIN workers = 1..Len(workers)
      /\ \A v \in 1..Len(workers) : workers[v] \in WorkerType
  BY LenProperties, ElementOfSeq DEF Typed, WorkersOK, Worker
<1>2. ASSUME NEW v \in 1..Len(workers), NEW r, r \in WorkerType,
             workers' = [workers EXCEPT ![v] = r]
      PROVE  w = v /\ r.turn # workers[v].turn
  <2>1. Len(workers') = Len(workers)
        /\ \A x \in 1..Len(workers) : workers'[x] = IF x = v THEN r ELSE workers[x]
    BY <1>1, <1>2, ExceptSeq
  <2> QED
    BY <1>1, <2>1 DEF Worker
<1>3. CASE Rests
  BY <1>3 DEF Rests, turnVars, Worker
<1>4. ASSUME NEW v \in Worker, Proceeds(v) PROVE FALSE
  BY <1>2, <1>4 DEF Proceeds, Worker, WorkerOK
<1>5. ASSUME NEW items, NEW g, Launches(items, g) PROVE goal'.turns <= TurnBudget
  <2>1. g \in Goals /\ StartWorker(items, g)
    BY <1>5 DEF Launches
  <2>2. g.turns \in Nat /\ TurnBudget \in Nat
    BY <2>1, GoalAssumption DEF Goals
  <2>3. PICK r : workers' = Append(workers, r) /\ r \in WorkerType
    BY <1>5, LaunchedWorkers, OriginsType DEF WorkerOK
  <2>4. /\ Len(workers') = Len(workers) + 1
        /\ \A v \in 1..Len(workers) : workers'[v] = workers[v]
        /\ workers'[Len(workers) + 1] = r
    BY <1>1, <2>3, AppendProperties
  <2>5. w = Len(workers) + 1 /\ r.driven /\ r.pc = "prompt"
    BY <1>1, <2>4 DEF Worker
  <2>6. CASE IsActive(g) /\ overBudget(g)
    <3> DEFINE e == EndedWorker(NewWorker(items, TRUE, FALSE))
    <3>1. e.pc = "done"
      BY DEF EndedWorker, NewWorker
    <3>2. workers' = Append(workers, e)
      BY <2>1, <2>6 DEF StartWorker
    <3> HIDE DEF e
    <3>3. workers'[Len(workers) + 1] = e
      BY <1>1, <3>2
    <3> QED
      BY <2>4, <2>5, <3>1, <3>3
  <2>7. CASE ~(IsActive(g) /\ overBudget(g))
    <3> DEFINE e == NewWorker(items, IsActive(g), FALSE)
    <3>1. e.driven = IsActive(g)
      BY DEF NewWorker
    <3>2. workers' = Append(workers, e) /\ goal' = incrementTurn(g)
      BY <2>1, <2>7 DEF StartWorker
    <3> HIDE DEF e
    <3>3. workers'[Len(workers) + 1] = e
      BY <1>1, <3>2
    <3>4. IsActive(g) /\ ~(g.turns >= TurnBudget)
      BY <2>4, <2>5, <2>7, <3>1, <3>3 DEF overBudget
    <3>5. goal'.turns = g.turns + 1
      BY <2>1, <3>2, <3>4 DEF incrementTurn, Goals
    <3> QED
      BY <2>2, <3>4, <3>5
  <2> QED
    BY <2>6, <2>7
<1>6. ASSUME NEW v, NEW reason, NEW items, NEW buffer, NEW g,
             Finishes(v, reason, items, buffer, g)
      PROVE  goal'.turns <= TurnBudget
  <2>1. PICK r : /\ workers' = [workers EXCEPT ![v] = r] /\ r \in WorkerType
                 /\ GoesOn(v, reason, g) \/ r.turn = workers[v].turn
    BY <1>6, FinishedWorkers DEF WorkerOK
  <2>2. v \in 1..Len(workers) /\ g \in Goals
    BY <1>6 DEF Finishes, Worker
  <2>3. GoesOn(v, reason, g)
    BY <1>2, <2>1, <2>2
  <2>4. goal' = incrementTurn(GoalAfter(v, reason, g))
    BY <1>6, <2>3 DEF Finishes, EndTurn
  <2> QED
    BY <2>2, <2>3, <2>4, GoesOnInBudget
<1>7. ASSUME NEW recall, cancel(recall) PROVE FALSE
  <2> DEFINE r == [workers[activeTurn] EXCEPT !.aborted = TRUE]
  <2>1. activeTurn \in 1..Len(workers) /\ workers' = [workers EXCEPT ![activeTurn] = r]
    BY <1>1, <1>7 DEF cancel, Typed, WorkersOK
  <2>2. r \in WorkerType /\ r.turn = workers[activeTurn].turn
    BY <1>1, <2>1 DEF WorkerType
  <2> HIDE DEF r
  <2> QED
    BY <1>2, <2>1, <2>2
<1> QED
  BY <1>3, <1>4, <1>5, <1>6, <1>7, Shape DEF Shaped

-----------------------------------------------------------------------------
(* The compactions *)

\* The compactions keep their types.
LEMMA CompactionStep == Typed /\ [FlowNext]_flowVars => CompactionOK'
<1> SUFFICES ASSUME Typed, [FlowNext]_flowVars PROVE CompactionOK'
  OBVIOUS
<1> USE DEF CompactionOK
<1>1. /\ compactions \in Seq(CompactionType) /\ Len(compactions) \in Nat
      /\ Len(compactions) <= MaxCompactions /\ MaxCompactions \in Nat
      /\ compacting \in 0..Len(compactions) /\ DOMAIN compactions = 1..Len(compactions)
      /\ \A c \in 1..Len(compactions) : compactions[c] \in CompactionType
      /\ history \in Seq(Nat) /\ << >> \in Seq(Nat)
  <2>1. Items \subseteq Nat /\ history \in Seq(Items)
    BY DEF Typed, ContextOK, Items
  <2>2. history \in Seq(Nat)
    BY <2>1, WiderSeq
  <2> QED
    BY <2>2, LenProperties, ElementOfSeq, MaxCompactionsAssumption DEF Typed
<1>2. ASSUME NEW cs \in Seq(CompactionType), Len(cs) = Len(compactions),
             NEW c \in 1..Len(compactions), NEW r \in CompactionType
      PROVE  /\ [cs EXCEPT ![c] = r] \in Seq(CompactionType)
             /\ Len([cs EXCEPT ![c] = r]) = Len(compactions)
  BY <1>1, <1>2, ExceptSeq
<1>3. ASSUME UNCHANGED compactionVars PROVE CompactionOK'
  BY <1>1, <1>3 DEF compactionVars
<1>4. ASSUME NEW source, begin(source) PROVE CompactionOK'
  <2> DEFINE r == [pc |-> "summarizing", aborted |-> FALSE, blockedByTurn |-> (source = "auto"),
                   original |-> history]
  <2>1. r \in CompactionType
    BY <1>1 DEF CompactionType
  <2>2. /\ compactions' = Append(compactions, r) /\ compacting' = Len(compactions) + 1
        /\ Len(compactions) < MaxCompactions
    BY <1>4 DEF begin
  <2> HIDE DEF r
  <2>3. compactions' \in Seq(CompactionType) /\ Len(compactions') = Len(compactions) + 1
    BY <1>1, <2>1, <2>2, AppendProperties
  <2> QED
    BY <1>1, <2>2, <2>3
<1>5. Cancelled \in Seq(CompactionType) /\ Len(Cancelled) = Len(compactions)
  <2>1. CASE compacting = 0
    BY <1>1, <2>1 DEF Cancelled
  <2>2. CASE compacting # 0
    <3> DEFINE r == [compactions[compacting] EXCEPT !.aborted = TRUE]
    <3>1. compacting \in 1..Len(compactions)
      BY <1>1, <2>2
    <3>2. r \in CompactionType
      BY <1>1, <3>1 DEF CompactionType
    <3>3. Cancelled = [compactions EXCEPT ![compacting] = r]
      BY <2>2 DEF Cancelled
    <3> HIDE DEF r
    <3> QED
      BY <1>1, <1>2, <3>1, <3>2, <3>3
  <2> QED
    BY <2>1, <2>2
<1>6. ASSUME compactions' = Cancelled, compacting' = 0 PROVE CompactionOK'
  BY <1>1, <1>5, <1>6
<1>7. ASSUME compacting # 0, UNCHANGED compacting,
             compactions' = [compactions EXCEPT ![compacting].blockedByTurn = TRUE]
      PROVE  CompactionOK'
  <2> DEFINE r == [compactions[compacting] EXCEPT !.blockedByTurn = TRUE]
  <2>1. compacting \in 1..Len(compactions)
    BY <1>1, <1>7
  <2>2. r \in CompactionType
    BY <1>1, <2>1 DEF CompactionType
  <2>3. compactions' = [compactions EXCEPT ![compacting] = r]
    BY <1>7
  <2> HIDE DEF r
  <2>4. compactions' \in Seq(CompactionType) /\ Len(compactions') = Len(compactions)
    BY <1>1, <1>2, <2>1, <2>2, <2>3
  <2> QED
    BY <1>1, <1>7, <2>4
<1>8. ASSUME NEW cs \in Seq(CompactionType), Len(cs) = Len(compactions),
             NEW c \in DOMAIN compactions, NEW how \in {"reinjecting", "done", "failed"},
             compactions' = Over(cs, c, how), compacting' \in {0, compacting}
      PROVE  CompactionOK'
  <2> DEFINE r == [cs[c] EXCEPT !.pc = how, !.original = << >>]
  <2>1. c \in 1..Len(compactions) /\ cs[c] \in CompactionType
    BY <1>1, <1>8, ElementOfSeq
  <2>2. r \in CompactionType
    BY <1>1, <2>1 DEF CompactionType
  <2>3. compactions' = [cs EXCEPT ![c] = r]
    BY <1>8 DEF Over
  <2> HIDE DEF r
  <2>4. compactions' \in Seq(CompactionType) /\ Len(compactions') = Len(compactions)
    BY <1>2, <1>8, <2>1, <2>2, <2>3
  <2> QED
    BY <1>1, <1>8, <2>4
<1>9. ASSUME NEW w, TurnWorker(w) PROVE CompactionOK'
  <2>1. CASE beforeStep(w)
    BY <1>3, <1>4, <1>7, <2>1 DEF beforeStep
  <2>2. CASE overflow(w)
    BY <1>4, <1>7, <2>2 DEF overflow
  <2>3. CASE appendPrompt(w) \/ promptLost(w) \/ applyUserPromptHook(w) \/ compacted(w)
    BY <1>3, <2>3 DEF appendPrompt, promptLost, applyUserPromptHook, compacted
  <2>4. CASE \/ overflowHandled(w) \/ executeLoopStep(w) \/ runToolCallBatch(w)
             \/ shouldContinueAfterStop(w) \/ stopHook(w)
    BY <1>3, <2>4
       DEF overflowHandled, executeLoopStep, runToolCallBatch, shouldContinueAfterStop, stopHook
  <2> QED
    BY <1>9, <2>1, <2>2, <2>3, <2>4 DEF TurnWorker
<1>10. ASSUME NEW c \in DOMAIN compactions, CompactionWorker(c) PROVE CompactionOK'
  <2>1. CASE summaryApplied(c)
    <3>1. compactions' = Over(compactions, c, "reinjecting") /\ UNCHANGED compacting
      BY <2>1 DEF summaryApplied, applyCompaction, Over
    <3> QED
      BY <1>1, <1>8, <3>1
  <2>2. CASE roundAborts(c)
    BY <1>1, <1>8, <2>2 DEF roundAborts
  <2>3. CASE roundBails(c)
    BY <1>5, <1>8, <2>3 DEF roundBails
  <2>4. CASE workerFails(c)
    BY <1>5, <1>8, <2>4 DEF workerFails
  <2>5. CASE markCompleted(c)
    BY <1>1, <1>8, <2>5 DEF markCompleted
  <2> QED
    BY <1>10, <2>1, <2>2, <2>3, <2>4, <2>5 DEF CompactionWorker, compactionOver
<1>11. ASSUME NEW recall, cancel(recall) PROVE CompactionOK'
  BY <1>3, <1>6, <1>11 DEF cancel
<1>12. CASE cancelCompaction \/ beginCompaction
  BY <1>4, <1>6, <1>12 DEF cancelCompaction, beginCompaction
<1>13. ASSUME NEW o, steer(o) PROVE CompactionOK'
  BY <1>3, <1>13 DEF steer
<1>14. CASE prompt \/ cancelOther \/ goalCommand \/ cancelGoal \/ fireRateLimitResume
  BY <1>3, <1>14 DEF prompt, cancelOther, goalCommand, cancelGoal, fireRateLimitResume
<1>15. CASE UNCHANGED flowVars
  BY <1>3, <1>15 DEF flowVars
<1> QED
  BY <1>9, <1>10, <1>11, <1>12, <1>13, <1>14, <1>15 DEF FlowNext, User, Workers

-----------------------------------------------------------------------------
(* The places of the inputs *)

\* What a running turn leaves of the history and the buffer loses nothing.
LEMMA HandedPlaces ==
  ASSUME Typed, Placed(Line, steerBuffer), NEW hist, NEW buffer, Handed(hist, buffer)
  PROVE  buffer \in Seq(Inputs) /\ Placed(hist, buffer)
<1>1. /\ steerBuffer \in Seq(Inputs) /\ Once(Line) /\ Once(steerBuffer)
      /\ \A n \in Inputs : n # 0
  <2>1. Len(origins) \in Nat
    BY LenProperties DEF Typed, ContextOK
  <2> QED
    BY <2>1 DEF Typed, ContextOK, Placed, Inputs
<1> DEFINE none == << >>
<1>2. none \in Seq(Inputs) /\ Once(none) /\ \A n : ~In(n, none)
  BY DEF Once, In
<1>3. CASE Keeps(hist, << >>) /\ buffer = steerBuffer
  <2>1. Once(hist) /\ \A n \in Inputs : In(n, hist) <=> In(n, Line)
    <3>1. Keeps(hist, none)
      BY <1>3
    <3> HIDE DEF none
    <3> QED
      BY <1>1, <1>2, <3>1 DEF Keeps
  <2>2. \A n \in Inputs, h \in PlaceNames :
          Home(n, h, Line, steerBuffer) => Home(n, h, hist, buffer)
    BY <1>3, <2>1 DEF Home
  <2> QED
    BY <1>1, <1>3, <2>1, <2>2 DEF Placed
<1>4. CASE Keeps(hist, steerBuffer) /\ buffer = << >>
  <2>1. \A n : In(n, steerBuffer) => n \in Inputs
    BY <1>1, ElementOfSeq, LenProperties DEF In
  <2>2. \A n : n # 0 => ~(In(n, Line) /\ In(n, steerBuffer))
    BY <2>1 DEF Placed, Home
  <2>3. Once(hist) /\ \A n \in Inputs : In(n, hist) <=> In(n, Line) \/ In(n, steerBuffer)
    BY <1>1, <1>4, <2>2 DEF Keeps
  <2>4. buffer \in Seq(Inputs) /\ Once(buffer) /\ \A n : ~In(n, buffer)
    BY <1>2, <1>4
  <2>5. ASSUME NEW n \in Inputs, NEW h \in PlaceNames, Home(n, h, Line, steerBuffer)
        PROVE  Home(n, IF h = "buffer" THEN "line" ELSE h, hist, buffer)
    BY <2>3, <2>4, <2>5 DEF Home, PlaceNames
  <2>6. ASSUME NEW n \in Inputs PROVE \E h \in PlaceNames : Home(n, h, hist, buffer)
    <3>1. PICK h \in PlaceNames : Home(n, h, Line, steerBuffer)
      BY DEF Placed
    <3>2. (IF h = "buffer" THEN "line" ELSE h) \in PlaceNames
      BY DEF PlaceNames
    <3> QED
      BY <2>5, <3>1, <3>2
  <2> QED
    BY <2>3, <2>4, <2>6 DEF Placed
<1> QED
  BY <1>3, <1>4 DEF Handed

\* A worker that goes on no longer has a prompt pending.
LEMMA WaitsMove ==
  ASSUME Typed, WaitsOnce, UNCHANGED origins, NEW w \in Worker, NEW r \in WorkerType,
         workers' = [workers EXCEPT ![w] = r], r.pc # "prompt" \/ r.prompt = << 0 >>
  PROVE  /\ WaitsOnce'
         /\ \A n \in Inputs : Waiting(n)' <=> Waiting(n) /\ ~Waits(w, n)
<1>1. /\ workers \in Seq(WorkerType) /\ Len(workers) \in Nat /\ w \in 1..Len(workers)
      /\ Len(origins) \in Nat
  BY LenProperties DEF Typed, WorkersOK, ContextOK, Worker
<1>2. /\ Len(workers') = Len(workers)
      /\ \A v \in 1..Len(workers) : workers'[v] = IF v = w THEN r ELSE workers[v]
  BY <1>1, ExceptSeq
<1>3. \A n \in Inputs : n # 0 /\ ~In(n, << 0 >>)
  BY <1>1 DEF Inputs, In
<1>4. Worker' = Worker /\ Worker = 1..Len(workers)
  BY <1>2 DEF Worker
<1>5. \A n \in Inputs : ~Waits(w, n)'
  BY <1>1, <1>2, <1>3 DEF Waits, At
<1>6. \A v \in Worker, n \in Inputs : v # w => (Waits(v, n)' <=> Waits(v, n))
  BY <1>2, <1>4 DEF Waits, At
<1>7. Inputs' = Inputs
  BY DEF Inputs
<1>8. WaitsOnce'
  BY <1>4, <1>5, <1>6, <1>7 DEF WaitsOnce
<1>9. \A n \in Inputs : Waiting(n)' <=> Waiting(n) /\ ~Waits(w, n)
  BY <1>4, <1>5, <1>6 DEF WaitsOnce, Waiting
<1> QED
  BY <1>8, <1>9

\* A step of a running turn.
LEMMA ProceedsPlaces ==
  ASSUME Typed, PlacesOK, NEW w \in Worker, Proceeds(w)
  PROVE  ContextOK' /\ PlacesOK'
<1>1. PICK r : /\ workers' = [workers EXCEPT ![w] = r] /\ r \in WorkerType
               /\ r.pc # "prompt"
  BY DEF Proceeds, WorkerOK
<1>2. UNCHANGED <<origins, refused, summarized, withdrawn, lost, dropped>> /\ HandsOver(w)
      /\ LineTyped
  BY DEF Proceeds, HandsOver, Moved
<1>3. WaitsOnce' /\ \A n \in Inputs : Waiting(n)' <=> Waiting(n) /\ ~Waits(w, n)
  BY <1>1, <1>2, WaitsMove DEF PlacesOK
<1>4. Inputs' = Inputs /\ Items' = Items
  BY <1>2 DEF Inputs, Items
<1>5. CASE ~At(w, "prompt") /\ Handed(Line', steerBuffer')
  <2>1. steerBuffer' \in Seq(Inputs) /\ Placed(Line', steerBuffer')
    BY <1>5, HandedPlaces DEF PlacesOK
  <2>2. \A n \in Inputs : Waiting(n)' <=> Waiting(n)
    BY <1>3, <1>5 DEF Waits
  <2>3. ContextOK'
    BY <1>2, <1>4, <2>1 DEF ContextOK, Typed, LineTyped
  <2>4. \A n \in Inputs, h \in PlaceNames :
          Home(n, h, Line', steerBuffer') => Home(n, h, Line, steerBuffer)'
    BY <1>2, <2>2 DEF Home
  <2> QED
    BY <1>3, <1>4, <2>1, <2>3, <2>4 DEF PlacesOK, Placed
<1>6. CASE At(w, "prompt") /\ Keeps(Line', workers[w].prompt) /\ UNCHANGED steerBuffer
  <2> DEFINE p == workers[w].prompt
  <2>1. p \in Seq(Items) /\ Once(Line) /\ Once(p)
    BY PromptType DEF PlacesOK, Placed
  <2>2. \A n : n # 0 /\ In(n, p) => n \in Inputs
    <3>1. \A n : In(n, p) => n \in Items
      BY <2>1, ElementOfSeq, LenProperties DEF In
    <3>2. \A n \in Items : n = 0 \/ n \in Inputs
      <4>1. Len(origins) \in Nat
        BY LenProperties DEF Typed, ContextOK
      <4> QED
        BY <4>1 DEF Items, Inputs
    <3> HIDE DEF p
    <3> QED
      BY <3>1, <3>2
  <2>3. \A n \in Inputs : In(n, p) => Waits(w, n) /\ Waiting(n)
    BY <1>6 DEF Waits, Waiting
  <2>4. \A n : n # 0 => ~(In(n, Line) /\ In(n, p))
    BY <2>2, <2>3 DEF PlacesOK, Placed, Home
  <2>5. \A n \in Inputs : n # 0
    <3>1. Len(origins) \in Nat
      BY LenProperties DEF Typed, ContextOK
    <3> QED
      BY <3>1 DEF Inputs
  <2>6. Once(Line') /\ \A n \in Inputs : In(n, Line') <=> In(n, Line) \/ Waits(w, n)
    <3>1. Once(Line') /\ \A n \in Inputs : In(n, Line') <=> In(n, Line) \/ In(n, p)
      BY <1>6, <2>1, <2>4, <2>5 DEF Keeps
    <3>2. \A n \in Inputs : In(n, p) <=> Waits(w, n)
      BY <1>6, <2>3 DEF Waits
    <3> QED
      BY <3>1, <3>2
  <2> HIDE DEF p
  <2>8. ContextOK'
    BY <1>2, <1>4, <1>6 DEF ContextOK, Typed, LineTyped
  <2>9. ASSUME NEW n \in Inputs PROVE \E h \in PlaceNames : Home(n, h, Line, steerBuffer)'
    <3>1. PICK h \in PlaceNames : Home(n, h, Line, steerBuffer)
      BY DEF PlacesOK, Placed
    <3>2. CASE Waits(w, n)
      <4>1. h = "prompt" /\ In(n, Line') /\ ~Waiting(n)'
        BY <1>3, <2>6, <3>1, <3>2 DEF Home, Waiting
      <4>2. Home(n, "line", Line, steerBuffer)'
        BY <1>2, <1>6, <3>1, <4>1 DEF Home, PlaceNames
      <4> QED
        BY <4>2 DEF PlaceNames
    <3>3. CASE ~Waits(w, n)
      <4>1. (In(n, Line') <=> In(n, Line)) /\ (Waiting(n)' <=> Waiting(n))
        BY <1>3, <2>6, <3>3
      <4>2. Home(n, h, Line, steerBuffer)'
        BY <1>2, <1>6, <3>1, <4>1 DEF Home
      <4> QED
        BY <4>2
    <3> QED
      BY <3>2, <3>3
  <2>10. Once(steerBuffer)'
    BY <1>6 DEF PlacesOK, Placed
  <2> QED
    BY <1>3, <1>4, <2>6, <2>8, <2>9, <2>10 DEF PlacesOK, Placed
<1> QED
  BY <1>2, <1>5, <1>6 DEF HandsOver, Moved

\* The recall of a cancelled turn takes back inputs of the buffer, or the last
\* one of the history, and records every one it takes.
LEMMA WithdrawnPlaces ==
  ASSUME Typed, NEW hist \in Seq(Items), NEW buffer \in Seq(Inputs), Placed(hist, buffer),
         NEW w, NEW reason, withdrawInput(w, reason, hist, buffer)
  PROVE  /\ history' \in Seq(Items) /\ parked' = << >> /\ steerBuffer' \in Seq(Inputs) /\ withdrawn' \subseteq Items
         /\ Once(history') /\ Once(steerBuffer')
         /\ \E D : /\ \A n \in Inputs \cap D : In(n, hist) \/ In(n, buffer)
                   /\ \A n \in Inputs :
                        /\ In(n, history') <=> In(n, hist) /\ n \notin D
                        /\ In(n, steerBuffer') <=> In(n, buffer) /\ n \notin D
                        /\ n \in withdrawn' <=> n \in withdrawn \/ n \in D
<1>1. /\ Once(hist) /\ Once(buffer) /\ Inputs \subseteq Items /\ withdrawn \subseteq Items
      /\ \A n \in Inputs : ~(In(n, hist) /\ In(n, buffer))
      /\ Len(origins) \in Nat /\ \A n \in Inputs : n # 0
  <2>1. Len(origins) \in Nat
    BY LenProperties DEF Typed, ContextOK
  <2>2. Inputs \subseteq Items /\ \A n \in Inputs : n # 0
    BY <2>1 DEF Inputs, Items
  <2> QED
    BY <2>1, <2>2 DEF Placed, Home, Typed, ContextOK
<1>2. CASE ~Withdraws(w, reason)
  <2>1. /\ steerBuffer' = buffer /\ history' = hist /\ withdrawn' = withdrawn
        /\ parked' = << >>
    BY <1>2 DEF withdrawInput, ClosesWith
  <2> DEFINE D == {}
  <2>2. \A n \in Inputs : n \notin D
    OBVIOUS
  <2> HIDE DEF D
  <2>3. \A n \in Inputs :
          /\ In(n, history') <=> In(n, hist) /\ n \notin D
          /\ In(n, steerBuffer') <=> In(n, buffer) /\ n \notin D
          /\ n \in withdrawn' <=> n \in withdrawn \/ n \in D
    BY <2>1, <2>2
  <2>4. \A n \in Inputs \cap D : In(n, hist) \/ In(n, buffer)
    BY <2>2
  <2> QED
    BY <1>1, <2>1, <2>3, <2>4
<1>3. CASE Withdraws(w, reason)
  <2> DEFINE K == {i \in DOMAIN buffer : IsNote(buffer[i])}
             U == {n \in ToSet(buffer) : IsUser(n)}
  <2>1. /\ steerBuffer' \in Filtered(buffer, K)
        /\ history' = IF WithdrawsTail(hist, buffer) THEN Front(hist) ELSE hist
        /\ parked' = << >>
        /\ withdrawn' = withdrawn \cup U
             \cup (IF WithdrawsTail(hist, buffer) THEN {Last(hist)} ELSE {})
    BY <1>3 DEF withdrawInput, ClosesWith
  <2>2. /\ steerBuffer' \in Seq(Inputs) /\ Once(steerBuffer')
        /\ \A n : In(n, steerBuffer') <=> \E i \in K : buffer[i] = n
    <3>1. K \in SUBSET DOMAIN buffer
      OBVIOUS
    <3> HIDE DEF K
    <3> QED
      BY <1>1, <2>1, <3>1, FilteredIn
  <2>3. /\ DOMAIN buffer = 1..Len(buffer) /\ U \subseteq Inputs
        /\ \A n : n \in U <=> In(n, buffer) /\ IsUser(n)
    BY MemberFacts, LenProperties DEF In
  <2>4. \A n : In(n, steerBuffer') <=> In(n, buffer) /\ n \notin U
    <3>1. \A n : (\E i \in K : buffer[i] = n) <=> In(n, buffer) /\ IsNote(n)
      BY DEF In
    <3>2. \A n : In(n, buffer) => (IsNote(n) <=> n \notin U)
      BY <2>3 DEF IsNote, IsUser
    <3> QED
      BY <2>2, <3>1, <3>2
  <2> HIDE DEF K, U
  <2>5. CASE ~WithdrawsTail(hist, buffer)
    <3>1. history' = hist /\ withdrawn' = withdrawn \cup U
      BY <2>1, <2>5
    <3>2. \A n \in Inputs : In(n, hist) => n \notin U
      BY <1>1, <2>3
    <3>3. \A n \in Inputs :
            /\ In(n, history') <=> In(n, hist) /\ n \notin U
            /\ In(n, steerBuffer') <=> In(n, buffer) /\ n \notin U
            /\ n \in withdrawn' <=> n \in withdrawn \/ n \in U
      BY <2>4, <3>1, <3>2
    <3>4. \A n \in Inputs \cap U : In(n, hist) \/ In(n, buffer)
      BY <2>3
    <3> QED
      BY <1>1, <2>1, <2>2, <2>3, <3>1, <3>3, <3>4
  <2>6. CASE WithdrawsTail(hist, buffer)
    <3>1. U = {}
      BY <2>3, <2>6 DEF WithdrawsTail, DropsSteers, In
    <3>2. /\ history' = Front(hist) /\ withdrawn' = withdrawn \cup {Last(hist)}
          /\ hist # << >> /\ Last(hist) # 0
      BY <2>1, <2>6, <3>1 DEF WithdrawsTail, isRealUserInput
    <3>3. /\ Last(hist) \in Items /\ Front(hist) \in Seq(Items) /\ Once(Front(hist))
          /\ \A n : In(n, hist) <=> In(n, Front(hist)) \/ n = Last(hist)
          /\ ~In(Last(hist), Front(hist))
      BY <1>1, <3>2, FrontIn
    <3> DEFINE D == {Last(hist)}
    <3>4. \A n \in Inputs :
            /\ In(n, history') <=> In(n, hist) /\ n \notin D
            /\ In(n, steerBuffer') <=> In(n, buffer) /\ n \notin D
            /\ n \in withdrawn' <=> n \in withdrawn \/ n \in D
      <4>1. \A n \in Inputs : In(n, history') <=> In(n, hist) /\ n \notin D
        BY <3>2, <3>3
      <4>2. \A n \in Inputs : In(n, steerBuffer') <=> In(n, buffer) /\ n \notin D
        BY <1>1, <2>4, <3>1, <3>3
      <4> QED
        BY <3>2, <4>1, <4>2
    <3>5. \A n \in Inputs \cap D : In(n, hist) \/ In(n, buffer)
      BY <3>3
    <3>6. history' \in Seq(Items) /\ Once(history') /\ withdrawn' \subseteq Items
      BY <1>1, <3>2, <3>3
    <3> HIDE DEF D
    <3> QED
      BY <2>1, <2>2, <3>4, <3>5, <3>6
  <2> QED
    BY <2>5, <2>6
<1> QED
  BY <1>2, <1>3

\* The end of a turn, which may lose a prompt whose upload failed.
LEMMA FinishesPlaces ==
  ASSUME Typed, PlacesOK, NEW w, NEW reason, NEW items, NEW buffer, NEW g,
         Finishes(w, reason, items, buffer, g)
  PROVE  ContextOK' /\ PlacesOK'
<1>1. PICK r : /\ workers' = [workers EXCEPT ![w] = r] /\ r \in WorkerType
               /\ r.pc # "prompt" \/ r.prompt = << 0 >>
               /\ UNCHANGED origins
  BY FinishedWorkers DEF WorkerOK
<1>20. PICK hist : hist = Settled(items)
  OBVIOUS
<1>2. /\ w \in Worker /\ Handed(hist, buffer) /\ hist \in Seq(Items)
      /\ UNCHANGED <<refused, summarized, dropped>>
      /\ withdrawInput(w, reason, hist, buffer)
      /\ lost' = IF At(w, "prompt") THEN lost \cup ToSet(workers[w].prompt) ELSE lost
  BY <1>20 DEF Finishes, EndTurn
<1>3. hist \in Seq(Items) /\ buffer \in Seq(Inputs) /\ Placed(hist, buffer)
  BY <1>2, HandedPlaces DEF PlacesOK
<1>4. WaitsOnce' /\ \A n \in Inputs : Waiting(n)' <=> Waiting(n) /\ ~Waits(w, n)
  BY <1>1, <1>2, WaitsMove DEF PlacesOK
<1>5. Inputs' = Inputs /\ Items' = Items
  BY <1>1 DEF Inputs, Items
<1>6. lost' \subseteq Items /\ \A n : n \in lost' <=> n \in lost \/ Waits(w, n)
  <2> DEFINE p == workers[w].prompt
  <2>1. p \in Seq(Nat) /\ \A i \in DOMAIN p : p[i] \in Items
    BY <1>2 DEF Typed, WorkersOK, WorkerOK, WorkerType, Items
  <2>2. \A n : (n \in ToSet(p) <=> In(n, p)) /\ (In(n, p) => n \in Items)
    <3> HIDE DEF p
    <3> QED
      BY <2>1, MemberFacts, LenProperties DEF In
  <2>3. lost \subseteq Items
    BY DEF Typed, ContextOK
  <2> QED
    BY <1>2, <2>2, <2>3 DEF Waits
<1>7. PICK D : /\ \A n \in Inputs \cap D : In(n, hist) \/ In(n, buffer)
               /\ \A n \in Inputs :
                    /\ In(n, history') <=> In(n, hist) /\ n \notin D
                    /\ In(n, steerBuffer') <=> In(n, buffer) /\ n \notin D
                    /\ n \in withdrawn' <=> n \in withdrawn \/ n \in D
  BY <1>2, <1>3, WithdrawnPlaces
<1>8. /\ history' \in Seq(Items) /\ parked' = << >> /\ steerBuffer' \in Seq(Inputs) /\ withdrawn' \subseteq Items
      /\ Once(history') /\ Once(steerBuffer')
  BY <1>2, <1>3, WithdrawnPlaces
<1>21. Line' = history' /\ << >> \in Seq(Items)
  <2>1. \A s \in Seq(Items) : s \o << >> = s
    OBVIOUS
  <2> QED
    BY <1>8, <2>1 DEF Line
<1>9. ContextOK'
  BY <1>1, <1>2, <1>5, <1>6, <1>8, <1>21 DEF Typed, ContextOK
<1>10. ASSUME NEW n \in Inputs PROVE \E h \in PlaceNames : Home(n, h, Line, steerBuffer)'
  <2>1. PICK h \in PlaceNames : Home(n, h, hist, buffer)
    BY <1>3 DEF Placed
  <2>2. /\ In(n, Line') <=> In(n, hist) /\ n \notin D
        /\ In(n, steerBuffer') <=> In(n, buffer) /\ n \notin D
        /\ n \in withdrawn' <=> n \in withdrawn \/ n \in D
        /\ n \in lost' <=> n \in lost \/ Waits(w, n)
        /\ Waiting(n)' <=> Waiting(n) /\ ~Waits(w, n)
        /\ n \in D => In(n, hist) \/ In(n, buffer)
        /\ Waits(w, n) => Waiting(n)
        /\ refused' = refused /\ summarized' = summarized /\ dropped' = dropped
    BY <1>2, <1>4, <1>6, <1>7, <1>21 DEF Waiting
  <2>3. CASE n \in D
    <3>1. Home(n, "withdrawn", Line, steerBuffer)'
      BY <2>1, <2>2, <2>3 DEF Home, PlaceNames
    <3> QED
      BY <3>1 DEF PlaceNames
  <2>4. CASE Waits(w, n)
    <3>1. Home(n, "lost", Line, steerBuffer)'
      BY <2>1, <2>2, <2>4 DEF Home, PlaceNames
    <3> QED
      BY <3>1 DEF PlaceNames
  <2>5. CASE n \notin D /\ ~Waits(w, n)
    <3>1. Home(n, h, Line, steerBuffer)'
      BY <2>1, <2>2, <2>5 DEF Home
    <3> QED
      BY <3>1
  <2> QED
    BY <2>3, <2>4, <2>5
<1> QED
  BY <1>4, <1>5, <1>8, <1>9, <1>10, <1>21 DEF PlacesOK, Placed

\* A launched turn has its items pending; a turn that ends at once has not.
LEMMA WaitsAppend ==
  ASSUME Typed, NEW r, workers' = Append(workers, r), r \in WorkerType,
         \A n \in Inputs' : \A v, w \in Worker : Waits(v, n) /\ Waits(w, n) => v = w,
         r.pc = "prompt" => \A n \in Inputs' : In(n, r.prompt) => ~Waiting(n)
  PROVE  /\ WaitsOnce'
         /\ \A n \in Inputs' :
              Waiting(n)' <=> Waiting(n) \/ (r.pc = "prompt" /\ In(n, r.prompt))
<1>1. workers \in Seq(WorkerType) /\ Len(workers) \in Nat /\ Worker = 1..Len(workers)
  BY LenProperties DEF Typed, WorkersOK, Worker
<1>2. PICK new : new = Len(workers) + 1
  OBVIOUS
<1>3. /\ Len(workers') = new
      /\ \A v \in Worker : workers'[v] = workers[v]
      /\ workers'[new] = r
  BY <1>1, <1>2, AppendProperties
<1>4. /\ Worker \subseteq Worker' /\ new \in Worker'
      /\ \A v \in Worker' : v \in Worker \/ v = new
  BY <1>1, <1>2, <1>3 DEF Worker
<1>5. \A v \in Worker, n \in Inputs' : Waits(v, n)' <=> Waits(v, n)
  BY <1>3 DEF Waits, At
<1>6. \A n \in Inputs' : Waits(new, n)' <=> r.pc = "prompt" /\ In(n, r.prompt)
  BY <1>3 DEF Waits, At
<1>7. \A n \in Inputs' : Waits(new, n)' => ~Waiting(n)
  BY <1>6
<1>8. WaitsOnce'
  BY <1>4, <1>5, <1>7 DEF WaitsOnce, Waiting
<1>9. \A n \in Inputs' : Waiting(n)' <=> Waiting(n) \/ Waits(new, n)'
  BY <1>4, <1>5 DEF Waiting
<1> QED
  BY <1>6, <1>8, <1>9

\* An input that is nowhere yet, or was just taken out of the buffer.
Homeless(n, hist, buffer) ==
  /\ ~In(n, hist) /\ ~In(n, buffer) /\ ~Waiting(n)
  /\ n \notin refused /\ n \notin summarized /\ n \notin withdrawn /\ n \notin lost
  /\ n \notin dropped

\* launch() gives the input it is handed exactly one place: it is refused, put
\* (back) into the buffer, pending in the new turn, or already among the
\* messages of a turn that a spent budget ended at once.
LEMMA LaunchPlaces ==
  ASSUME Typed, NEW items \in Seq(Inputs'), \A i \in DOMAIN items : i = 1,
         NEW buffer \in Seq(Inputs'), NEW g, launch(items, buffer, g),
         Once(Line), Once(buffer), UNCHANGED <<summarized, withdrawn, lost, dropped>>,
         origins' \in Seq({"user", "note"}), Inputs \subseteq Inputs',
         \A n \in Inputs' : \A v, w \in Worker : Waits(v, n) /\ Waits(w, n) => v = w,
         \A n \in Inputs' :
           \/ In(n, items) /\ Homeless(n, Line, buffer)
           \/ ~In(n, items) /\ \E h \in PlaceNames : Home(n, h, Line, buffer)
  PROVE  ContextOK' /\ PlacesOK'
<1>1. /\ Len(origins) \in Nat /\ Len(origins') \in Nat /\ Items \subseteq Items'
      /\ Inputs' \subseteq Items' /\ Inputs' \subseteq Nat /\ \A n \in Inputs' : n # 0
  <2>1. Len(origins) \in Nat /\ Len(origins') \in Nat
    BY LenProperties DEF Typed, ContextOK
  <2>2. Inputs' = 1..Len(origins') /\ Items' = 0..Len(origins')
    BY DEF Inputs, Items
  <2>3. Items \subseteq Items'
    BY <2>1, <2>2 DEF Inputs, Items
  <2> QED
    BY <2>1, <2>2, <2>3
<1>2. /\ history \in Seq(Items') /\ parked \in Seq(Items') /\ items \in Seq(Items') /\ Once(items)
      /\ refused \subseteq Items' /\ summarized \subseteq Items'
      /\ withdrawn \subseteq Items' /\ lost \subseteq Items' /\ dropped \subseteq Items'
  <2>1. history \in Seq(Items') /\ parked \in Seq(Items')
    BY <1>1, WiderSeq DEF Typed, ContextOK
  <2>2. items \in Seq(Items')
    BY <1>1, WiderSeq
  <2> QED
    BY <1>1, <2>1, <2>2 DEF Typed, ContextOK, Once
<1>3. \A n : (n \in ToSet(items) <=> In(n, items)) /\ (In(n, items) => n \in Inputs')
  BY MemberFacts, LenProperties DEF In
<1>4. \A n \in Inputs' : In(n, items) => ~In(n, Line) /\ ~In(n, buffer) /\ ~Waiting(n)
  BY DEF Homeless
<1>5. \A n : ~(In(n, items) /\ In(n, buffer)) /\ ~(In(n, items) /\ In(n, Line))
  BY <1>3, <1>4
\* Where the items go, k, and that nothing else moves.
<1>6. ASSUME NEW k \in {"line", "buffer", "prompt", "refused"},
             \A n \in Inputs' :
               /\ In(n, Line') <=> In(n, Line) \/ (k = "line" /\ In(n, items))
               /\ In(n, steerBuffer') <=> In(n, buffer) \/ (k = "buffer" /\ In(n, items))
               /\ Waiting(n)' <=> Waiting(n) \/ (k = "prompt" /\ In(n, items))
               /\ n \in refused' <=> n \in refused \/ (k = "refused" /\ In(n, items)),
             NEW n \in Inputs'
      PROVE  \E h \in PlaceNames : Home(n, h, Line, steerBuffer)'
  <2>1. CASE In(n, items)
    <3>1. Home(n, k, Line, steerBuffer)'
      BY <1>6, <2>1 DEF Home, Homeless, PlaceNames
    <3> QED
      BY <3>1 DEF PlaceNames
  <2>2. CASE ~In(n, items)
    <3>1. PICK h \in PlaceNames : Home(n, h, Line, buffer)
      BY <2>2
    <3>2. Home(n, h, Line, steerBuffer)'
      BY <1>6, <2>2, <3>1 DEF Home
    <3> QED
      BY <3>2
  <2> QED
    BY <2>1, <2>2
<1>7. ASSUME UNCHANGED workers
      PROVE  WaitsOnce' /\ \A n \in Inputs' : Waiting(n)' <=> Waiting(n)
  BY <1>7 DEF WaitsOnce, Waiting, Waits, At, Worker
<1>8. CASE activeTurn # 0
  <2>1. /\ refused' = refused \cup ToSet(items) /\ steerBuffer' = buffer
        /\ history' = history /\ parked' = parked /\ workers' = workers /\ Line' = Line
    BY <1>8 DEF launch, LaunchOrDefer, turnVars, historyVars, Line
  <2>2. \A n \in Inputs' : \E h \in PlaceNames : Home(n, h, Line, steerBuffer)'
    <3> DEFINE k == "refused"
    <3>1. \A n \in Inputs' :
            /\ In(n, Line') <=> In(n, Line) \/ (k = "line" /\ In(n, items))
            /\ In(n, steerBuffer') <=> In(n, buffer) \/ (k = "buffer" /\ In(n, items))
            /\ Waiting(n)' <=> Waiting(n) \/ (k = "prompt" /\ In(n, items))
            /\ n \in refused' <=> n \in refused \/ (k = "refused" /\ In(n, items))
      BY <1>3, <1>7, <2>1
    <3> QED
      BY <1>6, <3>1
  <2>3. ContextOK'
    BY <1>1, <1>2, <1>3, <2>1 DEF ContextOK
  <2> QED
    BY <1>7, <2>1, <2>2, <2>3 DEF PlacesOK, Placed
<1>9. CASE activeTurn = 0 /\ compacting' # 0
  <2>1. /\ refused' = refused /\ steerBuffer' = buffer \o items
        /\ history' = history /\ parked' = parked /\ workers' = workers /\ Line' = Line
    BY <1>9 DEF launch, LaunchOrDefer, turnVars, historyVars, Line
  <2>2. /\ steerBuffer' \in Seq(Inputs') /\ Once(steerBuffer')
        /\ \A n : In(n, steerBuffer') <=> In(n, buffer) \/ In(n, items)
    BY <1>2, <1>5, <2>1, ConcatIn
  <2>3. \A n \in Inputs' : \E h \in PlaceNames : Home(n, h, Line, steerBuffer)'
    <3> DEFINE k == "buffer"
    <3>1. \A n \in Inputs' :
            /\ In(n, Line') <=> In(n, Line) \/ (k = "line" /\ In(n, items))
            /\ In(n, steerBuffer') <=> In(n, buffer) \/ (k = "buffer" /\ In(n, items))
            /\ Waiting(n)' <=> Waiting(n) \/ (k = "prompt" /\ In(n, items))
            /\ n \in refused' <=> n \in refused \/ (k = "refused" /\ In(n, items))
      BY <1>7, <2>1, <2>2
    <3> QED
      BY <1>6, <3>1
  <2>4. ContextOK'
    BY <1>2, <2>1, <2>2 DEF ContextOK
  <2> QED
    BY <1>7, <2>1, <2>2, <2>3, <2>4 DEF PlacesOK, Placed
<1>10. CASE activeTurn = 0 /\ compacting' = 0
  <2>1. StartWorker(items, g) /\ steerBuffer' = buffer /\ refused' = refused
    BY <1>10 DEF launch, LaunchOrDefer
  <2>2. items \in Seq(Nat) /\ \A i \in DOMAIN items : i = 1 /\ items[i] \in 0..Len(origins')
    <3>1. items \in Seq(Nat)
      BY <1>1, WiderSeq
    <3>2. \A i \in DOMAIN items : items[i] \in Items'
      BY <1>2, ElementOfSeq, LenProperties
    <3> QED
      BY <3>1, <3>2 DEF Items
  <2>3. IsActive(g) \in BOOLEAN
    BY DEF IsActive
  <2>4. CASE IsActive(g) /\ overBudget(g)
    <3>1. PICK r : r = EndedWorker(NewWorker(items, TRUE, FALSE))
      OBVIOUS
    <3>2. workers' = Append(workers, r) /\ appendMessage(items)
      BY <2>1, <2>4, <3>1 DEF StartWorker
    <3>3. r \in WorkerType /\ r.pc = "done"
      <4>1. WorkerOK(r, turnId + 1, Len(origins'))
        BY <1>1, <2>2, <3>1, NewWorkerFacts
      <4> QED
        BY <3>1, <4>1 DEF WorkerOK, EndedWorker, NewWorker
    <3>4. WaitsOnce' /\ \A n \in Inputs' : Waiting(n)' <=> Waiting(n)
      BY <3>2, <3>3, WaitsAppend
    <3>5. /\ history' \in Seq(Items') /\ parked' \in Seq(Items') /\ Once(Line')
          /\ \A n \in Inputs' : In(n, Line') <=> In(n, Line) \/ In(n, items)
      <4>1. history' \in Seq(Items') /\ parked' \in Seq(Items') /\ Keeps(Line', items)
        BY <1>2, <3>2, AppendedKeeps
      <4> QED
        BY <1>1, <1>2, <1>5, <4>1 DEF Keeps
    <3>6. \A n \in Inputs' : \E h \in PlaceNames : Home(n, h, Line, steerBuffer)'
      <4> DEFINE k == "line"
      <4>1. \A n \in Inputs' :
              /\ In(n, Line') <=> In(n, Line) \/ (k = "line" /\ In(n, items))
              /\ In(n, steerBuffer') <=> In(n, buffer) \/ (k = "buffer" /\ In(n, items))
              /\ Waiting(n)' <=> Waiting(n) \/ (k = "prompt" /\ In(n, items))
              /\ n \in refused' <=> n \in refused \/ (k = "refused" /\ In(n, items))
        BY <2>1, <3>4, <3>5
      <4> QED
        BY <1>6, <4>1
    <3>7. ContextOK'
      BY <1>2, <2>1, <3>5 DEF ContextOK
    <3> QED
      BY <2>1, <3>4, <3>5, <3>6, <3>7 DEF PlacesOK, Placed
  <2>5. CASE ~(IsActive(g) /\ overBudget(g))
    <3>1. PICK r : r = NewWorker(items, IsActive(g), FALSE)
      OBVIOUS
    <3>2. /\ workers' = Append(workers, r) /\ Line' = Line
          /\ history' = history /\ parked' = parked
      BY <2>1, <2>5, <3>1 DEF StartWorker, historyVars, Line
    <3>3. r \in WorkerType /\ r.pc = "prompt" /\ r.prompt = items
      <4>1. WorkerOK(r, turnId + 1, Len(origins'))
        BY <1>1, <2>2, <2>3, <3>1, NewWorkerFacts
      <4> QED
        BY <3>1, <4>1 DEF WorkerOK, NewWorker
    <3>4. WaitsOnce' /\ \A n \in Inputs' : Waiting(n)' <=> Waiting(n) \/ In(n, items)
      BY <1>4, <3>2, <3>3, WaitsAppend
    <3>5. \A n \in Inputs' : \E h \in PlaceNames : Home(n, h, Line, steerBuffer)'
      <4> DEFINE k == "prompt"
      <4>1. \A n \in Inputs' :
              /\ In(n, Line') <=> In(n, Line) \/ (k = "line" /\ In(n, items))
              /\ In(n, steerBuffer') <=> In(n, buffer) \/ (k = "buffer" /\ In(n, items))
              /\ Waiting(n)' <=> Waiting(n) \/ (k = "prompt" /\ In(n, items))
              /\ n \in refused' <=> n \in refused \/ (k = "refused" /\ In(n, items))
        BY <2>1, <3>2, <3>4
      <4> QED
        BY <1>6, <4>1
    <3>6. ContextOK'
      BY <1>2, <2>1, <3>2 DEF ContextOK
    <3> QED
      BY <2>1, <3>2, <3>4, <3>5, <3>6 DEF PlacesOK, Placed
  <2> QED
    BY <2>4, <2>5
<1> QED
  BY <1>8, <1>9, <1>10

\* A step that moves no input.
LEMMA StillPlaces ==
  ASSUME Typed, PlacesOK,
         UNCHANGED <<history, parked, origins, summarized, dropped, steerBuffer, refused,
                     withdrawn, lost>>,
         Len(workers') = Len(workers),
         \A w \in Worker : workers'[w].pc = workers[w].pc /\ workers'[w].prompt = workers[w].prompt
  PROVE  ContextOK' /\ PlacesOK'
<1>1. Worker' = Worker /\ Inputs' = Inputs /\ Items' = Items
  BY DEF Worker, Inputs, Items
<1>2. \A w \in Worker : \A n : Waits(w, n)' <=> Waits(w, n)
  BY DEF Waits, At
<1>3. \A n : Waiting(n)' <=> Waiting(n)
  BY <1>1, <1>2 DEF Waiting
<1>4. ContextOK'
  BY <1>1 DEF Typed, ContextOK
<1>7. Line' = Line
  BY DEF Line
<1>5. \A n \in Inputs, h \in PlaceNames :
        Home(n, h, Line, steerBuffer) => Home(n, h, Line, steerBuffer)'
  BY <1>3, <1>7 DEF Home
<1>6. WaitsOnce'
  BY <1>1, <1>2 DEF PlacesOK, WaitsOnce
<1> QED
  BY <1>1, <1>4, <1>5, <1>6, <1>7 DEF PlacesOK, Placed

\* A step that only hands the buffer or something of the model's to the history.
LEMMA HandedStep ==
  ASSUME Typed, PlacesOK, Moved,
         UNCHANGED <<origins, summarized, dropped, workers, refused, withdrawn, lost>>
  PROVE  ContextOK' /\ PlacesOK'
<1>1. steerBuffer' \in Seq(Inputs) /\ Placed(Line', steerBuffer') /\ LineTyped
  BY HandedPlaces DEF PlacesOK, Moved
<1>2. Worker' = Worker /\ Inputs' = Inputs /\ Items' = Items
  BY DEF Worker, Inputs, Items
<1>3. (\A n : Waiting(n)' <=> Waiting(n)) /\ WaitsOnce'
  BY <1>2 DEF PlacesOK, WaitsOnce, Waiting, Waits, At
<1>4. ContextOK'
  BY <1>1, <1>2 DEF Typed, ContextOK, LineTyped
<1>5. \A n \in Inputs, h \in PlaceNames :
        Home(n, h, Line', steerBuffer') => Home(n, h, Line, steerBuffer)'
  BY <1>3 DEF Home
<1> QED
  BY <1>1, <1>2, <1>3, <1>4, <1>5 DEF PlacesOK, Placed

\* A submitted input is nowhere before it is submitted.
LEMMA NewInput ==
  ASSUME Typed, PlacesOK, NEW o \in {"user", "note"}, Submit(o), NEW n, n = Len(origins) + 1
  PROVE  /\ origins' \in Seq({"user", "note"}) /\ Inputs \subseteq Inputs' /\ n \in Inputs'
         /\ \A m \in Inputs' : m \in Inputs \/ m = n
         /\ n \notin Inputs /\ n # 0 /\ Homeless(n, Line, steerBuffer)
         /\ steerBuffer \in Seq(Inputs') /\ Items \subseteq Items'
         /\ \A m \in Inputs' : \A v, w \in Worker : Waits(v, m) /\ Waits(w, m) => v = w
<1>1. /\ origins \in Seq({"user", "note"}) /\ Len(origins) \in Nat
      /\ origins' \in Seq({"user", "note"}) /\ Len(origins') = n
  BY AppendProperties, LenProperties DEF Typed, ContextOK, Submit
<1>2. /\ Inputs = 1..Len(origins) /\ Inputs' = 1..n
      /\ Items = 0..Len(origins) /\ Items' = 0..n
  BY <1>1 DEF Inputs, Items
<1>3. /\ Inputs \subseteq Inputs' /\ n \in Inputs' /\ Items \subseteq Items'
      /\ (\A m \in Inputs' : m \in Inputs \/ m = n) /\ n \notin Inputs /\ n # 0 /\ n \notin Items
      /\ Inputs \subseteq Items
  BY <1>1, <1>2
<1>4. ~In(n, Line) /\ ~In(n, steerBuffer)
  <2>1. ~In(n, history) /\ ~In(n, parked) /\ ~In(n, steerBuffer)
    BY <1>3, LenProperties, ElementOfSeq DEF In, Typed, ContextOK
  <2>2. In(n, Line) <=> In(n, history) \/ In(n, parked)
    BY ConcatIn DEF Line, Typed, ContextOK
  <2> QED
    BY <2>1, <2>2
<1>5. \A w \in Worker : ~Waits(w, n)
  <2>1. \A w \in Worker : \A i \in DOMAIN workers[w].prompt : workers[w].prompt[i] \in Items
    BY DEF Typed, WorkersOK, WorkerOK, Items
  <2> QED
    BY <1>3, <2>1 DEF Waits, In
<1>6. Homeless(n, Line, steerBuffer)
  BY <1>3, <1>4, <1>5 DEF Homeless, Waiting, Typed, ContextOK
<1>7. steerBuffer \in Seq(Inputs')
  BY <1>3, WiderSeq DEF Typed, ContextOK
<1>8. \A m \in Inputs' : \A v, w \in Worker : Waits(v, m) /\ Waits(w, m) => v = w
  BY <1>3, <1>5 DEF PlacesOK, WaitsOnce
<1> QED
  BY <1>1, <1>3, <1>6, <1>7, <1>8

\* The one item of a list of one.
LEMMA SingleItem ==
  ASSUME NEW S, NEW n \in S
  PROVE  /\ <<n>> \in Seq(S) /\ \A i \in DOMAIN <<n>> : i = 1
         /\ \A m : In(m, <<n>>) <=> m = n
<1>1. DOMAIN <<n>> = {1} /\ <<n>>[1] = n
  OBVIOUS
<1> QED
  BY <1>1 DEF In

\* A new input that is launched, or waits in the buffer.
LEMMA SubmitPlaces ==
  ASSUME Typed, PlacesOK, NEW o \in {"user", "note"}, Submit(o), prompt \/ steer(o)
  PROVE  ContextOK' /\ PlacesOK'
<1>1. PICK n : n = Len(origins) + 1
  OBVIOUS
<1>2. /\ origins' \in Seq({"user", "note"}) /\ Inputs \subseteq Inputs' /\ n \in Inputs'
      /\ \A m \in Inputs' : m \in Inputs \/ m = n
      /\ n \notin Inputs /\ n # 0 /\ Homeless(n, Line, steerBuffer)
      /\ steerBuffer \in Seq(Inputs') /\ Items \subseteq Items'
      /\ \A m \in Inputs' : \A v, w \in Worker : Waits(v, m) /\ Waits(w, m) => v = w
  BY <1>1, NewInput
<1>3. /\ Once(Line) /\ Once(steerBuffer)
      /\ \A m \in Inputs : \E h \in PlaceNames : Home(m, h, Line, steerBuffer)
  BY DEF PlacesOK, Placed
<1>4. UNCHANGED <<summarized, withdrawn, lost, dropped>>
  BY DEF prompt, steer
<1>5. CASE launch(<<n>>, steerBuffer, goal)
  <2>1. /\ <<n>> \in Seq(Inputs') /\ \A i \in DOMAIN <<n>> : i = 1
        /\ \A m : In(m, <<n>>) <=> m = n
    BY <1>2, SingleItem
  <2> DEFINE items == <<n>>
  <2>2. \A m \in Inputs' :
           \/ In(m, items) /\ Homeless(m, Line, steerBuffer)
           \/ ~In(m, items) /\ \E h \in PlaceNames : Home(m, h, Line, steerBuffer)
    BY <1>2, <1>3, <2>1
  <2>3. items \in Seq(Inputs') /\ (\A i \in DOMAIN items : i = 1) /\ launch(items, steerBuffer, goal)
    BY <1>5, <2>1
  <2> HIDE DEF items
  <2> QED
    BY <1>2, <1>3, <1>4, <2>2, <2>3, LaunchPlaces
<1>6. CASE steerBuffer' = Append(steerBuffer, n) /\ UNCHANGED <<turnVars, historyVars, refused>>
  <2>0. history' = history /\ parked' = parked /\ Line' = Line
    BY <1>6 DEF historyVars, Line
  <2>1. /\ steerBuffer' \in Seq(Inputs') /\ Once(steerBuffer')
        /\ \A m : In(m, steerBuffer') <=> In(m, steerBuffer) \/ m = n
    BY <1>2, <1>3, <1>6, AppendIn DEF Homeless
  <2>2. (\A m : Waiting(m)' <=> Waiting(m)) /\ WaitsOnce'
    BY <1>2, <1>6 DEF turnVars, Waiting, WaitsOnce, Waits, At, Worker
  <2>3. ContextOK'
    <3>1. history \in Seq(Items') /\ parked \in Seq(Items')
      BY <1>2, WiderSeq DEF Typed, ContextOK
    <3> QED
      BY <1>2, <1>4, <1>6, <2>0, <2>1, <3>1 DEF Typed, ContextOK
  <2>4. ASSUME NEW m \in Inputs' PROVE \E h \in PlaceNames : Home(m, h, Line, steerBuffer)'
    <3>1. CASE m = n
      <4>1. Home(m, "buffer", Line, steerBuffer)'
        BY <1>2, <1>4, <1>6, <2>0, <2>1, <2>2, <3>1 DEF Home, Homeless, PlaceNames
      <4> QED
        BY <4>1 DEF PlaceNames
    <3>2. CASE m # n
      <4>1. PICK h \in PlaceNames : Home(m, h, Line, steerBuffer)
        BY <1>2, <1>3, <3>2
      <4>2. Home(m, h, Line, steerBuffer)'
        BY <1>4, <1>6, <2>0, <2>1, <2>2, <3>2, <4>1 DEF Home
      <4> QED
        BY <4>2
    <3> QED
      BY <3>1, <3>2
  <2> QED
    BY <1>3, <1>6, <2>0, <2>1, <2>2, <2>3, <2>4 DEF PlacesOK, Placed
<1> QED
  BY <1>1, <1>5, <1>6 DEF prompt, steer

\* The end of a compaction hands the buffer to the active turn or launches its
\* first input.
LEMMA DeferredPlaces ==
  ASSUME Typed, PlacesOK, onCompactionFinished, UNCHANGED <<origins, summarized, withdrawn, lost, dropped>>
  PROVE  ContextOK' /\ PlacesOK'
<1>1. CASE /\ appendMessage(steerBuffer) /\ steerBuffer' = << >>
           /\ UNCHANGED <<turnVars, refused>>
  BY <1>1, Moves, HandedStep DEF turnVars
<1>2. CASE steerBuffer # << >> /\ launch(<<Head(steerBuffer)>>, Tail(steerBuffer), goal)
  <2>1. /\ steerBuffer \in Seq(Inputs) /\ Once(steerBuffer) /\ Once(Line) /\ WaitsOnce
        /\ \A n \in Inputs : \E h \in PlaceNames : Home(n, h, Line, steerBuffer)
        /\ Inputs' = Inputs /\ origins' \in Seq({"user", "note"}) /\ \A n \in Inputs : n # 0
    <3>1. Len(origins) \in Nat
      BY LenProperties DEF Typed, ContextOK
    <3> QED
      BY <3>1 DEF Typed, ContextOK, PlacesOK, Placed, Inputs
  <2>2. PICK first, rest : first = Head(steerBuffer) /\ rest = Tail(steerBuffer)
    OBVIOUS
  <2>3. /\ first \in Inputs /\ rest \in Seq(Inputs) /\ Once(rest)
        /\ \A n : In(n, steerBuffer) <=> In(n, rest) \/ n = first
        /\ ~In(first, rest)
    <3>1. /\ first \in Inputs /\ rest \in Seq(Inputs) /\ Once(rest)
          /\ \A n : In(n, steerBuffer) <=> In(n, rest) \/ n = first
          /\ first # 0 => ~In(first, rest)
      BY <1>2, <2>1, <2>2, TailIn
    <3> QED
      BY <2>1, <3>1
  <2> DEFINE items == <<first>>
  <2>4. /\ items \in Seq(Inputs) /\ (\A i \in DOMAIN items : i = 1)
        /\ \A m : In(m, items) <=> m = first
    BY <2>3, SingleItem
  <2>5. launch(items, rest, goal)
    BY <1>2, <2>2
  <2> HIDE DEF items
  <2>6. ASSUME NEW n \in Inputs
        PROVE  \/ In(n, items) /\ Homeless(n, Line, rest)
               \/ ~In(n, items) /\ \E h \in PlaceNames : Home(n, h, Line, rest)
    <3>1. PICK h \in PlaceNames : Home(n, h, Line, steerBuffer)
      BY <2>1
    <3>2. CASE n = first
      BY <2>3, <2>4, <3>1, <3>2 DEF Home, Homeless
    <3>3. CASE n # first
      <4>1. Home(n, h, Line, rest)
        BY <2>3, <3>1, <3>3 DEF Home
      <4> QED
        BY <2>4, <3>3, <4>1
    <3> QED
      BY <3>2, <3>3
  <2>7. \A n \in Inputs' : \A v, w \in Worker : Waits(v, n) /\ Waits(w, n) => v = w
    BY <2>1 DEF WaitsOnce
  <2> QED
    BY <2>1, <2>3, <2>4, <2>5, <2>6, <2>7, LaunchPlaces
<1> QED
  BY <1>1, <1>2 DEF onCompactionFinished

\* A retry launches a turn without an input.
LEMMA ResumePlaces ==
  ASSUME Typed, PlacesOK, NEW g, launch(<< >>, steerBuffer, g),
         UNCHANGED <<origins, summarized, withdrawn, lost, dropped>>
  PROVE  ContextOK' /\ PlacesOK'
<1>1. /\ steerBuffer \in Seq(Inputs) /\ Once(steerBuffer) /\ Once(Line) /\ WaitsOnce
      /\ \A n \in Inputs : \E h \in PlaceNames : Home(n, h, Line, steerBuffer)
      /\ Inputs' = Inputs /\ origins' \in Seq({"user", "note"})
  BY DEF Typed, ContextOK, PlacesOK, Placed, Inputs
<1> DEFINE items == << >>
<1>2. items \in Seq(Inputs) /\ (\A i \in DOMAIN items : i = 1) /\ \A n : ~In(n, items)
  BY DEF In
<1>3. launch(items, steerBuffer, g)
  OBVIOUS
<1> HIDE DEF items
<1>4. \A n \in Inputs' : \A v, w \in Worker : Waits(v, n) /\ Waits(w, n) => v = w
  BY <1>1 DEF WaitsOnce
<1> QED
  BY <1>1, <1>2, <1>3, <1>4, LaunchPlaces

\* What a compaction was begun with is a history.
LEMMA OriginalType ==
  ASSUME Typed, NEW c \in DOMAIN compactions
  PROVE  compactions[c].original \in Seq(Nat)
<1>1. compactions \in Seq(CompactionType) /\ DOMAIN compactions = 1..Len(compactions)
  BY LenProperties DEF Typed, CompactionOK
<1>2. compactions[c] \in CompactionType
  BY <1>1, ElementOfSeq
<1> QED
  BY <1>2 DEF CompactionType

\* What a compaction that applies knows of the history: everything the user did
\* not write is in the part that was summarized.
LEMMA PrefixIn ==
  ASSUME Typed, NEW c \in DOMAIN compactions, Compactable(c)
  PROVE  /\ \A n : In(n, compactions[c].original) => In(n, history)
         /\ \A n : In(n, history) /\ ~isRealUserInput(n) => In(n, compactions[c].original)
<1> DEFINE s == compactions[c].original
<1>1. /\ s \in Seq(Nat) /\ Len(s) \in Nat /\ DOMAIN s = 1..Len(s)
      /\ Len(history) \in Nat /\ DOMAIN history = 1..Len(history)
      /\ \A i \in 1..Len(history) : history[i] \in Items
  <2>1. s \in Seq(Nat)
    BY OriginalType
  <2> HIDE DEF s
  <2> QED
    BY <2>1, LenProperties, ElementOfSeq DEF Typed, ContextOK
<1>2. /\ Len(s) <= Len(history) /\ SubSeq(s, 1, Len(s)) = SubSeq(history, 1, Len(s))
      /\ \A i \in DOMAIN NewTail(c) : isRealUserInput(NewTail(c)[i])
  BY DEF Compactable, IsPrefix
<1>3. NewTail(c) = SubSeq(history, Len(s) + 1, Len(history))
  BY DEF NewTail
<1> HIDE DEF s
<1>4. \A i \in 1..Len(s) : i \in 1..Len(history) /\ s[i] = history[i]
  <2> SUFFICES ASSUME NEW i \in 1..Len(s) PROVE i \in 1..Len(history) /\ s[i] = history[i]
    OBVIOUS
  <2>1. SubSeq(s, 1, Len(s))[i] = s[i]
    BY <1>1
  <2>2. SubSeq(history, 1, Len(s))[i] = history[i]
    BY <1>1, <1>2
  <2> QED
    BY <1>1, <1>2, <2>1, <2>2
<1>5. ASSUME NEW i \in 1..Len(history), ~(i \in 1..Len(s)) PROVE isRealUserInput(history[i])
  <2>1. /\ Len(s) + 1 \in Int /\ Len(history) \in Int /\ i - Len(s) \in 1..(Len(history) - Len(s))
        /\ \A k \in Len(s) + 1 .. Len(history) : k \in 1..Len(history)
        /\ Len(history) - (Len(s) + 1) + 1 = Len(history) - Len(s)
        /\ (Len(s) + 1) + (i - Len(s)) - 1 = i
        /\ Len(s) + 1 <= Len(history)
    BY <1>1, <1>5
  <2>2. \A k \in Len(s) + 1 .. Len(history) : history[k] \in Items
    BY <1>1, <2>1
  <2> DEFINE t == SubSeq(history, Len(s) + 1, Len(history))
  <2>3. /\ t \in Seq(Items) /\ Len(t) = Len(history) - Len(s)
        /\ \A k \in 1..(Len(history) - Len(s)) : t[k] = history[(Len(s) + 1) + k - 1]
    BY <2>1, <2>2, SubSeqProperties
  <2> HIDE DEF t
  <2>4. i - Len(s) \in DOMAIN t /\ t[i - Len(s)] = history[i]
    BY <2>1, <2>3, LenProperties
  <2> QED
    BY <1>2, <1>3, <2>4 DEF t
<1>6. \A n : In(n, s) => In(n, history)
  BY <1>1, <1>4 DEF In
<1>7. \A n : In(n, history) /\ ~isRealUserInput(n) => In(n, s)
  BY <1>1, <1>4, <1>5 DEF In
<1> QED
  BY <1>6, <1>7 DEF s

\* A summary replaces what the user did not write.
LEMMA SummaryPlaces ==
  ASSUME Typed, PlacesOK, NEW c \in DOMAIN compactions, summaryApplied(c)
  PROVE  ContextOK' /\ PlacesOK'
<1> DEFINE K == {i \in DOMAIN history : isRealUserInput(history[i])}
<1>1. /\ Compactable(c)
      /\ \E kept \in Filtered(history, K) : ClosesWith(Append(kept, 0))
      /\ dropped' = dropped \cup (ToSet(parked) \ {0})
      /\ summarized' = summarized \cup
           {n \in ToSet(compactions[c].original) : n # 0 /\ ~isRealUserInput(n)}
      /\ UNCHANGED <<origins, steerBuffer, refused, withdrawn, lost, workers>>
  BY DEF summaryApplied, applyCompaction, inputVars, recallVars, turnVars
<1>2. PICK kept \in Filtered(history, K) : ClosesWith(Append(kept, 0))
  BY <1>1
<1>3. /\ history \in Seq(Items) /\ Once(history) /\ Len(origins) \in Nat /\ 0 \in Items
      /\ parked \in Seq(Items)
      /\ \A n \in Inputs : n # 0 /\ ~(In(n, history) /\ In(n, parked))
      /\ \A n : In(n, Line) <=> In(n, history) \/ In(n, parked)
  <2>1. Len(origins) \in Nat
    BY LenProperties DEF Typed, ContextOK
  <2>2. history \in Seq(Items) /\ parked \in Seq(Items)
    BY DEF Typed, ContextOK
  <2>3. /\ Once(history) /\ \A n : n # 0 => ~(In(n, history) /\ In(n, parked))
        /\ \A n : In(n, Line) <=> In(n, history) \/ In(n, parked)
    BY <2>2, OnceParts, ConcatIn DEF Line, PlacesOK, Placed
  <2>4. 0 \in Items /\ \A n \in Inputs : n # 0
    BY <2>1 DEF Inputs, Items
  <2> QED
    BY <2>1, <2>2, <2>3, <2>4
<1>4. /\ kept \in Seq(Items) /\ Once(kept)
      /\ \A n : In(n, kept) <=> \E i \in K : history[i] = n
  <2>1. K \in SUBSET DOMAIN history
    OBVIOUS
  <2> HIDE DEF K
  <2> QED
    BY <1>2, <1>3, <2>1, FilteredIn
<1>5. \A n : In(n, kept) <=> In(n, history) /\ isRealUserInput(n)
  BY <1>4 DEF In
<1> HIDE DEF K
<1>6. /\ history' \in Seq(Items) /\ parked' \in Seq(Items) /\ Once(Line')
      /\ \A n \in Inputs : In(n, Line') <=> In(n, history) /\ isRealUserInput(n)
  <2>1. /\ Append(kept, 0) \in Seq(Items) /\ Once(Append(kept, 0))
        /\ \A n \in Inputs : In(n, Append(kept, 0)) <=> In(n, history) /\ isRealUserInput(n)
    BY <1>3, <1>4, <1>5, AppendIn
  <2> QED
    BY <1>2, <2>1, ClosedLine
<1>16. /\ dropped' \subseteq Items
       /\ \A n \in Inputs : n \in dropped' <=> n \in dropped \/ In(n, parked)
  <2>1. \A n : (n \in ToSet(parked) <=> In(n, parked)) /\ (In(n, parked) => n \in Items)
    BY <1>3, MemberFacts, LenProperties DEF In
  <2>2. dropped \subseteq Items
    BY DEF Typed, ContextOK
  <2> QED
    BY <1>1, <1>3, <2>1, <2>2
<1>7. \A n : In(n, compactions[c].original) <=> n \in ToSet(compactions[c].original)
  <2>1. compactions[c].original \in Seq(Nat)
    BY OriginalType
  <2> QED
    BY <2>1, MemberFacts, LenProperties DEF In
<1>8. /\ \A n : In(n, compactions[c].original) => In(n, history)
      /\ \A n : In(n, history) /\ ~isRealUserInput(n) => In(n, compactions[c].original)
  BY <1>1, PrefixIn
<1>9. \A n \in Inputs :
        n \in summarized' <=> n \in summarized \/ (In(n, history) /\ ~isRealUserInput(n))
  BY <1>1, <1>3, <1>7, <1>8
<1>10. summarized' \subseteq Items
  <2>1. \A n : In(n, history) => n \in Items
    BY <1>3, LenProperties, ElementOfSeq DEF In
  <2>2. summarized \subseteq Items
    BY DEF Typed, ContextOK
  <2> QED
    BY <1>1, <1>7, <1>8, <2>1, <2>2
<1>11. Inputs' = Inputs /\ Items' = Items /\ Worker' = Worker
  BY <1>1 DEF Inputs, Items, Worker
<1>12. (\A n : Waiting(n)' <=> Waiting(n)) /\ WaitsOnce'
  BY <1>1, <1>11 DEF PlacesOK, WaitsOnce, Waiting, Waits, At
<1>13. ContextOK'
  BY <1>1, <1>6, <1>10, <1>11, <1>16 DEF Typed, ContextOK
<1>14. ASSUME NEW n \in Inputs PROVE \E h \in PlaceNames : Home(n, h, Line, steerBuffer)'
  <2>1. PICK h \in PlaceNames : Home(n, h, Line, steerBuffer)
    BY DEF PlacesOK, Placed
  <2>2. CASE In(n, history) /\ ~isRealUserInput(n)
    <3>1. Home(n, "summarized", Line, steerBuffer)'
      BY <1>1, <1>3, <1>6, <1>9, <1>12, <1>16, <2>1, <2>2 DEF Home, PlaceNames
    <3> QED
      BY <3>1 DEF PlaceNames
  <2>4. CASE In(n, parked)
    <3>1. Home(n, "dropped", Line, steerBuffer)'
      BY <1>1, <1>3, <1>6, <1>9, <1>12, <1>16, <2>1, <2>4 DEF Home, PlaceNames
    <3> QED
      BY <3>1 DEF PlaceNames
  <2>3. CASE ~(In(n, history) /\ ~isRealUserInput(n)) /\ ~In(n, parked)
    <3>1. Home(n, h, Line, steerBuffer)'
      BY <1>1, <1>3, <1>6, <1>9, <1>12, <1>16, <2>1, <2>3 DEF Home
    <3> QED
      BY <3>1
  <2> QED
    BY <2>2, <2>3, <2>4
<1>15. Once(steerBuffer)'
  BY <1>1 DEF PlacesOK, Placed
<1> QED
  BY <1>6, <1>11, <1>12, <1>13, <1>14, <1>15 DEF PlacesOK, Placed

\* No step drops or doubles an input.
LEMMA PlacesStep == Typed /\ PlacesOK /\ [FlowNext]_flowVars => ContextOK' /\ PlacesOK'
<1> SUFFICES ASSUME Typed, PlacesOK, [FlowNext]_flowVars PROVE ContextOK' /\ PlacesOK'
  OBVIOUS
<1>1. ASSUME UNCHANGED <<contextVars, steerBuffer, refused, withdrawn, lost, workers>>
      PROVE  ContextOK' /\ PlacesOK'
  BY <1>1, StillPlaces DEF contextVars, historyVars
<1>2. CASE \E w \in Worker : TurnWorker(w)
  <2>1. PICK w \in Worker : TurnWorker(w)
    BY <1>2
  <2> QED
    BY <2>1, WorkerShape, ProceedsPlaces, FinishesPlaces DEF WorkerMoves
<1>3. CASE prompt
  BY <1>3, SubmitPlaces DEF prompt
<1>4. ASSUME NEW o \in {"user", "note"}, steer(o) PROVE ContextOK' /\ PlacesOK'
  BY <1>4, SubmitPlaces DEF steer
<1>5. CASE \E recall \in BOOLEAN : cancel(recall)
  <2>1. /\ UNCHANGED <<history, parked, origins, summarized, dropped, steerBuffer, refused,
                        withdrawn, lost>>
        /\ activeTurn # 0 /\ workers' = [workers EXCEPT ![activeTurn].aborted = TRUE]
    BY <1>5 DEF cancel, contextVars, historyVars, inputVars
  <2>2. /\ workers \in Seq(WorkerType) /\ activeTurn \in 1..Len(workers) /\ Len(workers) \in Nat
        /\ \A w \in 1..Len(workers) : workers[w] \in WorkerType
    BY <2>1, LenProperties, ElementOfSeq DEF Typed, WorkersOK
  <2> DEFINE r == [workers[activeTurn] EXCEPT !.aborted = TRUE]
  <2>3. r.pc = workers[activeTurn].pc /\ r.prompt = workers[activeTurn].prompt /\ r \in WorkerType
    BY <2>2 DEF WorkerType
  <2>4. workers' = [workers EXCEPT ![activeTurn] = r]
    BY <2>1
  <2> HIDE DEF r
  <2>5. /\ Len(workers') = Len(workers)
        /\ \A w \in 1..Len(workers) : workers'[w] = IF w = activeTurn THEN r ELSE workers[w]
    BY <2>2, <2>3, <2>4, ExceptSeq
  <2>6. \A w \in Worker :
          workers'[w].pc = workers[w].pc /\ workers'[w].prompt = workers[w].prompt
    BY <2>3, <2>5 DEF Worker
  <2> QED
    BY <2>1, <2>5, <2>6, StillPlaces
<1>6. CASE cancelGoal
  BY <1>6, Moves, HandedStep DEF cancelGoal, turnVars, inputVars, recallVars
<1>7. CASE cancelOther \/ goalCommand \/ beginCompaction \/ cancelCompaction
  BY <1>1, <1>7
     DEF cancelOther, goalCommand, beginCompaction, cancelCompaction, turnVars, inputVars, recallVars
<1>8. CASE fireRateLimitResume
  <2>1. UNCHANGED <<origins, summarized, withdrawn, lost, dropped>>
    BY <1>8 DEF fireRateLimitResume
  <2>2. CASE MayResume
    <3>1. PICK g : launch(<< >>, steerBuffer, g)
      BY <1>8, <2>2 DEF fireRateLimitResume
    <3> QED
      BY <2>1, <3>1, ResumePlaces
  <2>3. CASE ~MayResume
    BY <1>1, <1>8, <2>3 DEF fireRateLimitResume, contextVars, turnVars, inputVars
  <2> QED
    BY <2>2, <2>3
<1>9. ASSUME NEW c \in DOMAIN compactions, CompactionWorker(c) PROVE ContextOK' /\ PlacesOK'
  <2>1. CASE summaryApplied(c)
    BY <2>1, SummaryPlaces
  <2>2. CASE compactionOver(c)
    BY <2>2, DeferredPlaces DEF compactionOver
  <2> QED
    BY <1>9, <2>1, <2>2 DEF CompactionWorker
<1>10. CASE UNCHANGED flowVars
  BY <1>1, <1>10 DEF flowVars, turnVars, inputVars, recallVars
<1> QED
  BY <1>2, <1>3, <1>4, <1>5, <1>6, <1>7, <1>8, <1>9, <1>10 DEF FlowNext, User, Workers

-----------------------------------------------------------------------------
(* The invariant holds, and what follows from it *)

\* The invariant holds before the first turn.
LEMMA InitIInv == FlowInit => IInv
<1> SUFFICES ASSUME FlowInit PROVE IInv
  OBVIOUS
<1>1. /\ origins = << >> /\ history = << >> /\ steerBuffer = << >> /\ workers = << >>
      /\ compactions = << >> /\ compacting = 0 /\ turnId = 0 /\ activeTurn = 0 /\ resume = 0
      /\ pauses = 0 /\ autoResumes = 0 /\ goal = NoGoal
      /\ refused = {} /\ summarized = {} /\ withdrawn = {} /\ lost = {} /\ dropped = {}
      /\ parked = << >> /\ exchange = 0
  BY DEF FlowInit, CompactionInit
<1>2. Len(origins) = 0 /\ Len(workers) = 0 /\ Len(compactions) = 0 /\ DOMAIN << >> = {}
  BY <1>1
<1>3. Inputs = {} /\ Worker = {} /\ 0 \in Items
  BY <1>2 DEF Inputs, Worker, Items
<1>4. ContextOK
  BY <1>1 DEF ContextOK
<1>5. CompactionOK
  BY <1>1, <1>2, MaxCompactionsAssumption DEF CompactionOK
<1>6. WorkersOK
  BY <1>1, <1>2, <1>3 DEF WorkersOK
<1>7. ResumeOK
  <2>1. goal \in Goals
    BY <1>1, GoalAssumption DEF Goals, NoGoal, GoalStatus
  <2> QED
    BY <1>1, <2>1, FlowAssumption DEF ResumeOK
<1>8. TurnsOK
  BY <1>1, <1>3 DEF TurnsOK, OneLiveTurn, ParkedForLastTurn
<1>9. PlacesOK
  <2>1. Line = << >>
    BY <1>1 DEF Line
  <2> QED
    BY <1>1, <1>2, <1>3, <2>1 DEF PlacesOK, Placed, Once, WaitsOnce
<1>10. ExchangeOK
  BY <1>1, <1>2 DEF ExchangeOK
<1> QED
  BY <1>4, <1>5, <1>6, <1>7, <1>8, <1>9, <1>10 DEF IInv

\* Every step keeps it.
LEMMA NextIInv == IInv /\ [FlowNext]_flowVars => IInv'
BY PlacesStep, ExchangeStep, CompactionStep, WorkersStep, ResumeStep, TurnsStep DEF IInv, Typed

\* So it always holds.
LEMMA AlwaysIInv == FlowSpec => []IInv
BY InitIInv, NextIInv, PTL DEF FlowSpec

\* The types that the run checks follow from the ones the invariant carries.
LEMMA TypesFollow == IInv => FlowTypeOK
<1> SUFFICES ASSUME IInv PROVE FlowTypeOK
  OBVIOUS
<1>1. ContextOK /\ CompactionOK /\ WorkersOK /\ ResumeOK
  BY DEF IInv
<1>2. Len(origins) \in Nat /\ DOMAIN origins = 1..Len(origins)
  BY <1>1, LenProperties DEF ContextOK
<1>3. ToSet(steerBuffer) \subseteq DOMAIN origins
  BY <1>1, <1>2, MemberFacts DEF ContextOK, Inputs
<1>4. ToSet(history) \cup ToSet(parked) \subseteq {0} \cup DOMAIN origins
  <2>1. ToSet(history) \subseteq 0..Len(origins) /\ ToSet(parked) \subseteq 0..Len(origins)
    BY <1>1, MemberFacts DEF ContextOK, Items
  <2>2. \A N \in Nat : 0..N \subseteq {0} \cup 1..N
    OBVIOUS
  <2> QED
    BY <1>2, <2>1, <2>2
<1> QED
  BY <1>1, <1>3, <1>4
     DEF FlowTypeOK, CompactionOK, WorkersOK, WorkerOK, ResumeOK, IInv, ExchangeOK

\* How often a member is counted: once where it is, and not elsewhere.
LEMMA CountOnce ==
  ASSUME NEW seq, Once(seq), NEW n, n # 0
  PROVE  Count(n, seq) = IF In(n, seq) THEN 1 ELSE 0
<1>1. CASE In(n, seq)
  <2>1. PICK i \in DOMAIN seq : seq[i] = n
    BY <1>1 DEF In
  <2>2. {j \in DOMAIN seq : seq[j] = n} = {i}
    BY <2>1 DEF Once
  <2> QED
    BY <1>1, <2>2, FS_Singleton DEF Count
<1>2. CASE ~In(n, seq)
  <2>1. {j \in DOMAIN seq : seq[j] = n} = {}
    BY <1>2 DEF In
  <2> QED
    BY <1>2, <2>1, FS_EmptySet DEF Count
<1> QED
  BY <1>1, <1>2

\* The same for a set.
LEMMA CountMember ==
  ASSUME NEW n, NEW S
  PROVE  Held(n, S) = IF n \in S THEN 1 ELSE 0
<1>1. CASE n \in S
  <2>1. S \cap {n} = {n}
    BY <1>1
  <2> QED
    BY <1>1, <2>1, FS_Singleton DEF Held
<1>2. CASE n \notin S
  <2>1. S \cap {n} = {}
    BY <1>2
  <2> QED
    BY <1>2, <2>1, FS_EmptySet DEF Held
<1> QED
  BY <1>1, <1>2

\* And for the turns that have a prompt pending.
LEMMA CountPending ==
  ASSUME Typed, WaitsOnce, NEW n \in Inputs
  PROVE  Pending(n) = IF Waiting(n) THEN 1 ELSE 0
<1> DEFINE P == {w \in Worker : At(w, "prompt") /\ n \in ToSet(workers[w].prompt)}
<1>1. \A w \in Worker : n \in ToSet(workers[w].prompt) <=> In(n, workers[w].prompt)
  BY DEF ToSet, In
<1>2. \A w : w \in P <=> w \in Worker /\ Waits(w, n)
  BY <1>1 DEF Waits
<1>3. Pending(n) = Cardinality(P)
  BY DEF Pending
<1> HIDE DEF P
<1>4. CASE Waiting(n)
  <2>1. PICK w \in Worker : Waits(w, n)
    BY <1>4 DEF Waiting
  <2>2. P = {w}
    BY <1>2, <2>1 DEF WaitsOnce
  <2> QED
    BY <1>3, <1>4, <2>2, FS_Singleton
<1>5. CASE ~Waiting(n)
  <2>1. P = {}
    BY <1>2, <1>5 DEF Waiting
  <2> QED
    BY <1>3, <1>5, <2>1, FS_EmptySet
<1> QED
  BY <1>4, <1>5

\* One place for each input means that the counts add up to one.
LEMMA PlacesCount == IInv => InputConserved
<1> SUFFICES ASSUME IInv, NEW n \in DOMAIN origins
             PROVE  Count(n, history) + Count(n, parked) + Count(n, steerBuffer) + Pending(n)
                      + Held(n, refused) + Held(n, summarized) + Held(n, withdrawn)
                      + Held(n, lost) + Held(n, dropped) = 1
  BY DEF InputConserved
<1>1. Typed /\ Once(Line) /\ Once(steerBuffer) /\ WaitsOnce /\ Placed(Line, steerBuffer)
  BY DEF IInv, Typed, PlacesOK, Placed
<1>2. n \in Inputs /\ n # 0
  <2>1. Len(origins) \in Nat /\ DOMAIN origins = 1..Len(origins)
    BY <1>1, LenProperties DEF Typed, ContextOK
  <2> QED
    BY <2>1 DEF Inputs
<1>3. PICK h \in PlaceNames : Home(n, h, Line, steerBuffer)
  BY <1>1, <1>2 DEF Placed
<1>4. /\ Once(history) /\ Once(parked) /\ ~(In(n, history) /\ In(n, parked))
      /\ In(n, Line) <=> In(n, history) \/ In(n, parked)
  BY <1>1, <1>2, OnceParts, ConcatIn DEF Line, Typed, ContextOK
<1>5. /\ Count(n, history) + Count(n, parked) = IF h = "line" THEN 1 ELSE 0
      /\ Count(n, history) \in Nat /\ Count(n, parked) \in Nat
  <2>1. /\ Count(n, history) = IF In(n, history) THEN 1 ELSE 0
        /\ Count(n, parked) = IF In(n, parked) THEN 1 ELSE 0
    BY <1>2, <1>4, CountOnce
  <2>2. In(n, Line) <=> h = "line"
    BY <1>3 DEF Home
  <2> QED
    BY <1>4, <2>1, <2>2
<1>6. /\ Count(n, steerBuffer) = IF h = "buffer" THEN 1 ELSE 0
      /\ Pending(n) = IF h = "prompt" THEN 1 ELSE 0
  BY <1>1, <1>2, <1>3, CountOnce, CountPending DEF Home
<1>7. /\ Held(n, refused) = IF h = "refused" THEN 1 ELSE 0
      /\ Held(n, summarized) = IF h = "summarized" THEN 1 ELSE 0
      /\ Held(n, withdrawn) = IF h = "withdrawn" THEN 1 ELSE 0
      /\ Held(n, lost) = IF h = "lost" THEN 1 ELSE 0
      /\ Held(n, dropped) = IF h = "dropped" THEN 1 ELSE 0
  BY <1>3, CountMember DEF Home
<1> QED
  BY <1>5, <1>6, <1>7 DEF PlaceNames

-----------------------------------------------------------------------------
(* The theorems *)

\* Every part of the session state keeps its type, whatever turns, compactions,
\* goals and cancels interleave.
THEOREM FlowTypeCorrect == FlowSpec => []FlowTypeOK
BY AlwaysIInv, TypesFollow, PTL

\* A worker of turnWorker() that nobody cancelled is the active turn: launch()
\* never starts one beside it, and no release takes activeTurn from it.
THEOREM FlowOneLiveTurn == FlowSpec => []OneLiveTurn
<1>1. IInv => OneLiveTurn
  BY DEF IInv, TurnsOK
<1> QED
  BY <1>1, AlwaysIInv, PTL

\* Between two completed turns fireRateLimitResume() retries at most
\* retryAutoResumeMaxAttempts times.
THEOREM FlowResumeBudget == FlowSpec => []ResumeBudget
<1>1. IInv => ResumeBudget
  BY FlowAssumption DEF IInv, ResumeOK, ResumeBudget
<1> QED
  BY <1>1, AlwaysIInv, PTL

\* A parked retry finds no active turn, and only cancelled workers have turns
\* after the one it is for.
THEOREM FlowParked == FlowSpec => []ParkedForLastTurn
<1>1. IInv => ParkedForLastTurn
  BY DEF IInv, TurnsOK
<1> QED
  BY <1>1, AlwaysIInv, PTL

\* No race of launch(), steer(), withdrawInput, flushSteerBuffer(),
\* applyCompaction() and onCompactionFinished() drops or doubles an input, but for
\* those applyCompaction() drops with what is parked behind open tool calls.
THEOREM FlowInputConserved == FlowSpec => []InputConserved
BY AlwaysIInv, PlacesCount, PTL

\* A cancelled driver starts a further turn only after a budget stop whose goal
\* was replaced meanwhile.
THEOREM FlowCancelledDriverStops == FlowSpec => CancelledDriverStops
<1>1. IInv /\ [FlowNext]_flowVars =>
        [\A w \in Worker :
           Aborted(w) /\ workers'[w].turn # workers[w].turn
           => At(w, "afterStop") /\ workers[w].overBudget /\ ~overBudget(goal)]_flowVars
  BY CancelledStep DEF IInv, Typed
<1> QED
  BY <1>1, AlwaysIInv, PTL DEF FlowSpec, CancelledDriverStops

\* driveGoal() and the hand-over in turnWorker() start no driven turn past the
\* turn budget of the goal.
THEOREM FlowNoTurnPastBudget == FlowSpec => NoTurnPastBudget
<1>1. IInv /\ [FlowNext]_flowVars =>
        [\A w \in 1..Len(workers') :
           /\ workers'[w].driven /\ workers'[w].pc = "prompt"
           /\ w \in Worker => workers[w].turn # workers'[w].turn
           => goal'.turns <= TurnBudget]_flowVars
  BY BudgetStep DEF IInv, Typed
<1> QED
  BY <1>1, AlwaysIInv, PTL DEF FlowSpec, NoTurnPastBudget

=============================================================================
