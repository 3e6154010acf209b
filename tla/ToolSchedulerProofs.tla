------------------------ MODULE ToolSchedulerProofs -------------------------
(***************************************************************************)
(* Proofs about ToolScheduler for every set of access lists and every      *)
(* number of tasks.                                                        *)
(***************************************************************************)
EXTENDS ToolScheduler, QueueLemmas, FiniteSetTheorems

(* The relation ToolAccesses.conflict computes does not depend on which of *)
(* the two calls is asked first: isBlocked may test either direction.      *)
LEMMA OverlapSymmetric ==
  ASSUME NEW l, NEW r
  PROVE  fileAccessesOverlap(l, r) <=> fileAccessesOverlap(r, l)
BY Zenon DEF fileAccessesOverlap

(* ToolAccesses.conflict is symmetric. *)
LEMMA ConflictSymmetric ==
  ASSUME NEW left, NEW right
  PROVE  conflict(left, right) <=> conflict(right, left)
<1>1. \A l, r : resourceAccessesConflict(l, r) <=> resourceAccessesConflict(r, l)
  BY OverlapSymmetric, Zenon DEF resourceAccessesConflict, fileOperationsConflict
<1> QED
  BY <1>1, Zenon DEF conflict

(* So is the table of the conflicting access lists. *)
LEMMA ConflictsSymmetric ==
  ASSUME NEW left, NEW right, <<left, right>> \in Conflicts
  PROVE  <<right, left>> \in Conflicts
BY ConflictSymmetric DEF Conflicts

---------------------------------------------------------------------------
(* The inductive invariant: typing, a task is never in both arrays, and    *)
(* the exact characterisation of the running tasks.                        *)
Disjoint == activeTasks \cap queuedTasks = {}
IInv == TypeOK /\ Disjoint /\ RunsExactlyUnblocked

(* A fresh scheduler satisfies the invariant. *)
LEMMA InitIInv == Init => IInv
BY MaxTasksAssumption
   DEF Init, IInv, TypeOK, Disjoint, RunsExactlyUnblocked, Pending, Tasks

(* add(): the new task is behind every pending one, so it changes nobody  *)
(* else's blockers and isBlocked decides about it exactly.                 *)
LEMMA AddIInv ==
  ASSUME IInv, NEW list \in AccessLists, add(list)
  PROVE  IInv'
<1> DEFINE t == added + 1
<1>1. /\ t \notin Pending
      /\ \A u \in Pending : u \in 1..added /\ u < t
  BY DEF IInv, TypeOK, Tasks, Pending
<1>2. /\ accesses' \in [1..t -> AccessLists]
      /\ accesses'[t] = list
      /\ \A u \in 1..added : accesses'[u] = accesses[u]
  BY MaxTasksAssumption DEF IInv, TypeOK, Tasks, add
<1>3. TypeOK'
  <2>1. added' = t /\ t \in 0..MaxTasks
    BY MaxTasksAssumption DEF IInv, TypeOK, add
  <2>2. /\ activeTasks' \subseteq 1..t
        /\ queuedTasks' \subseteq 1..t
        /\ settled' \subseteq activeTasks'
    <3>1. 1..added \subseteq 1..t /\ t \in 1..t
      BY MaxTasksAssumption DEF IInv, TypeOK
    <3> QED
      BY <3>1 DEF IInv, TypeOK, Tasks, add
  <2> QED
    BY <1>2, <2>1, <2>2 DEF TypeOK, Tasks
<1>4. Disjoint'
  BY <1>1 DEF IInv, Disjoint, add, Pending
<1>5. RunsExactlyUnblocked'
  <2>1. Pending' = Pending \cup {t}
    BY DEF add, Pending
  <2>2. t \in activeTasks' <=>
          \A u \in Pending : <<accesses'[t], accesses'[u]>> \notin Conflicts
    BY <1>1, <1>2 DEF add, isBlocked, conflictsWithAny, Pending
  <2>3. \A u \in Pending : u \in activeTasks' <=> u \in activeTasks
    BY <1>1 DEF add
  <2> SUFFICES ASSUME NEW u \in Pending \cup {t}
               PROVE  u \in activeTasks' <=>
                        \A w \in Pending \cup {t} :
                          w < u => <<accesses'[u], accesses'[w]>> \notin Conflicts
    BY <2>1 DEF RunsExactlyUnblocked
  <2>4. CASE u = t
    BY <1>1, <2>2, <2>4 DEF IInv, TypeOK
  <2>5. CASE u \in Pending
    <3>1. ~(t < u)
      BY <1>1, <2>5 DEF IInv, TypeOK
    <3> QED
      BY <1>1, <1>2, <2>3, <2>5, <3>1 DEF IInv, RunsExactlyUnblocked
  <2> QED
    BY <2>4, <2>5
<1> QED
  BY <1>3, <1>4, <1>5 DEF IInv

(* A promise that settles moves no task. *)
LEMMA SettleIInv ==
  ASSUME IInv, NEW t \in Tasks, settle(t)
  PROVE  IInv'
BY DEF IInv, TypeOK, Disjoint, RunsExactlyUnblocked, Pending, Tasks, settle

(* finish(): removing a task unblocks exactly the startable ones; starting *)
(* them leaves the set of pending tasks, and so the blockers, as they were. *)
LEMMA FinishIInv ==
  ASSUME IInv, NEW t \in Tasks, finish(t)
  PROVE  IInv'
<1> DEFINE remaining == activeTasks \ {t}
           startable == Startable(accesses, remaining, queuedTasks)
<1>1. startable \subseteq queuedTasks
  BY DEF Startable
<1>2. /\ activeTasks' = remaining \cup startable
      /\ queuedTasks' = queuedTasks \ startable
      /\ settled' = settled \ {t}
      /\ accesses' = accesses
      /\ added' = added
      /\ t \in activeTasks
  BY DEF finish, IInv, TypeOK
<1>3. Pending' = Pending \ {t}
  BY <1>1, <1>2 DEF Pending, IInv, Disjoint
<1>4. TypeOK'
  BY <1>1, <1>2 DEF IInv, TypeOK, Tasks
<1>5. Disjoint'
  BY <1>1, <1>2 DEF IInv, Disjoint
<1>6. RunsExactlyUnblocked'
  <2> SUFFICES ASSUME NEW u \in Pending \ {t}
               PROVE  u \in activeTasks' <=>
                        \A w \in Pending \ {t} :
                          w < u => <<accesses[u], accesses[w]>> \notin Conflicts
    BY <1>2, <1>3 DEF RunsExactlyUnblocked
  <2>1. CASE u \in activeTasks
    BY <1>2, <2>1 DEF IInv, RunsExactlyUnblocked
  <2>2. CASE u \in queuedTasks
    <3>1. u \notin activeTasks
      BY <2>2 DEF IInv, Disjoint
    <3>2. u \in activeTasks' <=>
            /\ \A w \in remaining : <<accesses[u], accesses[w]>> \notin Conflicts
            /\ \A w \in queuedTasks :
                 w < u => <<accesses[u], accesses[w]>> \notin Conflicts
      BY <1>2, <2>2, <3>1 DEF Startable, isBlocked, conflictsWithAny
    \* An active task added after u does not conflict with it: it would
    \* have been queued behind u.
    <3>3. \A w \in remaining :
            ~(w < u) => <<accesses[u], accesses[w]>> \notin Conflicts
      <4> SUFFICES ASSUME NEW w \in remaining, ~(w < u),
                          <<accesses[u], accesses[w]>> \in Conflicts
                   PROVE  FALSE
        OBVIOUS
      <4>1. u < w
        BY <2>2, <3>1 DEF IInv, TypeOK, Tasks
      <4>2. <<accesses[w], accesses[u]>> \in Conflicts
        BY ConflictsSymmetric
      <4> QED
        BY <2>2, <4>1, <4>2 DEF IInv, RunsExactlyUnblocked, Pending
    <3> QED
      BY <1>2, <2>2, <3>2, <3>3 DEF Pending, IInv, Disjoint
  <2> QED
    BY <2>1, <2>2 DEF Pending
<1> QED
  BY <1>4, <1>5, <1>6 DEF IInv

(* One case per operation of the scheduler. *)
LEMMA NextIInv == IInv /\ [Next]_vars => IInv'
<1> SUFFICES ASSUME IInv, [Next]_vars PROVE IInv'
  OBVIOUS
<1>1. ASSUME NEW list \in AccessLists, add(list) PROVE IInv'
  BY <1>1, AddIInv
<1>2. ASSUME NEW t \in Tasks, settle(t) PROVE IInv'
  BY <1>2, SettleIInv
<1>3. ASSUME NEW t \in Tasks, finish(t) PROVE IInv'
  BY <1>3, FinishIInv
<1>4. CASE UNCHANGED vars
  BY <1>4 DEF IInv, TypeOK, Disjoint, RunsExactlyUnblocked, Pending, Tasks, vars
<1> QED
  BY <1>1, <1>2, <1>3, <1>4 DEF Next

(* The invariant holds throughout. *)
LEMMA Invariance == Spec => []IInv
BY InitIInv, NextIInv, PTL DEF Spec

---------------------------------------------------------------------------
(* The scheduler's arrays hold only added tasks, and a settled task is     *)
(* still active until finish() removes it.                                 *)
THEOREM SchedulerTyping == Spec => []TypeOK
<1>1. IInv => TypeOK
  BY DEF IInv
<1> QED
  BY <1>1, Invariance, PTL

(* add/startQueuedTasks: at every moment a pending task is running exactly *)
(* when no conflicting task added before it is pending.                    *)
THEOREM SchedulerExact == Spec => []RunsExactlyUnblocked
<1>1. IInv => RunsExactlyUnblocked
  BY DEF IInv
<1> QED
  BY <1>1, Invariance, PTL

(* isBlocked: two different running tasks never have conflicting accesses. *)
NoConflictingOverlap ==
  \A t, u \in activeTasks : t # u => ~conflict(accesses[t], accesses[u])

(* isBlocked/startQueuedTasks: mutual exclusion of conflicting tool calls, *)
(* in the terms of ToolAccesses.conflict itself.                           *)
THEOREM SchedulerExclusion == Spec => []NoConflictingOverlap
<1>1. IInv => NoConflictingOverlap
  <2> SUFFICES ASSUME IInv, NEW t \in activeTasks, NEW u \in activeTasks, t # u
               PROVE  ~conflict(accesses[t], accesses[u])
    BY DEF NoConflictingOverlap
  <2>1. /\ t \in 1..added /\ u \in 1..added
        /\ accesses[t] \in AccessLists /\ accesses[u] \in AccessLists
    BY DEF IInv, TypeOK, Tasks
  <2>2. CASE u < t
    BY <2>1, <2>2 DEF IInv, RunsExactlyUnblocked, Pending, Conflicts
  <2>3. CASE t < u
    BY <2>1, <2>3, ConflictSymmetric
       DEF IInv, RunsExactlyUnblocked, Pending, Conflicts
  <2> QED
    BY <2>1, <2>2, <2>3
<1> QED
  BY <1>1, Invariance, PTL

(* finish/startQueuedTasks: no step puts a started task back into the      *)
(* queue, and a task that has left the scheduler stays out.                *)
THEOREM SchedulerNoRestart == Spec => NoRestart
<1> DEFINE Step == /\ activeTasks \cap queuedTasks' = {}
                   /\ \A t \in Tasks : t \notin Pending => t \notin Pending'
<1>1. IInv /\ [Next]_vars => [Step]_vars
  <2> SUFFICES ASSUME IInv, Next PROVE Step
    OBVIOUS
  <2>1. ASSUME NEW list \in AccessLists, add(list) PROVE Step
    <3>1. \A t \in Tasks : t # added + 1
      BY MaxTasksAssumption DEF IInv, TypeOK, Tasks
    <3>2. added + 1 \notin activeTasks
      BY <3>1 DEF IInv, TypeOK
    <3>3. activeTasks \cap queuedTasks' = {}
      BY <2>1, <3>2 DEF IInv, Disjoint, add
    <3>4. Pending' = Pending \cup {added + 1}
      BY <2>1 DEF Pending, add
    <3> QED
      BY <3>1, <3>3, <3>4
  <2>2. ASSUME NEW t \in Tasks, settle(t) PROVE Step
    BY <2>2 DEF IInv, Disjoint, Pending, settle
  <2>3. ASSUME NEW t \in Tasks, finish(t) PROVE Step
    BY <2>3 DEF IInv, Disjoint, Pending, finish, Startable
  <2> QED
    BY <2>1, <2>2, <2>3 DEF Next
<1> QED
  BY <1>1, Invariance, PTL DEF Spec, NoRestart
---------------------------------------------------------------------------
(* normalizePath against the files it stands for. *)

\* The loop over the characters of a path, one at a time.
LEMMA CollapseTrace ==
  ASSUME NEW A, NEW w \in Seq(A)
  PROVE  \E v : /\ v[0] = << >> /\ CollapseSlashes(w) = v[Len(w)]
                /\ \A j \in 0..(Len(w) - 1) : v[j + 1] = Collapse(v[j], w[j + 1])
<1> DEFINE n == Len(w)
           D == SUBSET (1..n)
           B == Seq(A)
           G == [i \in 1..n |-> [a \in B |-> Collapse(a, w[i])]]
           Body(f, t) == IF t = {} THEN << >> ELSE Collapse(f[t \ {Max(t)}], w[Max(t)])
           c == CHOOSE f : f = [t \in D |-> Body(f, t)]
           v == [j \in 0..n |-> c[1..j]]
<1>0. n \in Nat /\ DOMAIN w = 1..n /\ \A i \in 1..n : w[i] \in A
  BY LenProperties, ElementOfSeq
<1>1. CollapseSlashes(w) = c[1..n]
  BY <1>0 DEF CollapseSlashes, FoldLeft, MapThenFoldSet
<1>2. G \in [1..n -> [B -> B]]
  BY <1>0 DEF Collapse
<1>3. PICK it \in [D -> B] : Iterates(it, n, << >>, G)
  <2>1. << >> \in B
    OBVIOUS
  <2> HIDE DEF n, B, G
  <2> QED BY <1>0, <1>2, <2>1, IterationExists
<1>4. \A t \in D : t # {} => Max(t) \in 1..n /\ t \ {Max(t)} \in D
  BY <1>0, MaxFacts
<1>5. it = [t \in D |-> Body(it, t)]
  <2>1. \A t \in D : it[t] = Body(it, t)
    BY <1>3, <1>4 DEF Iterates, FoldStep
  <2> QED BY <1>3, <2>1
<1>6. c = [t \in D |-> Body(c, t)]
  BY <1>5
<1> HIDE DEF c
<1>7. v[0] = << >> /\ v[n] = c[1..n]
  <2>1. 1..0 = {} /\ {} \in D /\ 0 \in 0..n /\ n \in 0..n
    BY <1>0
  <2>2. c[{}] = << >>
    BY <1>6, <2>1
  <2> QED BY <2>1, <2>2
<1>8. ASSUME NEW j \in 0..(n - 1) PROVE v[j + 1] = Collapse(v[j], w[j + 1])
  <2>1. j \in Nat /\ j \in 0..n /\ j + 1 \in 0..n /\ 1..(j + 1) \in D
    BY <1>0
  <2>2. c[1..(j + 1)] = Collapse(c[(1..(j + 1)) \ {Max(1..(j + 1))}], w[Max(1..(j + 1))])
    BY <1>6, <2>1, RangeStep
  <2>3. c[1..(j + 1)] = Collapse(c[1..j], w[j + 1])
    BY <2>1, <2>2, RangeStep
  <2> QED BY <2>1, <2>3
<1> QED BY <1>1, <1>7, <1>8
\* The names of a path, one token at a time.
LEMMA NamedTrace ==
  ASSUME NEW A, NEW w \in Seq(A), Name \subseteq A
  PROVE  \E v : /\ v[0] = << >> /\ FileOf(w) = v[Len(w)]
                /\ \A j \in 0..(Len(w) - 1) : v[j + 1] = Named(v[j], w[j + 1])
<1> DEFINE n == Len(w)
           D == SUBSET (1..n)
           B == Seq(A)
           G == [i \in 1..n |-> [a \in B |-> Named(a, w[i])]]
           Body(f, t) == IF t = {} THEN << >> ELSE Named(f[t \ {Max(t)}], w[Max(t)])
           c == CHOOSE f : f = [t \in D |-> Body(f, t)]
           v == [j \in 0..n |-> c[1..j]]
<1>0. n \in Nat /\ DOMAIN w = 1..n /\ \A i \in 1..n : w[i] \in A
  BY LenProperties, ElementOfSeq
<1>1. FileOf(w) = c[1..n]
  BY <1>0 DEF FileOf, FoldLeft, MapThenFoldSet
<1>2. G \in [1..n -> [B -> B]]
  BY <1>0, ToLowerCaseAssumption DEF Named
<1>3. PICK it \in [D -> B] : Iterates(it, n, << >>, G)
  <2>1. << >> \in B
    OBVIOUS
  <2> HIDE DEF n, B, G
  <2> QED BY <1>0, <1>2, <2>1, IterationExists
<1>4. \A t \in D : t # {} => Max(t) \in 1..n /\ t \ {Max(t)} \in D
  BY <1>0, MaxFacts
<1>5. it = [t \in D |-> Body(it, t)]
  <2>1. \A t \in D : it[t] = Body(it, t)
    BY <1>3, <1>4 DEF Iterates, FoldStep
  <2> QED BY <1>3, <2>1
<1>6. c = [t \in D |-> Body(c, t)]
  BY <1>5
<1> HIDE DEF c
<1>7. v[0] = << >> /\ v[n] = c[1..n]
  <2>1. 1..0 = {} /\ {} \in D /\ 0 \in 0..n /\ n \in 0..n
    BY <1>0
  <2>2. c[{}] = << >>
    BY <1>6, <2>1
  <2> QED BY <2>1, <2>2
<1>8. ASSUME NEW j \in 0..(n - 1) PROVE v[j + 1] = Named(v[j], w[j + 1])
  <2>1. j \in Nat /\ j \in 0..n /\ j + 1 \in 0..n /\ 1..(j + 1) \in D
    BY <1>0
  <2>2. c[1..(j + 1)] = Named(c[(1..(j + 1)) \ {Max(1..(j + 1))}], w[Max(1..(j + 1))])
    BY <1>6, <2>1, RangeStep
  <2>3. c[1..(j + 1)] = Named(c[1..j], w[j + 1])
    BY <2>1, <2>2, RangeStep
  <2> QED BY <2>1, <2>3
<1> QED BY <1>1, <1>7, <1>8

\* What the tokens of a path are folded to.
Token == Name \cup {Slash}
Lead(path) == IF path[1] \in Name THEN 1 ELSE 0

\* The spelling of a list of names: each behind a separator, but for the first
\* of a path that begins with a name (d = 1).
Spells(s, names, d) ==
  /\ Len(s) = 2 * Len(names) - d
  /\ \A i \in 1..Len(names) :
       s[2 * i - d] = names[i] /\ (2 * i - 1 - d >= 1 => s[2 * i - 1 - d] = Slash)

\* Every position is that of a name or that of a separator.
LEMMA Halves ==
  ASSUME NEW n \in Nat
  PROVE  \A k \in 1..(2 * n) : \E i \in 1..n : k = 2 * i \/ k = 2 * i - 1
<1> DEFINE P(m) == \A k \in 1..(2 * m) : \E i \in 1..m : k = 2 * i \/ k = 2 * i - 1
           S == {m \in Nat : P(m)}
<1>1. 0 \in S
  OBVIOUS
<1>2. ASSUME NEW m \in Nat, m \in S PROVE m + 1 \in S
  <2>1. P(m)
    BY <1>2
  <2>2. ASSUME NEW k \in 1..(2 * (m + 1)) PROVE \E i \in 1..(m + 1) : k = 2 * i \/ k = 2 * i - 1
    <3>1. CASE k \in 1..(2 * m)
      <4>1. PICK i \in 1..m : k = 2 * i \/ k = 2 * i - 1
        BY <2>1, <3>1
      <4> QED BY <4>1
    <3>2. CASE k \notin 1..(2 * m)
      <4>1. m + 1 \in 1..(m + 1) /\ (k = 2 * (m + 1) \/ k = 2 * (m + 1) - 1)
        BY <3>2
      <4> QED BY <4>1
    <3> QED BY <3>1, <3>2
  <2> QED BY <2>2
<1>3. n \in S
  <2> HIDE DEF S
  <2> QED BY <1>1, <1>2, InductionOnNat
<1> QED BY <1>3

\* Which name or separator a position of a spelling holds.
HoldsToken(s, names, d, k) ==
  \E i \in 1..Len(names) : \/ k = 2 * i - d /\ s[k] = names[i]
                           \/ k = 2 * i - 1 - d /\ s[k] = Slash

\* Every position of a spelling does.
LEMMA SpellsAt ==
  ASSUME NEW s \in Seq(Token), NEW names \in Seq(Token), NEW d \in {0, 1}, Spells(s, names, d),
         NEW k \in 1..Len(s)
  PROVE  HoldsToken(s, names, d, k)
<1>1. Len(names) \in Nat /\ Len(s) \in Nat /\ d \in Int /\ Len(s) = 2 * Len(names) - d
  BY LenProperties DEF Spells
<1>2. k + d \in 1..(2 * Len(names))
  BY <1>1
<1>3. PICK i \in 1..Len(names) : k + d = 2 * i \/ k + d = 2 * i - 1
  BY <1>1, <1>2, Halves
<1>4. k = 2 * i - d \/ (k = 2 * i - 1 - d /\ 2 * i - 1 - d >= 1)
  BY <1>1, <1>3
<1>5. /\ s[2 * i - d] = names[i]
      /\ 2 * i - 1 - d >= 1 => s[2 * i - 1 - d] = Slash
  BY DEF Spells
<1>6. \/ k = 2 * i - d /\ s[k] = names[i]
      \/ k = 2 * i - 1 - d /\ s[k] = Slash
  BY <1>4, <1>5
<1> QED BY <1>6 DEF HoldsToken

\* A list of names has one spelling.
LEMMA SpellingUnique ==
  ASSUME NEW s \in Seq(Token), NEW r \in Seq(Token), NEW names \in Seq(Token), NEW d \in {0, 1},
         Spells(s, names, d), Spells(r, names, d)
  PROVE  s = r
<1>1. Len(s) = Len(r)
  BY DEF Spells
<1>2. ASSUME NEW k \in 1..Len(s) PROVE s[k] = r[k]
  <2>0. HoldsToken(s, names, d, k)
    BY SpellsAt
  <2>1. PICK i \in 1..Len(names) : \/ k = 2 * i - d /\ s[k] = names[i]
                                   \/ k = 2 * i - 1 - d /\ s[k] = Slash
    BY <2>0 DEF HoldsToken
  <2>2. /\ r[2 * i - d] = names[i]
        /\ 2 * i - 1 - d >= 1 => r[2 * i - 1 - d] = Slash
    BY DEF Spells
  <2> QED BY <2>1, <2>2
<1> QED BY <1>1, <1>2, SeqEqual

\* The last token of a spelling is its last name.
LEMMA SpellsLast ==
  ASSUME NEW A, NEW s \in Seq(A), NEW names \in Seq(Name), NEW d \in {0, 1}, Spells(s, names, d),
         Len(names) >= 1
  PROVE  s # << >> /\ Last(s) \in Name /\ Last(s) # Slash
<1> DEFINE n == Len(names)
<1>1. n \in Nat /\ n \in 1..n /\ Len(s) = 2 * n - d /\ names[n] \in Name
  BY LenProperties, ElementOfSeq DEF Spells
<1>2. s[2 * n - d] = names[n]
  BY <1>1 DEF Spells
<1>3. Last(s) = names[n]
  BY <1>1, <1>2 DEF Last
<1>4. s # << >>
  <2>1. Len(s) # 0
    BY <1>1
  <2> QED BY <2>1, EmptySeq
<1> QED BY <1>1, <1>3, <1>4, ToLowerCaseAssumption

\* One more separator and name.
LEMMA SpellsAppend ==
  ASSUME NEW A, NEW s \in Seq(A), NEW names \in Seq(Name), NEW d \in {0, 1}, Spells(s, names, d),
         Slash \in A, NEW e \in Name, e \in A, d = 1 => Len(names) >= 1
  PROVE  Spells(Append(Append(s, Slash), e), Append(names, e), d)
<1> DEFINE r == Append(s, Slash)
           q == Append(r, e)
           m == Append(names, e)
           n == Len(names)
           l == Len(s)
<1>1. n \in Nat /\ l \in Nat /\ l = 2 * n - d
  BY LenProperties DEF Spells
<1>2. r \in Seq(A) /\ Len(r) = l + 1 /\ r[l + 1] = Slash /\ \A i \in 1..l : r[i] = s[i]
  BY AppendProperties
<1>3. Len(q) = l + 2 /\ q[l + 2] = e /\ \A i \in 1..(l + 1) : q[i] = r[i]
  <2> HIDE DEF r
  <2>1. Len(q) = Len(r) + 1 /\ q[Len(r) + 1] = e /\ \A i \in 1..Len(r) : q[i] = r[i]
    BY <1>2, AppendProperties
  <2> QED BY <1>1, <1>2, <2>1
<1>4. Len(m) = n + 1 /\ m[n + 1] = e /\ \A i \in 1..n : m[i] = names[i]
  BY AppendProperties
<1>5. q[l + 1] = Slash /\ \A i \in 1..l : q[i] = s[i]
  BY <1>1, <1>2, <1>3
<1>6. \A i \in 1..n : s[2 * i - d] = names[i] /\ (2 * i - 1 - d >= 1 => s[2 * i - 1 - d] = Slash)
  BY DEF Spells
<1> HIDE DEF r, q, m, n, l
<1>7. ASSUME NEW i \in 1..(n + 1)
      PROVE  q[2 * i - d] = m[i] /\ (2 * i - 1 - d >= 1 => q[2 * i - 1 - d] = Slash)
  <2>1. CASE i = n + 1
    BY <1>1, <1>3, <1>4, <1>5, <2>1
  <2>2. CASE i \in 1..n
    <3>1. 2 * i - d \in 1..l /\ (2 * i - 1 - d >= 1 => 2 * i - 1 - d \in 1..l)
      BY <1>1, <2>2
    <3> QED BY <1>4, <1>5, <1>6, <2>2, <3>1
  <2> QED BY <1>1, <2>1, <2>2
<1>8. Len(q) = 2 * Len(m) - d
  BY <1>1, <1>3, <1>4
<1> QED BY <1>4, <1>7, <1>8 DEF Spells, q, r, m

\* After any token of a path the text is the spelling of the names so far, with a
\* separator behind it when the token is one.
LEMMA CollapseSpells ==
  ASSUME NEW p, IsPath(p)
  PROVE  LET w == [i \in DOMAIN p |-> FoldToken(p[i])]
         IN  /\ FileOf(p) \in Seq(Name)
             /\ Lead(p) = 1 => Len(FileOf(p)) >= 1
             /\ \E s \in Seq(Token) :
                  /\ Spells(s, FileOf(p), Lead(p))
                  /\ CollapseSlashes(w) = IF p[Len(p)] \in Name THEN s ELSE Append(s, Slash)
                  /\ p[Len(p)] \in Name => Len(FileOf(p)) >= 1
<1> DEFINE w == [i \in DOMAIN p |-> FoldToken(p[i])]
           n == Len(p)
           d == Lead(p)
<1>1. /\ n \in Nat /\ n >= 1 /\ DOMAIN p = 1..n
      /\ \A i \in 1..n : p[i] \in Name \/ p[i] \in {Slash, Backslash}
      /\ p \in Seq(Name \cup {Slash, Backslash}) /\ Name \subseteq Name \cup {Slash, Backslash}
  BY LenProperties, ElementOfSeq, EmptySeq DEF IsPath
<1>2. /\ \A i \in 1..n : w[i] \in Token
      /\ \A i \in 1..n : p[i] \in Name => w[i] = toLowerCase[p[i]] /\ w[i] \in Name /\ w[i] # Slash
      /\ \A i \in 1..n : p[i] \notin Name => w[i] = Slash
  BY <1>1, ToLowerCaseAssumption DEF Token, FoldToken
<1>3. w \in Seq(Token) /\ Len(w) = n
  <2>1. w \in [1..n -> Token]
    BY <1>1, <1>2
  <2> HIDE DEF w, n
  <2> QED BY <1>1, <2>1, SeqDef, LenProperties
<1>4. d \in {0, 1}
  BY DEF Lead
<1>5. PICK v : /\ v[0] = << >> /\ CollapseSlashes(w) = v[n]
               /\ \A j \in 0..(n - 1) : v[j + 1] = Collapse(v[j], w[j + 1])
  <2> HIDE DEF w, n
  <2> QED BY <1>3, CollapseTrace
<1>6. PICK u : /\ u[0] = << >> /\ FileOf(p) = u[n]
               /\ \A j \in 0..(n - 1) : u[j + 1] = Named(u[j], p[j + 1])
  BY <1>1, NamedTrace
<1> DEFINE P(j) == /\ u[j] \in Seq(Name)
                   /\ d = 1 => Len(u[j]) >= 1
                   /\ p[j] \in Name => Len(u[j]) >= 1
                   /\ \E s \in Seq(Token) :
                        /\ Spells(s, u[j], d)
                        /\ v[j] = IF p[j] \in Name THEN s ELSE Append(s, Slash)
           S == {j \in Nat : j + 1 <= n => P(j + 1)}
<1> HIDE DEF w, n, d
<1>7. P(1)
  <2>1. v[1] = << w[1] >> /\ u[1] = IF p[1] \in Name THEN << w[1] >> ELSE << >>
    <3>1. v[1] = Collapse(<< >>, w[1]) /\ u[1] = Named(<< >>, p[1])
      <4>1. 0 \in 0..(n - 1) /\ 0 + 1 = 1
        BY <1>1
      <4> QED BY <1>5, <1>6, <4>1
    <3> QED BY <1>1, <1>2, <3>1 DEF Collapse, Named
  <2>2. CASE p[1] \in Name
    <3>1. d = 1 /\ w[1] \in Name /\ w[1] \in Token
      BY <1>1, <1>2, <2>2 DEF d, Lead
    <3>2. Spells(<< w[1] >>, << w[1] >>, 1)
      BY DEF Spells
    <3>3. v[1] = << w[1] >> /\ u[1] = << w[1] >>
      BY <2>1, <2>2
    <3>4. << w[1] >> \in Seq(Token) /\ << w[1] >> \in Seq(Name) /\ Len(<< w[1] >>) = 1
      BY <3>1
    <3>5. \E s \in Seq(Token) : /\ Spells(s, u[1], d)
                                /\ v[1] = IF p[1] \in Name THEN s ELSE Append(s, Slash)
      BY <2>2, <3>1, <3>2, <3>3, <3>4
    <3>6. u[1] \in Seq(Name) /\ Len(u[1]) >= 1
      BY <3>3, <3>4
    <3>7. (d = 1 => Len(u[1]) >= 1) /\ (p[1] \in Name => Len(u[1]) >= 1)
      BY <3>6
    <3> QED BY <3>5, <3>6, <3>7
  <2>3. CASE p[1] \notin Name
    <3>1. d = 0 /\ w[1] = Slash
      BY <1>1, <1>2, <2>3 DEF d, Lead
    <3>2. Spells(<< >>, << >>, 0) /\ Append(<< >>, Slash) = << Slash >>
      BY DEF Spells
    <3>3. << >> \in Seq(Token) /\ << >> \in Seq(Name)
      OBVIOUS
    <3>4. v[1] = Append(<< >>, Slash) /\ u[1] = << >>
      BY <2>1, <2>3, <3>1, <3>2
    <3>5. \E s \in Seq(Token) : /\ Spells(s, u[1], d)
                                /\ v[1] = IF p[1] \in Name THEN s ELSE Append(s, Slash)
      BY <2>3, <3>1, <3>2, <3>3, <3>4
    <3> QED BY <2>3, <3>1, <3>3, <3>4, <3>5
  <2> QED BY <2>2, <2>3
<1>8. ASSUME NEW j \in 1..(n - 1), P(j) PROVE P(j + 1)
  <2>1. /\ v[j + 1] = Collapse(v[j], w[j + 1]) /\ u[j + 1] = Named(u[j], p[j + 1])
        /\ j \in 1..n /\ j + 1 \in 1..n
    BY <1>1, <1>5, <1>6
  <2>2. PICK s \in Seq(Token) : /\ Spells(s, u[j], d)
                                /\ v[j] = IF p[j] \in Name THEN s ELSE Append(s, Slash)
    BY <1>8
  <2>3. u[j] \in Seq(Name) /\ (d = 1 => Len(u[j]) >= 1) /\ (p[j] \in Name => Len(u[j]) >= 1)
    BY <1>8
  <2>4. Slash \in Token /\ Name \subseteq Token
    BY DEF Token
  <2>0. /\ Append(s, Slash) \in Seq(Token) /\ Append(s, Slash) # << >>
        /\ Last(Append(s, Slash)) = Slash
    <3>1. /\ Append(s, Slash) \in Seq(Token) /\ Len(Append(s, Slash)) = Len(s) + 1
          /\ Append(s, Slash)[Len(s) + 1] = Slash /\ Len(s) \in Nat
      BY <2>4, AppendProperties, LenProperties
    <3>2. Len(Append(s, Slash)) # 0
      BY <3>1
    <3> QED BY <3>1, <3>2, EmptySeq DEF Last
  <2>5. CASE p[j + 1] \in Name
    <3> DEFINE e == w[j + 1]
    <3>1. e \in Name /\ e # Slash /\ e = toLowerCase[p[j + 1]] /\ e \in Token
      BY <1>2, <2>1, <2>5
    <3>2. p[j] \notin Name
      BY <2>5 DEF IsPath, n
    <3> HIDE DEF e
    <3>3. v[j + 1] = Append(Append(s, Slash), e)
      BY <2>1, <2>2, <3>1, <3>2 DEF Collapse, e
    <3>4. u[j + 1] = Append(u[j], e)
      BY <2>1, <2>5, <3>1 DEF Named
    <3>5. Spells(Append(Append(s, Slash), e), Append(u[j], e), d)
      BY <1>4, <2>2, <2>3, <2>4, <3>1, SpellsAppend
    <3>6. Append(u[j], e) \in Seq(Name) /\ Len(Append(u[j], e)) >= 1
      BY <2>3, <3>1, AppendProperties
    <3>7. Append(Append(s, Slash), e) \in Seq(Token)
      BY <2>0, <3>1, AppendProperties
    <3> QED BY <2>5, <3>3, <3>4, <3>5, <3>6, <3>7
  <2>6. CASE p[j + 1] \notin Name
    <3>1. w[j + 1] = Slash /\ u[j + 1] = u[j]
      BY <1>2, <2>1, <2>6 DEF Named
    <3>2. v[j + 1] = Append(s, Slash)
      <4>1. CASE p[j] \in Name
        <5>1. Last(s) # Slash
          BY <1>4, <2>2, <2>3, <4>1, SpellsLast
        <5> QED BY <2>1, <2>2, <3>1, <4>1, <5>1 DEF Collapse
      <4>2. CASE p[j] \notin Name
        BY <2>0, <2>1, <2>2, <3>1, <4>2 DEF Collapse
      <4> QED BY <4>1, <4>2
    <3> QED BY <2>2, <2>3, <2>6, <3>1, <3>2
  <2> QED BY <2>5, <2>6
<1> HIDE DEF P
<1>9. n - 1 \in S
  <2>1. 0 \in S
    BY <1>7
  <2>2. ASSUME NEW j \in Nat, j \in S PROVE j + 1 \in S
    <3>1. ASSUME (j + 1) + 1 <= n PROVE P((j + 1) + 1)
      <4>1. j + 1 \in 1..(n - 1) /\ j + 1 <= n
        BY <1>1, <3>1
      <4> QED BY <1>8, <2>2, <4>1
    <3> QED BY <3>1
  <2> HIDE DEF S
  <2>3. n - 1 \in Nat
    BY <1>1
  <2> QED BY <2>1, <2>2, <2>3, InductionOnNat
<1>10. P(n)
  <2>1. (n - 1) + 1 <= n /\ (n - 1) + 1 = n
    BY <1>1
  <2> QED BY <1>9, <2>1
<1> QED BY <1>5, <1>6, <1>10 DEF P, w, n, d

\* normalizePath: a path is normalized to the one spelling of its names, and the
\* prefix of what is below it is that spelling with a separator.
LEMMA NormalForm ==
  ASSUME NEW p, IsPath(p)
  PROVE  /\ FileOf(p) \in Seq(Name)
         /\ \E s \in Seq(Token) :
              /\ Spells(s, FileOf(p), Lead(p))
              /\ normalizePath(p) = IF FileOf(p) = << >> THEN << Slash >> ELSE s
              /\ PathPrefix(normalizePath(p)) = Append(s, Slash)
<1> DEFINE w == [i \in DOMAIN p |-> FoldToken(p[i])]
           t == CollapseSlashes(w)
           N == FileOf(p)
           d == Lead(p)
<1>1. PICK s \in Seq(Token) : /\ Spells(s, N, d)
                              /\ t = IF p[Len(p)] \in Name THEN s ELSE Append(s, Slash)
                              /\ p[Len(p)] \in Name => Len(N) >= 1
  BY CollapseSpells
<1>2. N \in Seq(Name) /\ (d = 1 => Len(N) >= 1) /\ d \in {0, 1}
  BY CollapseSpells DEF Lead
<1>3. normalizePath(p) = IF Len(t) > 1 /\ Last(t) = Slash THEN Front(t) ELSE t
  BY DEF normalizePath
<1>4. Slash \in Token
  BY DEF Token
<1> HIDE DEF t, w, N, d
<1>5. Len(N) >= 1 => s # << >> /\ Last(s) # Slash
  BY <1>1, <1>2, SpellsLast
<1>6. /\ Len(s) \in Nat /\ Len(N) \in Nat /\ Len(s) = 2 * Len(N) - d
      /\ (N = << >> <=> Len(N) = 0) /\ (s = << >> <=> Len(s) = 0)
  BY <1>1, <1>2, LenProperties, EmptySeq DEF Spells
<1>7. N = << >> <=> s = << >>
  BY <1>2, <1>6
<1>8. N # << >> => s # << >> /\ Last(s) # Slash
  BY <1>5, <1>6
<1>9. N # << >> => PathPrefix(s) = Append(s, Slash)
  BY <1>8 DEF PathPrefix
<1>10. CASE p[Len(p)] \in Name
  <2>1. N # << >> /\ t = s
    BY <1>1, <1>6, <1>10
  <2>2. normalizePath(p) = s
    BY <1>3, <1>8, <2>1
  <2> QED BY <1>1, <1>2, <1>9, <2>1, <2>2 DEF N, d
<1>11. CASE p[Len(p)] \notin Name
  <2>1. t = Append(s, Slash)
    BY <1>1, <1>11
  <2>2. Len(t) = Len(s) + 1 /\ t[Len(s) + 1] = Slash /\ t \in Seq(Token)
        /\ \A i \in 1..Len(s) : t[i] = s[i]
    BY <1>4, <2>1, AppendProperties
  <2>3. Last(t) = Slash
    BY <2>2 DEF Last
  <2>4. CASE N = << >>
    <3>1. s = << >> /\ t = << Slash >> /\ Len(t) = 1
      BY <1>7, <2>1, <2>4
    <3>2. normalizePath(p) = << Slash >>
      BY <1>3, <3>1
    <3>3. PathPrefix(<< Slash >>) = << Slash >>
      BY DEF PathPrefix, Last
    <3>4. PathPrefix(normalizePath(p)) = Append(s, Slash)
      BY <2>1, <3>1, <3>2, <3>3
    <3> QED BY <1>1, <1>2, <2>4, <3>2, <3>4 DEF N, d
  <2>5. CASE N # << >>
    <3>1. Front(t) = s
      <4>1. Len(t) - 1 = Len(s) /\ Len(t) \in Nat /\ Len(t) >= 1
        BY <1>6, <2>2
      <4>2. SubSeq(t, 1, Len(s)) \in Seq(Token) /\ Len(SubSeq(t, 1, Len(s))) = Len(s)
            /\ \A i \in 1..Len(s) : SubSeq(t, 1, Len(s))[i] = t[i]
        <5>1. \A i \in 1..Len(s) : t[i] \in Token
          BY <1>6, <2>2, ElementOfSeq
        <5> QED BY <1>6, <2>2, <5>1, SubSeqProperties
      <4>3. SubSeq(t, 1, Len(s)) = s
        BY <2>2, <4>2, SeqEqual
      <4> QED BY <4>1, <4>3 DEF Front
    <3>2. Len(t) > 1
      BY <1>6, <1>7, <2>2, <2>5
    <3>3. normalizePath(p) = s
      BY <1>3, <2>3, <3>1, <3>2
    <3> QED BY <1>1, <1>2, <1>9, <2>5, <3>3 DEF N, d
  <2> QED BY <2>4, <2>5
<1> QED BY <1>10, <1>11

\* A prefix, position by position.
LEMMA PrefixFacts ==
  ASSUME NEW A, NEW s \in Seq(A), NEW t \in Seq(A)
  PROVE  IsPrefix(s, t) <=> Len(s) <= Len(t) /\ \A i \in 1..Len(s) : s[i] = t[i]
<1>1. Len(s) \in Nat /\ Len(t) \in Nat
  BY LenProperties
<1>2. ASSUME NEW r \in Seq(A), Len(s) <= Len(r)
      PROVE  /\ SubSeq(r, 1, Len(s)) \in Seq(A) /\ Len(SubSeq(r, 1, Len(s))) = Len(s)
             /\ \A i \in 1..Len(s) : SubSeq(r, 1, Len(s))[i] = r[i]
  <2>1. Len(r) \in Nat /\ \A i \in 1..Len(s) : r[i] \in A
    BY <1>1, <1>2, LenProperties, ElementOfSeq
  <2> QED BY <1>1, <1>2, <2>1, SubSeqProperties
<1> DEFINE a == SubSeq(s, 1, Len(s))
           b == SubSeq(t, 1, Len(s))
<1>3. a \in Seq(A) /\ Len(a) = Len(s) /\ \A i \in 1..Len(s) : a[i] = s[i]
  BY <1>1, <1>2
<1>4. Len(s) <= Len(t) => b \in Seq(A) /\ Len(b) = Len(s) /\ \A i \in 1..Len(s) : b[i] = t[i]
  BY <1>2
<1> HIDE DEF a, b
<1>5. ASSUME Len(s) <= Len(t), \A i \in 1..Len(s) : s[i] = t[i] PROVE a = b
  BY <1>3, <1>4, <1>5, SeqEqual
<1>6. IsPrefix(s, t) <=> Len(s) <= Len(t) /\ a = b
  BY DEF IsPrefix, a, b
<1> QED BY <1>3, <1>4, <1>5, <1>6

\* A longer list of names that begins with the shorter one is spelled with the
\* spelling of the shorter one and a separator in front.
LEMMA SpellsBelow ==
  ASSUME NEW d \in {0, 1}, NEW s \in Seq(Token), NEW t \in Seq(Token), NEW M \in Seq(Name),
         NEW N \in Seq(Name), Spells(s, M, d), Spells(t, N, d),
         Len(M) < Len(N), \A i \in 1..Len(M) : M[i] = N[i], d = 1 => Len(M) >= 1
  PROVE  IsPrefix(Append(s, Slash), t)
<1> DEFINE m == Len(M)
           n == Len(N)
           r == Append(s, Slash)
           l == Len(s)
<1>1. m \in Nat /\ n \in Nat /\ l \in Nat /\ l = 2 * m - d /\ Len(t) = 2 * n - d /\ m < n
  BY LenProperties DEF Spells
<1>2. /\ r \in Seq(Token) /\ Len(r) = l + 1 /\ r[l + 1] = Slash
      /\ \A i \in 1..l : r[i] = s[i]
  BY AppendProperties DEF Token
<1>3. /\ \A i \in 1..m : s[2 * i - d] = M[i] /\ (2 * i - 1 - d >= 1 => s[2 * i - 1 - d] = Slash)
      /\ \A i \in 1..n : t[2 * i - d] = N[i] /\ (2 * i - 1 - d >= 1 => t[2 * i - 1 - d] = Slash)
  BY DEF Spells
<1>4. M \in Seq(Token)
  BY DEF Token
<1>5. \A i \in 1..m : M[i] = N[i]
  OBVIOUS
<1>6. ASSUME NEW k \in 1..l PROVE s[k] = t[k]
  <2>0. HoldsToken(s, M, d, k)
    BY <1>4, SpellsAt
  <2>1. PICK i \in 1..m : \/ k = 2 * i - d /\ s[k] = M[i]
                          \/ k = 2 * i - 1 - d /\ s[k] = Slash
    BY <2>0 DEF HoldsToken
  <2> HIDE DEF m, n, r, l
  <2>2. i \in 1..n /\ (k = 2 * i - 1 - d => 2 * i - 1 - d >= 1)
    BY <1>1, <2>1
  <2> QED BY <1>3, <1>5, <2>1, <2>2
<1>7. t[l + 1] = Slash /\ l + 1 <= Len(t)
  <2> HIDE DEF m, n, r, l
  <2>1. m + 1 \in 1..n /\ 2 * (m + 1) - 1 - d = l + 1 /\ l + 1 >= 1 /\ l + 1 <= Len(t)
    BY <1>1
  <2> QED BY <1>3, <2>1
<1>8. \A k \in 1..(l + 1) : r[k] = t[k]
  <2>1. \A k \in 1..l : r[k] = t[k]
    BY <1>2, <1>6
  <2> HIDE DEF m, n, r, l
  <2>2. \A k \in 1..(l + 1) : k \in 1..l \/ k = l + 1
    BY <1>1
  <2> QED BY <1>2, <1>7, <2>1, <2>2
<1> QED BY <1>2, <1>7, <1>8, PrefixFacts

\* fileAccessesOverlap: two accesses of absolute paths that touch a common file are
\* found to overlap.
LEMMA TouchingOverlap ==
  ASSUME NEW l, NEW r, l.kind = "file", r.kind = "file", IsPath(l.path), IsPath(r.path),
         l.path[1] \in Name <=> r.path[1] \in Name,
         NEW f \in Seq(Name), Touches(l, f), Touches(r, f)
  PROVE  fileAccessesOverlap(l, r)
<1> DEFINE d == Lead(l.path)
           M == FileOf(l.path)
           N == FileOf(r.path)
           lp == normalizePath(l.path)
           rp == normalizePath(r.path)
<1>1. /\ M \in Seq(Name)
      /\ \E s \in Seq(Token) :
           /\ Spells(s, M, d) /\ lp = (IF M = << >> THEN << Slash >> ELSE s)
           /\ PathPrefix(lp) = Append(s, Slash)
  BY NormalForm
<1>2. /\ N \in Seq(Name)
      /\ \E t \in Seq(Token) :
           /\ Spells(t, N, Lead(r.path)) /\ rp = (IF N = << >> THEN << Slash >> ELSE t)
           /\ PathPrefix(rp) = Append(t, Slash)
  BY NormalForm
<1>3. d \in {0, 1} /\ Lead(r.path) = d
  BY DEF Lead
<1>4. (d = 1 => Len(M) >= 1) /\ (d = 1 => Len(N) >= 1)
  BY <1>3, CollapseSpells
<1>5. PICK s \in Seq(Token) : /\ Spells(s, M, d) /\ lp = (IF M = << >> THEN << Slash >> ELSE s)
                              /\ PathPrefix(lp) = Append(s, Slash)
  BY <1>1
<1>6. PICK t \in Seq(Token) : /\ Spells(t, N, d) /\ rp = (IF N = << >> THEN << Slash >> ELSE t)
                              /\ PathPrefix(rp) = Append(t, Slash)
  BY <1>2, <1>3
<1>7. /\ f = M \/ (l.recursive /\ IsPrefix(M, f))
      /\ f = N \/ (r.recursive /\ IsPrefix(N, f))
  BY DEF Touches
<1>8. fileAccessesOverlap(l, r) <=> \/ lp = rp
                                    \/ l.recursive /\ IsPrefix(PathPrefix(lp), rp)
                                    \/ r.recursive /\ IsPrefix(PathPrefix(rp), lp)
  BY DEF fileAccessesOverlap
<1> HIDE DEF d, M, N, lp, rp
<1>9. Len(M) \in Nat /\ Len(N) \in Nat /\ Len(f) \in Nat
  BY <1>1, <1>2, LenProperties
<1>10. /\ Len(M) <= Len(f) /\ \A i \in 1..Len(M) : M[i] = f[i]
       /\ Len(N) <= Len(f) /\ \A i \in 1..Len(N) : N[i] = f[i]
       /\ f = M \/ l.recursive
       /\ f = N \/ r.recursive
  <2>1. IsPrefix(M, f) => Len(M) <= Len(f) /\ \A i \in 1..Len(M) : M[i] = f[i]
    BY <1>1, PrefixFacts
  <2>2. IsPrefix(N, f) => Len(N) <= Len(f) /\ \A i \in 1..Len(N) : N[i] = f[i]
    BY <1>2, PrefixFacts
  <2> QED BY <1>7, <1>9, <2>1, <2>2
<1>11. CASE Len(M) = Len(N)
  <2>1. M = N
    BY <1>1, <1>2, <1>9, <1>10, <1>11, SeqEqual
  <2>2. s = t
    <3>1. M \in Seq(Token)
      BY <1>1 DEF Token
    <3>2. Spells(t, M, d)
      BY <1>6, <2>1
    <3> QED BY <1>3, <1>5, <3>1, <3>2, SpellingUnique
  <2> QED BY <1>5, <1>6, <1>8, <2>1, <2>2
<1>12. CASE Len(M) < Len(N)
  <2>1. \A i \in 1..Len(M) : M[i] = N[i]
    BY <1>9, <1>10, <1>12
  <2>2. l.recursive
    BY <1>9, <1>10, <1>12
  <2>3. IsPrefix(Append(s, Slash), t)
    BY <1>1, <1>2, <1>3, <1>4, <1>5, <1>6, <1>12, <2>1, SpellsBelow
  <2>4. rp = t
    <3>1. N # << >>
      BY <1>2, <1>9, <1>12, EmptySeq
    <3> QED BY <1>6, <3>1
  <2> QED BY <1>5, <1>8, <2>2, <2>3, <2>4
<1>13. CASE Len(N) < Len(M)
  <2>1. \A i \in 1..Len(N) : N[i] = M[i]
    BY <1>9, <1>10, <1>13
  <2>2. r.recursive
    BY <1>9, <1>10, <1>13
  <2>3. IsPrefix(Append(t, Slash), s)
    BY <1>1, <1>2, <1>3, <1>4, <1>5, <1>6, <1>13, <2>1, SpellsBelow
  <2>4. lp = s
    <3>1. M # << >>
      BY <1>1, <1>9, <1>13, EmptySeq
    <3> QED BY <1>5, <3>1
  <2> QED BY <1>6, <1>8, <2>2, <2>3, <2>4
<1> QED BY <1>9, <1>11, <1>12, <1>13

\* ToolAccesses.conflict: two access lists that share a file one of them may change
\* are conflicting.
LEMMA SharingConflicts ==
  ASSUME NEW left \in AccessLists, NEW right \in AccessLists, SharesWrittenFile(left, right)
  PROVE  conflict(left, right)
<1>1. PICK l \in left, r \in right :
        /\ Writes(l) \/ Writes(r)
        /\ \E f \in FileUniverse : Touches(l, f) /\ Touches(r, f)
  BY DEF SharesWrittenFile
<1>2. l \in UNION AccessLists /\ r \in UNION AccessLists
  OBVIOUS
<1>3. FileUniverse \subseteq Seq(Name)
  <2>1. ASSUME NEW a \in UNION AccessLists, a.kind = "file" PROVE FileOf(a.path) \in Seq(Name)
    <3>1. IsPath(a.path)
      BY <2>1, AccessListsAssumption
    <3> QED BY <3>1, NormalForm
  <2>2. << >> \in Seq(Name)
    OBVIOUS
  <2>3. ASSUME NEW f \in FileUniverse PROVE f \in Seq(Name)
    <3>1. f = << >> \/ \E a \in UNION AccessLists : a.kind = "file" /\ f = FileOf(a.path)
      BY DEF FileUniverse
    <3> QED BY <2>1, <2>2, <3>1
  <2> QED BY <2>3
<1>4. CASE l.kind = "all" \/ r.kind = "all"
  BY <1>4 DEF conflict, resourceAccessesConflict
<1>5. CASE l.kind # "all" /\ r.kind # "all"
  <2>1. /\ l.kind = "file" /\ r.kind = "file" /\ IsPath(l.path) /\ IsPath(r.path)
        /\ l.path[1] \in Name <=> r.path[1] \in Name
    BY <1>2, <1>5, AccessListsAssumption
  <2>2. PICK f \in Seq(Name) : Touches(l, f) /\ Touches(r, f)
    BY <1>1, <1>3
  <2>3. fileAccessesOverlap(l, r)
    BY <2>1, <2>2, TouchingOverlap
  <2>4. fileOperationsConflict(l.operation, r.operation)
    BY <1>1, <1>5 DEF Writes, fileOperationsConflict, fileOperationWrites
  <2> QED BY <2>3, <2>4 DEF conflict, resourceAccessesConflict
<1> QED BY <1>4, <1>5

\* isBlocked/start: two tools never run together when one of them may change a file
\* the other one touches, whatever spelling of the path they were called with.
THEOREM SchedulerSafeFiles == Spec => []NoSharedWriteOverlap
<1>1. TypeOK /\ NoConflictingOverlap => NoSharedWriteOverlap
  <2> SUFFICES ASSUME TypeOK, NoConflictingOverlap, NEW t \in activeTasks, NEW u \in activeTasks, t # u,
                      <<accesses[t], accesses[u]>> \in SharedWrites
               PROVE  FALSE
    BY DEF NoSharedWriteOverlap
  <2>1. /\ accesses[t] \in AccessLists /\ accesses[u] \in AccessLists
        /\ SharesWrittenFile(accesses[t], accesses[u])
    BY DEF SharedWrites
  <2>2. conflict(accesses[t], accesses[u])
    BY <2>1, SharingConflicts
  <2> QED BY <2>2 DEF NoConflictingOverlap
<1> QED BY <1>1, SchedulerTyping, SchedulerExclusion, PTL
---------------------------------------------------------------------------
(* Startable against the loop of startQueuedTasks(). *)

\* The loop over the queue, one task at a time.
LEMMA VisitTrace ==
  ASSUME NEW accs, NEW active \in SUBSET Nat, NEW w \in Seq(Nat)
  PROVE  \E v : /\ v[0] = [active |-> active, stillQueued |-> {}]
                /\ startQueuedTasks(accs, active, w) = v[Len(w)]
                /\ \A j \in 0..(Len(w) - 1) : v[j + 1] = Visit(accs, v[j], w[j + 1])
<1> DEFINE n == Len(w)
           D == SUBSET (1..n)
           B == [active : SUBSET Nat, stillQueued : SUBSET Nat]
           b == [active |-> active, stillQueued |-> {}]
           G == [i \in 1..n |-> [a \in B |-> Visit(accs, a, w[i])]]
           Body(f, t) == IF t = {} THEN b ELSE Visit(accs, f[t \ {Max(t)}], w[Max(t)])
           c == CHOOSE f : f = [t \in D |-> Body(f, t)]
           v == [j \in 0..n |-> c[1..j]]
<1>0. n \in Nat /\ DOMAIN w = 1..n /\ \A i \in 1..n : w[i] \in Nat
  BY LenProperties, ElementOfSeq
<1>1. startQueuedTasks(accs, active, w) = c[1..n]
  BY <1>0 DEF startQueuedTasks, FoldLeft, MapThenFoldSet
<1>2. G \in [1..n -> [B -> B]] /\ b \in B
  <2>1. ASSUME NEW i \in 1..n, NEW a \in B PROVE Visit(accs, a, w[i]) \in B
    BY <1>0 DEF Visit
  <2> QED BY <2>1
<1>3. PICK it \in [D -> B] : Iterates(it, n, b, G)
  <2> HIDE DEF n, B, G, b
  <2> QED BY <1>0, <1>2, IterationExists
<1> HIDE DEF b
<1>4. \A t \in D : t # {} => Max(t) \in 1..n /\ t \ {Max(t)} \in D
  BY <1>0, MaxFacts
<1>5. it = [t \in D |-> Body(it, t)]
  <2>1. \A t \in D : it[t] = Body(it, t)
    BY <1>3, <1>4 DEF Iterates, FoldStep
  <2> QED BY <1>3, <2>1
<1>6. c = [t \in D |-> Body(c, t)]
  BY <1>5
<1> HIDE DEF c
<1>7. v[0] = b /\ v[n] = c[1..n]
  <2>1. 1..0 = {} /\ {} \in D /\ 0 \in 0..n /\ n \in 0..n
    BY <1>0
  <2>2. c[{}] = b
    BY <1>6, <2>1
  <2> QED BY <2>1, <2>2
<1>8. ASSUME NEW j \in 0..(n - 1) PROVE v[j + 1] = Visit(accs, v[j], w[j + 1])
  <2>1. j \in Nat /\ j \in 0..n /\ j + 1 \in 0..n /\ 1..(j + 1) \in D
    BY <1>0
  <2>2. c[1..(j + 1)] = Visit(accs, c[(1..(j + 1)) \ {Max(1..(j + 1))}], w[Max(1..(j + 1))])
    BY <1>6, <2>1, RangeStep
  <2>3. c[1..(j + 1)] = Visit(accs, c[1..j], w[j + 1])
    BY <2>1, <2>2, RangeStep
  <2> QED BY <2>1, <2>3
<1> QED BY <1>1, <1>7, <1>8 DEF b

\* The array holds every queued task, in the order of their numbers: the tasks in
\* front of a task are those added before it.
LEMMA QueueFacts ==
  ASSUME NEW tasks \in SUBSET Nat, IsFiniteSet(tasks), NEW queue \in Queues(tasks)
  PROVE  /\ queue \in Seq(Nat) /\ Len(queue) = Cardinality(tasks) /\ Cardinality(tasks) \in Nat
         /\ \A i \in 1..Len(queue) : queue[i] \in tasks
         /\ \A u \in tasks : \E i \in 1..Len(queue) : queue[i] = u
         /\ \A i, j \in 1..Len(queue) : queue[i] < queue[j] <=> i < j
<1> DEFINE n == Cardinality(tasks)
<1>1. n \in Nat
  BY FS_CardinalityType
<1>2. /\ queue \in [1..n -> tasks]
      /\ \A i, j \in 1..n : i < j => queue[i] < queue[j]
  BY DEF Queues
<1> HIDE DEF n
<1>3. queue \in Seq(Nat) /\ Len(queue) = n
  <2>1. queue \in [1..n -> Nat]
    BY <1>2
  <2> QED BY <1>1, <2>1, SeqDef, LenProperties
<1>4. \A i, j \in 1..n : queue[i] < queue[j] <=> i < j
  <2> SUFFICES ASSUME NEW i \in 1..n, NEW j \in 1..n, queue[i] < queue[j], ~(i < j) PROVE FALSE
    BY <1>2
  <2>1. queue[i] \in Nat /\ queue[j] \in Nat
    BY <1>2
  <2>2. i = j \/ j < i
    BY <1>1
  <2> QED BY <1>2, <2>1, <2>2
<1>5. queue \in Injection(1..n, tasks)
  <2>1. ASSUME NEW i \in 1..n, NEW j \in 1..n, queue[i] = queue[j] PROVE i = j
    <3>1. queue[i] \in Nat
      BY <1>2
    <3>2. ~(i < j) /\ ~(j < i)
      BY <1>4, <2>1, <3>1
    <3> QED BY <1>1, <3>2
  <2> QED BY <1>2, <2>1 DEF Injection, IsInjective
<1>6. IsFiniteSet(1..n) /\ Cardinality(1..n) = n
  BY <1>1, FS_Interval
<1>7. queue \in Surjection(1..n, tasks)
  BY <1>5, <1>6, FS_Injection DEF n
<1>8. \A u \in tasks : \E i \in 1..n : queue[i] = u
  BY <1>7 DEF Surjection
<1> QED BY <1>1, <1>2, <1>3, <1>4, <1>8 DEF n

\* startQueuedTasks(): from any queue the loop starts the tasks Startable names and
\* keeps the others.
LEMMA LoopIsStartable ==
  ASSUME NEW accs, NEW active \in SUBSET Nat, NEW tasks \in SUBSET Nat, IsFiniteSet(tasks),
         NEW queue \in Queues(tasks)
  PROVE  startQueuedTasks(accs, active, queue)
           = [active |-> active \cup Startable(accs, active, tasks),
              stillQueued |-> tasks \ Startable(accs, active, tasks)]
<1> DEFINE n == Len(queue)
           Before(t) == {u \in tasks : u < t}
           Blocked(t) == isBlocked(accs, accs[t], active, Before(t))
           First(j) == {queue[i] : i \in 1..j}
           At(j) == [active |-> active \cup {t \in First(j) : ~Blocked(t)},
                     stillQueued |-> {t \in First(j) : Blocked(t)}]
<1>1. /\ queue \in Seq(Nat) /\ n \in Nat
      /\ \A i \in 1..n : queue[i] \in tasks
      /\ \A u \in tasks : \E i \in 1..n : queue[i] = u
      /\ \A i, j \in 1..n : queue[i] < queue[j] <=> i < j
  BY QueueFacts, LenProperties
<1>2. PICK v : /\ v[0] = [active |-> active, stillQueued |-> {}]
               /\ startQueuedTasks(accs, active, queue) = v[n]
               /\ \A j \in 0..(n - 1) : v[j + 1] = Visit(accs, v[j], queue[j + 1])
  <2> HIDE DEF Before, Blocked, First, At
  <2>1. \E v : /\ v[0] = [active |-> active, stillQueued |-> {}]
               /\ startQueuedTasks(accs, active, queue) = v[Len(queue)]
               /\ \A j \in 0..(Len(queue) - 1) : v[j + 1] = Visit(accs, v[j], queue[j + 1])
    <3>1. queue \in Seq(Nat) /\ active \in SUBSET Nat
      BY <1>1
    <3> QED BY <3>1, VisitTrace, SMTT(30)
  <2> QED BY <2>1
<1> HIDE DEF n
<1>3. ASSUME NEW j \in 0..(n - 1) PROVE Before(queue[j + 1]) = First(j)
  <2>1. j \in Nat /\ j + 1 \in 1..n /\ 1..j \subseteq 1..n
    BY <1>1
  <2>2. ASSUME NEW u \in tasks, u < queue[j + 1] PROVE u \in First(j)
    <3>1. PICK i \in 1..n : queue[i] = u
      BY <1>1
    <3>2. i < j + 1
      BY <1>1, <2>1, <2>2, <3>1
    <3>3. i \in 1..j
      BY <1>1, <2>1, <3>2
    <3> QED BY <3>1, <3>3
  <2>3. ASSUME NEW i \in 1..j PROVE queue[i] \in Before(queue[j + 1])
    <3>1. i \in 1..n /\ i < j + 1
      BY <1>1, <2>1
    <3> QED BY <1>1, <2>1, <3>1
  <2> QED BY <2>2, <2>3
<1>4. ASSUME NEW j \in 0..(n - 1) PROVE First(j + 1) = First(j) \cup {queue[j + 1]}
  <2>1. 1..(j + 1) = 1..j \cup {j + 1}
    OBVIOUS
  <2> QED BY <2>1
<1>5. ASSUME NEW j \in 0..(n - 1), v[j] = At(j) PROVE v[j + 1] = At(j + 1)
  <2> DEFINE t == queue[j + 1]
  <2>1. v[j + 1] = Visit(accs, At(j), t)
    BY <1>2, <1>5
  <2>2. isBlocked(accs, accs[t], At(j).active, At(j).stillQueued) <=> Blocked(t)
    <3>1. At(j).active \cup At(j).stillQueued = active \cup Before(t)
      BY <1>3
    <3> DEFINE a == At(j).active
               q == At(j).stillQueued
               f == Before(t)
    <3> HIDE DEF a, q, f
    <3>2. a \cup q = active \cup f
      BY <3>1 DEF a, q, f
    <3>3. isBlocked(accs, accs[t], a, q) <=> isBlocked(accs, accs[t], active, f)
      BY <3>2 DEF isBlocked, conflictsWithAny
    <3> QED BY <3>3 DEF a, q, f
  <2>3. First(j + 1) = First(j) \cup {t}
    BY <1>4
  <2> DEFINE A == At(j).active
             Q == At(j).stillQueued
  <2>4. /\ A = active \cup {u \in First(j) : ~Blocked(u)} /\ Q = {u \in First(j) : Blocked(u)}
        /\ At(j) = [active |-> A, stillQueued |-> Q]
    OBVIOUS
  <2> HIDE DEF Blocked, First, t
  <2>5. CASE Blocked(t)
    <3>1. v[j + 1] = [active |-> A, stillQueued |-> Q \cup {t}]
      BY <2>1, <2>2, <2>5 DEF Visit
    <3>2. /\ Q \cup {t} = {u \in First(j + 1) : Blocked(u)}
          /\ A = active \cup {u \in First(j + 1) : ~Blocked(u)}
      BY <2>3, <2>5
    <3> QED BY <3>1, <3>2
  <2>6. CASE ~Blocked(t)
    <3>1. v[j + 1] = [active |-> A \cup {t}, stillQueued |-> Q]
      BY <2>1, <2>2, <2>6 DEF Visit
    <3>2. /\ Q = {u \in First(j + 1) : Blocked(u)}
          /\ A \cup {t} = active \cup {u \in First(j + 1) : ~Blocked(u)}
      BY <2>3, <2>6
    <3> QED BY <3>1, <3>2
  <2> QED BY <2>5, <2>6
<1> DEFINE S == {j \in Nat : j <= n => v[j] = At(j)}
<1>6. n \in S
  <2>1. 0 \in S
    <3>1. First(0) = {}
      OBVIOUS
    <3>2. At(0) = [active |-> active, stillQueued |-> {}]
      <4> HIDE DEF First
      <4> QED BY <3>1
    <3> QED BY <1>2, <3>2
  <2> HIDE DEF At
  <2>2. ASSUME NEW j \in Nat, j \in S PROVE j + 1 \in S
    <3>1. ASSUME j + 1 <= n PROVE v[j + 1] = At(j + 1)
      <4>1. j \in 0..(n - 1) /\ v[j] = At(j)
        BY <1>1, <2>2, <3>1
      <4> QED BY <1>5, <4>1
    <3> QED BY <3>1
  <2> HIDE DEF S
  <2> QED BY <1>1, <2>1, <2>2, InductionOnNat
<1>7. v[n] = At(n) /\ First(n) = tasks
  <2>1. First(n) = tasks
    BY <1>1
  <2> HIDE DEF At
  <2>2. v[n] = At(n)
    BY <1>1, <1>6
  <2> QED BY <2>1, <2>2
<1>8. {t \in tasks : ~Blocked(t)} = Startable(accs, active, tasks)
  BY DEF Startable
<1> HIDE DEF First, Blocked
<1>9. {t \in tasks : Blocked(t)} = tasks \ {t \in tasks : ~Blocked(t)}
  OBVIOUS
<1> QED BY <1>2, <1>7, <1>8, <1>9

\* There is such an array for every set of tasks.
LEMMA QueuesExist ==
  ASSUME NEW m \in Nat, NEW tasks \in SUBSET (1..m)
  PROVE  Queues(tasks) # {}
<1> DEFINE P(n) == \A T \in SUBSET (1..n) : Queues(T) # {}
           S == {n \in Nat : P(n)}
<1>1. 0 \in S
  <2>1. ASSUME NEW T \in SUBSET (1..0) PROVE Queues(T) # {}
    <3>0. T = {}
      OBVIOUS
    <3>1. T = {} /\ Cardinality(T) = 0
      BY <3>0, FS_EmptySet
    <3>2. << >> \in Queues(T)
      BY <3>1 DEF Queues
    <3> QED BY <3>2
  <2> QED BY <2>1
<1>2. ASSUME NEW n \in Nat, n \in S PROVE n + 1 \in S
  <2>1. ASSUME NEW T \in SUBSET (1..(n + 1)) PROVE Queues(T) # {}
    <3>1. CASE n + 1 \notin T
      <4>1. T \in SUBSET (1..n)
        BY <3>1
      <4> QED BY <1>2, <4>1
    <3>2. CASE n + 1 \in T
      <4> DEFINE R == T \ {n + 1}
                 c == Cardinality(R)
      <4>1. R \in SUBSET (1..n) /\ T = R \cup {n + 1} /\ n + 1 \notin R
        BY <3>2
      <4>2. PICK q : q \in Queues(R)
        BY <1>2, <4>1
      <4>3. IsFiniteSet(R)
        <5>1. IsFiniteSet(1..n)
          BY FS_Interval
        <5> QED BY <4>1, <5>1, FS_Subset
      <4>4. c \in Nat /\ Cardinality(T) = c + 1
        BY <4>1, <4>3, FS_CardinalityType, FS_AddElement
      <4>5. q \in [1..c -> R] /\ \A i, j \in 1..c : i < j => q[i] < q[j]
        BY <4>2 DEF Queues
      <4> HIDE DEF R, c
      <4> DEFINE r == [i \in 1..(c + 1) |-> IF i = c + 1 THEN n + 1 ELSE q[i]]
      <4>6. r \in [1..(c + 1) -> T]
        BY <4>1, <4>4, <4>5
      <4>7. ASSUME NEW i \in 1..(c + 1), NEW j \in 1..(c + 1), i < j PROVE r[i] < r[j]
        <5>0. i \in 1..c
          BY <4>4, <4>7
        <5>1. i \in 1..c /\ r[i] = q[i] /\ q[i] \in 1..n
          <6>1. q[i] \in R
            BY <4>5, <5>0
          <6>2. q[i] \in 1..n
            BY <4>1, <6>1
          <6>3. r[i] = q[i]
            BY <4>4, <5>0
          <6> QED BY <5>0, <6>2, <6>3
        <5>2. CASE j = c + 1
          <6>1. r[j] = n + 1
            BY <5>2
          <6> QED BY <5>1, <6>1
        <5>3. CASE j \in 1..c
          <6>1. r[j] = q[j] /\ q[i] < q[j]
            BY <4>4, <4>5, <4>7, <5>1, <5>3
          <6> QED BY <5>1, <6>1
        <5> QED BY <4>4, <5>2, <5>3
      <4>8. r \in Queues(T)
        <5>1. DOMAIN r = 1..(c + 1)
          OBVIOUS
        <5> HIDE DEF r
        <5> QED BY <4>4, <4>6, <4>7, <5>1 DEF Queues
      <4> QED BY <4>8
    <3> QED BY <3>1, <3>2
  <2> QED BY <2>1
<1>3. m \in S
  <2> HIDE DEF S
  <2> QED BY <1>1, <1>2, InductionOnNat
<1> QED BY <1>3

\* startQueuedTasks: at every moment the queue is an array, and whichever running task
\* leaves next, the loop over it starts exactly the set Startable describes.
THEOREM SchedulerLoop == Spec => [](StartableIsTheLoop /\ Queues(queuedTasks) # {})
<1>1. TypeOK => StartableIsTheLoop /\ Queues(queuedTasks) # {}
  <2> SUFFICES ASSUME TypeOK PROVE StartableIsTheLoop /\ Queues(queuedTasks) # {}
    OBVIOUS
  <2>1. added \in Nat /\ activeTasks \in SUBSET Nat /\ queuedTasks \in SUBSET (1..added)
    BY MaxTasksAssumption DEF TypeOK, Tasks
  <2>2. queuedTasks \in SUBSET Nat /\ IsFiniteSet(queuedTasks)
    <3>1. IsFiniteSet(1..added)
      <4>1. 1 \in Int /\ added \in Int
        BY <2>1
      <4> QED BY <4>1, FS_Interval
    <3>2. IsFiniteSet(queuedTasks)
      BY <2>1, <3>1, FS_Subset
    <3> QED BY <2>1, <3>2
  <2>3. ASSUME NEW t \in activeTasks, NEW queue \in Queues(queuedTasks)
        PROVE  LET remaining == activeTasks \ {t}
                   startable == Startable(accesses, remaining, queuedTasks)
               IN  startQueuedTasks(accesses, remaining, queue)
                     = [active |-> remaining \cup startable,
                        stillQueued |-> queuedTasks \ startable]
    <3>1. activeTasks \ {t} \in SUBSET Nat
      BY <2>1
    <3> QED BY <2>2, <3>1, LoopIsStartable
  <2>4. StartableIsTheLoop
    BY <2>3 DEF StartableIsTheLoop
  <2> QED BY <2>1, <2>4, QueuesExist
<1> QED BY <1>1, SchedulerTyping, PTL
=============================================================================
