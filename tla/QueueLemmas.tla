---------------------------- MODULE QueueLemmas -----------------------------
(***************************************************************************)
(* Facts about sequences without repetition, for the modules that keep a   *)
(* queue: what its operations do to its members.  And facts about folds,   *)
(* for the modules that replay a log: the operator that combines two       *)
(* values is given as a function, so that induction can be cited.          *)
(***************************************************************************)
EXTENDS SequencesExt, SequenceTheorems, WellFoundedInduction, TLAPS

(* Tools for the queue: sequences without repetition and their members. *)

\* A member of a sequence is what one of its positions holds; only the empty
\* sequence has none.
LEMMA MemberFacts ==
  ASSUME NEW S, NEW s \in Seq(S)
  PROVE  /\ \A x: x \in ToSet(s) <=> \E i \in 1..Len(s): s[i] = x
         /\ \A x: Contains(s, x) <=> x \in ToSet(s)
         /\ ToSet(s) \subseteq S
         /\ s = <<>> <=> ToSet(s) = {}
<1>1. DOMAIN s = 1..Len(s) /\ Len(s) \in Nat /\ \A i \in 1..Len(s): s[i] \in S
  BY LenProperties, ElementOfSeq
<1>2. s = <<>> <=> Len(s) = 0
  BY EmptySeq
<1>3. ToSet(s) = {s[i] : i \in 1..Len(s)}
  BY <1>1 DEF ToSet
<1>4. \A x: x \in ToSet(s) <=> \E i \in 1..Len(s): s[i] = x
  BY <1>3
<1>5. \A x: Contains(s, x) <=> x \in ToSet(s)
  BY <1>4 DEF Contains
<1>6. ToSet(s) \subseteq S
  BY <1>1, <1>4
<1>7. s = <<>> <=> ToSet(s) = {}
  <2>1. CASE Len(s) = 0
    BY <1>2, <1>4, <2>1
  <2>2. CASE Len(s) # 0
    <3>1. 1 \in 1..Len(s)
      BY <1>1, <2>2
    <3> QED
      BY <1>2, <1>4, <2>2, <3>1
  <2> QED
    BY <2>1, <2>2
<1> QED
  BY <1>4, <1>5, <1>6, <1>7

\* queue.push(e) of a new member: still no repetition, and e is the only new member.
LEMMA PushMembers ==
  ASSUME NEW S, NEW s \in Seq(S), NEW e \in S, IsInjective(s), e \notin ToSet(s)
  PROVE  /\ Append(s, e) \in Seq(S)
         /\ IsInjective(Append(s, e)) /\ ToSet(Append(s, e)) = ToSet(s) \cup {e}
<1> DEFINE r == Append(s, e)
<1>1. /\ Len(s) \in Nat /\ DOMAIN s = 1..Len(s)
      /\ r \in Seq(S) /\ DOMAIN r = 1..(Len(s) + 1)
      /\ \A i \in 1..Len(s): r[i] = s[i]
      /\ r[Len(s) + 1] = e
  BY AppendProperties, LenProperties
<1> HIDE DEF r
<1>2. \A i \in 1..Len(s): s[i] # e
  BY <1>1 DEF ToSet
<1>3. IsInjective(r)
  BY <1>1, <1>2 DEF IsInjective
<1>4. ToSet(r) = ToSet(s) \cup {e}
  BY <1>1 DEF ToSet
<1> QED
  BY <1>1, <1>3, <1>4 DEF r

\* [...s, ...t] has the members of both.  Where they have none in common and
\* repeat nothing but members of R, neither does the result.
LEMMA ConcatMembers ==
  ASSUME NEW S, NEW s \in Seq(S), NEW r \in Seq(S)
  PROVE  s \o r \in Seq(S) /\ ToSet(s \o r) = ToSet(s) \cup ToSet(r)
<1>1. /\ Len(s) \in Nat /\ Len(r) \in Nat /\ DOMAIN s = 1..Len(s) /\ DOMAIN r = 1..Len(r)
      /\ s \o r \in Seq(S)
      /\ DOMAIN (s \o r) = 1..(Len(s) + Len(r))
      /\ \A i \in 1..(Len(s) + Len(r)): (s \o r)[i] = IF i <= Len(s) THEN s[i] ELSE r[i - Len(s)]
  BY ConcatProperties, LenProperties
<1>2. ASSUME NEW x \in ToSet(s) PROVE x \in ToSet(s \o r)
  BY <1>1 DEF ToSet
<1>3. ASSUME NEW x \in ToSet(r) PROVE x \in ToSet(s \o r)
  <2>1. PICK i \in 1..Len(r): r[i] = x
    BY <1>1 DEF ToSet
  <2>2. i + Len(s) \in 1..(Len(s) + Len(r)) /\ (s \o r)[i + Len(s)] = x
    BY <1>1, <2>1
  <2> QED
    BY <1>1, <2>2 DEF ToSet
<1>4. ASSUME NEW x \in ToSet(s \o r) PROVE x \in ToSet(s) \cup ToSet(r)
  <2>1. PICK i \in 1..(Len(s) + Len(r)): (s \o r)[i] = x
    BY <1>1 DEF ToSet
  <2>2. CASE i <= Len(s)
    BY <1>1, <2>1, <2>2 DEF ToSet
  <2>3. CASE ~(i <= Len(s))
    <3>1. i - Len(s) \in 1..Len(r) /\ r[i - Len(s)] = x
      BY <1>1, <2>1, <2>3
    <3> QED
      BY <1>1, <3>1 DEF ToSet
  <2> QED
    BY <2>2, <2>3
<1> QED
  BY <1>1, <1>2, <1>3, <1>4

LEMMA ConcatOnce ==
  ASSUME NEW S, NEW s \in Seq(S), NEW r \in Seq(S), NEW R,
         \A i, j \in DOMAIN s: s[i] = s[j] => i = j \/ s[i] \in R,
         \A i, j \in DOMAIN r: r[i] = r[j] => i = j \/ r[i] \in R,
         ToSet(s) \cap ToSet(r) = {}
  PROVE  \A i, j \in DOMAIN (s \o r): (s \o r)[i] = (s \o r)[j] => i = j \/ (s \o r)[i] \in R
<1>1. /\ Len(s) \in Nat /\ Len(r) \in Nat /\ DOMAIN s = 1..Len(s) /\ DOMAIN r = 1..Len(r)
      /\ DOMAIN (s \o r) = 1..(Len(s) + Len(r))
      /\ \A i \in 1..(Len(s) + Len(r)): (s \o r)[i] = IF i <= Len(s) THEN s[i] ELSE r[i - Len(s)]
  BY ConcatProperties, LenProperties
<1>2. \A x \in ToSet(s), y \in ToSet(r): x # y
  OBVIOUS
<1>3. /\ \A i \in 1..Len(s): s[i] \in ToSet(s)
      /\ \A i \in 1..Len(r): r[i] \in ToSet(r)
  BY <1>1 DEF ToSet
<1> SUFFICES ASSUME NEW i \in 1..(Len(s) + Len(r)), NEW j \in 1..(Len(s) + Len(r)),
                    (s \o r)[i] = (s \o r)[j]
             PROVE  i = j \/ (s \o r)[i] \in R
  BY <1>1
<1>4. CASE i <= Len(s) /\ j <= Len(s)
  BY <1>1, <1>4
<1>5. CASE i > Len(s) /\ j > Len(s)
  <2>1. /\ i - Len(s) \in DOMAIN r /\ j - Len(s) \in DOMAIN r
        /\ (s \o r)[i] = r[i - Len(s)] /\ r[i - Len(s)] = r[j - Len(s)]
    BY <1>1, <1>5
  <2>2. i - Len(s) = j - Len(s) \/ r[i - Len(s)] \in R
    BY <2>1
  <2> QED
    BY <1>1, <2>1, <2>2
<1>6. CASE i <= Len(s) /\ j > Len(s)
  BY <1>1, <1>2, <1>3, <1>6
<1>7. CASE i > Len(s) /\ j <= Len(s)
  BY <1>1, <1>2, <1>3, <1>7
<1> QED
  BY <1>1, <1>4, <1>5, <1>6, <1>7

\* queue.shift() takes out the head, which does not occur again.
LEMMA PopMembers ==
  ASSUME NEW S, NEW s \in Seq(S), s # <<>>, IsInjective(s)
  PROVE  /\ Head(s) \in S /\ Head(s) \in ToSet(s) /\ Tail(s) \in Seq(S)
         /\ IsInjective(Tail(s)) /\ ToSet(Tail(s)) = ToSet(s) \ {Head(s)}
<1>1. /\ Len(s) \in Nat \ {0} /\ DOMAIN s = 1..Len(s) /\ Head(s) = s[1] /\ Head(s) \in S
      /\ Tail(s) \in Seq(S) /\ DOMAIN Tail(s) = 1..(Len(s) - 1)
      /\ \A i \in 1..(Len(s) - 1): Tail(s)[i] = s[i + 1]
  BY HeadTailProperties, LenProperties, EmptySeq
<1>2. IsInjective(Tail(s))
  BY <1>1 DEF IsInjective
<1>3. ASSUME NEW x \in ToSet(s), x # Head(s) PROVE x \in ToSet(Tail(s))
  <2>1. PICK i \in 1..Len(s): s[i] = x
    BY <1>1 DEF ToSet
  <2>2. i - 1 \in 1..(Len(s) - 1) /\ Tail(s)[i - 1] = x
    BY <1>1, <1>3, <2>1
  <2> QED
    BY <1>1, <2>2 DEF ToSet
<1>4. ASSUME NEW x \in ToSet(Tail(s)) PROVE x \in ToSet(s) \ {Head(s)}
  <2>1. PICK i \in 1..(Len(s) - 1): s[i + 1] = x
    BY <1>1 DEF ToSet
  <2> QED
    BY <1>1, <2>1 DEF ToSet, IsInjective
<1>5. Head(s) \in ToSet(s)
  BY <1>1 DEF ToSet
<1> QED
  BY <1>1, <1>2, <1>3, <1>4, <1>5

\* queue.splice(i, 1) takes out the member at i and nothing else.
LEMMA RemoveAtMembers ==
  ASSUME NEW S, NEW s \in Seq(S), NEW i \in DOMAIN s, IsInjective(s)
  PROVE  /\ RemoveAt(s, i) \in Seq(S) /\ IsInjective(RemoveAt(s, i))
         /\ ToSet(RemoveAt(s, i)) = ToSet(s) \ {s[i]}
         /\ Len(RemoveAt(s, i)) = Len(s) - 1
         /\ \A k \in 1..(Len(s) - 1): RemoveAt(s, i)[k] = IF k < i THEN s[k] ELSE s[k + 1]
<1> DEFINE r == RemoveAt(s, i)
<1>1. Len(s) \in Nat /\ DOMAIN s = 1..Len(s) /\ i \in 1..Len(s)
  BY LenProperties
<1>2. /\ SubSeq(s, 1, i - 1) \in Seq(S) /\ Len(SubSeq(s, 1, i - 1)) = i - 1
      /\ \A k \in 1..(i - 1): SubSeq(s, 1, i - 1)[k] = s[k]
  <2>1. \A k \in 1..(i - 1): k \in 1..Len(s)
    BY <1>1
  <2>2. \A k \in 1..(i - 1): s[k] \in S
    BY <1>1, <2>1, ElementOfSeq
  <2>3. 1 \in Int /\ i - 1 \in Int /\ 1 <= i - 1 + 1
    BY <1>1
  <2> QED
    BY <1>1, <2>1, <2>2, <2>3, SubSeqProperties
<1>3. /\ SubSeq(s, i + 1, Len(s)) \in Seq(S) /\ Len(SubSeq(s, i + 1, Len(s))) = Len(s) - i
      /\ \A k \in 1..(Len(s) - i): SubSeq(s, i + 1, Len(s))[k] = s[i + k]
  <2>1. \A k \in (i + 1)..Len(s): k \in 1..Len(s)
    BY <1>1
  <2>2. \A k \in (i + 1)..Len(s): s[k] \in S
    BY <1>1, <2>1, ElementOfSeq
  <2> QED
    BY <1>1, <2>1, <2>2, SubSeqProperties
<1> DEFINE a == SubSeq(s, 1, i - 1)
           b == SubSeq(s, i + 1, Len(s))
<1>c. /\ a \in Seq(S) /\ Len(a) = i - 1 /\ b \in Seq(S) /\ Len(b) = Len(s) - i
      /\ r = a \o b /\ \A k \in 1..(Len(s) - i): b[k] = s[i + k]
  BY <1>2, <1>3 DEF RemoveAt
<1> HIDE DEF a, b, r
<1>d. Len(a) + Len(b) = Len(s) - 1
  BY <1>1, <1>c
<1>4. /\ r \in Seq(S) /\ Len(r) = Len(s) - 1
      /\ \A k \in 1..(Len(s) - 1): r[k] = IF k <= i - 1 THEN a[k] ELSE b[k - (i - 1)]
  <2>1. /\ a \o b \in Seq(S) /\ Len(a \o b) = Len(a) + Len(b)
        /\ \A k \in 1..(Len(a) + Len(b)):
             (a \o b)[k] = IF k <= Len(a) THEN a[k] ELSE b[k - Len(a)]
    BY <1>c, ConcatProperties, Zenon
  <2> QED
    BY <1>c, <1>d, <2>1, Zenon
<1>5. ASSUME NEW k \in 1..(Len(s) - 1) PROVE r[k] = IF k < i THEN s[k] ELSE s[k + 1]
  <2>1. r[k] = IF k <= i - 1 THEN a[k] ELSE b[k - (i - 1)]
    BY <1>4
  <2>2. CASE k < i
    BY <1>1, <1>2, <2>1, <2>2 DEF a
  <2>3. CASE ~(k < i)
    <3>1. k - (i - 1) \in 1..(Len(s) - i) /\ i + (k - (i - 1)) = k + 1
      BY <1>1, <2>3
    <3>2. r[k] = b[k - (i - 1)]
      <4>1. ~(k <= i - 1)
        BY <1>1, <2>3
      <4> QED
        BY <2>1, <4>1
    <3>3. b[k - (i - 1)] = s[i + (k - (i - 1))]
      BY <1>c, <3>1, Zenon
    <3>4. r[k] = s[k + 1]
      BY <3>1, <3>2, <3>3, Zenon
    <3> QED
      BY <2>3, <3>4, Zenon
  <2> QED
    BY <2>2, <2>3
<1>6. DOMAIN r = 1..(Len(s) - 1)
  BY <1>4, LenProperties
<1>7. IsInjective(r)
  <2> SUFFICES ASSUME NEW k \in 1..(Len(s) - 1), NEW l \in 1..(Len(s) - 1), r[k] = r[l]
               PROVE  k = l
    BY <1>6 DEF IsInjective
  <2> DEFINE at(n) == IF n < i THEN n ELSE n + 1
  <2>1. r[k] = s[at(k)] /\ r[l] = s[at(l)] /\ at(k) \in 1..Len(s) /\ at(l) \in 1..Len(s)
    BY <1>1, <1>5
  <2>2. at(k) = at(l)
    BY <1>1, <2>1 DEF IsInjective
  <2> QED
    BY <1>1, <2>2
<1>8. ASSUME NEW x \in ToSet(s), x # s[i] PROVE x \in ToSet(r)
  <2>1. PICK k \in 1..Len(s): s[k] = x
    BY <1>1 DEF ToSet
  <2>2. CASE k < i
    <3>1. k \in 1..(Len(s) - 1)
      BY <1>1, <2>2
    <3> QED
      BY <1>5, <1>6, <2>1, <2>2, <3>1 DEF ToSet
  <2>3. CASE k > i
    <3>1. k - 1 \in 1..(Len(s) - 1) /\ ~(k - 1 < i) /\ (k - 1) + 1 = k
      BY <1>1, <2>3
    <3>2. r[k - 1] = x
      BY <1>5, <2>1, <3>1
    <3> QED
      BY <1>6, <3>1, <3>2 DEF ToSet
  <2> QED
    BY <1>1, <1>8, <2>1, <2>2, <2>3
<1>9. ASSUME NEW x \in ToSet(r) PROVE x \in ToSet(s) \ {s[i]}
  <2>1. PICK k \in 1..(Len(s) - 1): r[k] = x
    BY <1>6 DEF ToSet
  <2>2. CASE k < i
    BY <1>1, <1>5, <2>1, <2>2 DEF ToSet, IsInjective
  <2>3. CASE ~(k < i)
    BY <1>1, <1>5, <2>1, <2>3 DEF ToSet, IsInjective
  <2> QED
    BY <2>2, <2>3
<1> QED
  BY <1>4, <1>5, <1>7, <1>8, <1>9 DEF r

-----------------------------------------------------------------------------
(* Queues of numbers in ascending order. *)
Increasing(s) == \A i, j \in DOMAIN s: i < j => s[i] < s[j]

\* Appending something larger than every member keeps an increasing sequence so.
LEMMA PushIncreasing ==
  ASSUME NEW S \in SUBSET Int, NEW s \in Seq(S), NEW e \in S, Increasing(s),
         \A x \in ToSet(s): x < e
  PROVE  Increasing(Append(s, e)) /\ ToSet(Append(s, e)) = ToSet(s) \cup {e}
<1> DEFINE r == Append(s, e)
<1>1. /\ Len(s) \in Nat /\ DOMAIN s = 1..Len(s)
      /\ DOMAIN r = 1..(Len(s) + 1)
      /\ \A i \in 1..Len(s): r[i] = s[i]
      /\ r[Len(s) + 1] = e
  BY AppendProperties, LenProperties
<1> HIDE DEF r
<1>2. \A i \in 1..Len(s): s[i] < e
  BY <1>1 DEF ToSet
<1>3. ASSUME NEW i \in 1..(Len(s) + 1), NEW j \in 1..(Len(s) + 1), i < j PROVE r[i] < r[j]
  <2>1. CASE j <= Len(s)
    BY <1>1, <1>3, <2>1 DEF Increasing
  <2>2. CASE j = Len(s) + 1
    BY <1>1, <1>2, <1>3, <2>2
  <2> QED
    BY <1>1, <2>1, <2>2
<1>4. ToSet(r) = ToSet(s) \cup {e}
  BY <1>1 DEF ToSet
<1> QED
  BY <1>1, <1>3, <1>4 DEF Increasing, r

\* The tail of an increasing sequence is increasing, and all of it is larger
\* than the head.
LEMMA PopIncreasing ==
  ASSUME NEW S \in SUBSET Int, NEW s \in Seq(S), s # <<>>, Increasing(s)
  PROVE  Increasing(Tail(s)) /\ \A x \in ToSet(Tail(s)): Head(s) < x
<1>1. /\ Len(s) \in Nat \ {0} /\ DOMAIN s = 1..Len(s) /\ Head(s) = s[1]
      /\ DOMAIN Tail(s) = 1..(Len(s) - 1)
      /\ \A i \in 1..(Len(s) - 1): Tail(s)[i] = s[i + 1]
  BY HeadTailProperties, LenProperties, EmptySeq
<1>2. Increasing(Tail(s))
  BY <1>1 DEF Increasing
<1>3. ASSUME NEW x \in ToSet(Tail(s)) PROVE Head(s) < x
  <2>1. PICK i \in 1..(Len(s) - 1): s[i + 1] = x
    BY <1>1 DEF ToSet
  <2> QED
    BY <1>1, <2>1 DEF Increasing
<1> QED
  BY <1>2, <1>3

\* An increasing sequence stays increasing when a member is taken out.
LEMMA RemoveAtIncreasing ==
  ASSUME NEW S \in SUBSET Int, NEW s \in Seq(S), NEW i \in DOMAIN s, IsInjective(s), Increasing(s)
  PROVE  Increasing(RemoveAt(s, i))
<1> DEFINE r == RemoveAt(s, i)
<1>1. /\ r \in Seq(S) /\ Len(r) = Len(s) - 1
      /\ \A k \in 1..(Len(s) - 1): r[k] = IF k < i THEN s[k] ELSE s[k + 1]
  BY RemoveAtMembers
<1> HIDE DEF r
<1>2. DOMAIN r = 1..(Len(s) - 1) /\ Len(s) \in Nat /\ DOMAIN s = 1..Len(s)
  BY <1>1, LenProperties
<1>3. ASSUME NEW k \in 1..(Len(s) - 1), NEW l \in 1..(Len(s) - 1), k < l PROVE r[k] < r[l]
  <2> DEFINE at(n) == IF n < i THEN n ELSE n + 1
  <2>1. /\ r[k] = s[at(k)] /\ r[l] = s[at(l)]
        /\ at(k) \in DOMAIN s /\ at(l) \in DOMAIN s /\ at(k) < at(l)
    BY <1>1, <1>2, <1>3
  <2> HIDE DEF at
  <2> QED
    BY <2>1 DEF Increasing
<1> QED
  BY <1>2, <1>3 DEF Increasing, r
-----------------------------------------------------------------------------
(* Induction and folds. *)

\* A set of naturals that is not empty has a smallest element.
LEMMA SmallestNat ==
  ASSUME NEW T, T \subseteq Nat, T # {}
  PROVE  \E x \in T : \A y \in T : x <= y
<1> DEFINE R == OpToRel(<, Nat)
<1>1. IsWellFoundedOn(R, Nat)
  BY NatLessThanWellFounded
<1>2. \A y, x \in Nat : <<y, x>> \in R <=> y < x
  BY DEF OpToRel
<1> HIDE DEF R
<1>3. PICK x \in T : \A y \in T : ~ (<<y, x>> \in R)
  BY <1>1, WFMin
<1>4. \A y \in T : x \in Nat /\ y \in Nat /\ ~ (y < x)
  BY <1>2, <1>3
<1>5. \A y \in T : x <= y
  BY <1>4
<1> QED
  BY <1>3, <1>5

\* Induction, for a set S of numbers in place of a predicate.
LEMMA InductionOnNat ==
  ASSUME NEW S, 0 \in S, \A n \in Nat : n \in S => n + 1 \in S
  PROVE  \A n \in Nat : n \in S
<1> SUFFICES ASSUME Nat \ S # {} PROVE FALSE
  OBVIOUS
<1>1. PICK x \in Nat \ S : \A y \in Nat \ S : x <= y
  BY SmallestNat
<1>2. x # 0 /\ x - 1 \in Nat
  BY <1>1
<1>3. x - 1 \in S
  BY <1>1, <1>2
<1>4. (x - 1) + 1 \in S
  BY <1>2, <1>3
<1> QED
  BY <1>1, <1>4

\* Max of a set of numbers up to n is its greatest element.
LEMMA MaxInRange ==
  ASSUME NEW n \in Nat, NEW s \in SUBSET (0..n), s # {}
  PROVE  Max(s) \in s /\ \A y \in s : y <= Max(s)
<1> DEFINE T == {n - x : x \in s}
<1>1. \A x \in s : x \in 0..n /\ n - x \in Nat
  OBVIOUS
<1>2. T \subseteq Nat /\ T # {}
  BY <1>1
<1>3. PICK t \in T : \A y \in T : t <= y
  BY <1>2, SmallestNat
<1>4. PICK x \in s : t = n - x
  BY <1>3
<1>5. \A y \in s : n - x <= n - y
  BY <1>3, <1>4
<1>6. \A y \in s : x >= y
  BY <1>1, <1>5
<1>7. /\ Max(s) \in s /\ \A y \in s : Max(s) >= y
  BY <1>6 DEF Max
<1> QED
  BY <1>1, <1>7

\* The same for positions of a sequence.
LEMMA MaxFacts ==
  ASSUME NEW n \in Nat, NEW s \in SUBSET (1..n), s # {}
  PROVE  Max(s) \in s /\ \A y \in s : y <= Max(s)
<1>1. s \in SUBSET (0..n)
  OBVIOUS
<1> QED BY <1>1, MaxInRange

FoldStep(G, it, s) == G[Max(s)][it[s \ {Max(s)}]]
Iterates(it, n, b, G) ==
  /\ it[{}] = b
  /\ \A s \in SUBSET (1..n) : s # {} => it[s] = FoldStep(G, it, s)

\* There is a function on sets of positions that applies G[i] for the greatest
\* position of the set to what it gives for the others: what a fold chooses.
LEMMA IterationExists ==
  ASSUME NEW n \in Nat, NEW A, NEW b \in A, NEW G \in [1..n -> [A -> A]]
  PROVE  \E it \in [SUBSET (1..n) -> A] : Iterates(it, n, b, G)
<1> DEFINE E(m) == \E it \in [SUBSET (1..m) -> A] : Iterates(it, m, b, G)
           S == {m \in Nat : m <= n => E(m)}
<1>0. \A m : m \in S <=> m \in Nat /\ (m <= n => E(m))
  <2> HIDE DEF E
  <2> QED OBVIOUS
<1> HIDE DEF S
<1>1. 0 \in S
  <2> DEFINE it == [s \in SUBSET (1..0) |-> b]
  <2>1. \A s \in SUBSET (1..0) : s = {}
    OBVIOUS
  <2>2. it \in [SUBSET (1..0) -> A] /\ Iterates(it, 0, b, G)
    BY <2>1 DEF Iterates
  <2>3. E(0)
    BY <2>2
  <2> QED BY <1>0, <2>3
<1>2. ASSUME NEW m \in Nat, m \in S PROVE m + 1 \in S
  <2> SUFFICES ASSUME m + 1 <= n PROVE E(m + 1)
    <3> HIDE DEF E
    <3> QED BY <1>0
  <2>1. E(m)
    <3> HIDE DEF E
    <3> QED BY <1>0, <1>2
  <2>2. PICK it \in [SUBSET (1..m) -> A] : Iterates(it, m, b, G)
    BY <2>1
  <2> DEFINE Dom == SUBSET (1..(m + 1))
             nx == [s \in Dom |->
                      IF m + 1 \in s THEN G[m + 1][it[s \ {m + 1}]] ELSE it[s]]
  <2>3. \A s \in Dom :
           /\ m + 1 \notin s => s \in SUBSET (1..m)
           /\ s \ {m + 1} \in SUBSET (1..m)
    OBVIOUS
  <2>4. nx \in [Dom -> A]
    <3>1. G[m + 1] \in [A -> A]
      OBVIOUS
    <3> QED
      BY <2>2, <2>3, <3>1
  <2>5. ASSUME NEW s \in Dom, s # {}
        PROVE  nx[s] = FoldStep(G, nx, s)
    <3>1. Max(s) \in s /\ \A y \in s : y <= Max(s)
      <4>1. m + 1 \in Nat /\ s \in SUBSET (1..(m + 1))
        OBVIOUS
      <4> HIDE DEF Dom
      <4> QED BY <2>5, <4>1, MaxFacts
    <3> DEFINE r == s \ {Max(s)}
    <3>2. r \in Dom
      OBVIOUS
    <3>3. CASE m + 1 \in s
      <4>1. Max(s) = m + 1
        <5>1. Max(s) \in 1..(m + 1) /\ m + 1 <= Max(s)
          BY <3>1, <3>3
        <5> QED BY <5>1
      <4>2. nx[r] = it[r]
        BY <3>2, <4>1
      <4>3. nx[s] = G[m + 1][it[r]]
        BY <3>3, <4>1
      <4> QED
        BY <4>1, <4>2, <4>3 DEF FoldStep
    <3>4. CASE m + 1 \notin s
      <4>1. s \in SUBSET (1..m)
        BY <2>3, <3>4
      <4>2. nx[s] = it[s] /\ nx[r] = it[r]
        BY <3>2, <3>4
      <4>3. it[s] = FoldStep(G, it, s)
        BY <2>2, <2>5, <4>1 DEF Iterates
      <4> QED
        BY <4>2, <4>3 DEF FoldStep
    <3> QED BY <3>3, <3>4
  <2>6. nx[{}] = b
    BY <2>2 DEF Iterates
  <2>7. Iterates(nx, m + 1, b, G)
    BY <2>5, <2>6 DEF Iterates
  <2> QED BY <2>4, <2>7
<1>3. n \in S
  BY <1>1, <1>2, InductionOnNat
<1>4. E(n)
  <2> HIDE DEF E
  <2> QED BY <1>0, <1>3
<1> QED BY <1>4

\* Two such functions agree, so the one a fold chooses is known.
LEMMA IterationUnique ==
  ASSUME NEW n \in Nat, NEW b, NEW G, NEW f, NEW g,
         Iterates(f, n, b, G), Iterates(g, n, b, G)
  PROVE  \A s \in SUBSET (1..n) : f[s] = g[s]
<1> DEFINE E(m) == \A s \in SUBSET (1..m) : f[s] = g[s]
           S == {m \in Nat : m <= n => E(m)}
<1>0. \A m : m \in S <=> m \in Nat /\ (m <= n => E(m))
  <2> HIDE DEF E
  <2> QED OBVIOUS
<1> HIDE DEF S
<1>1. 0 \in S
  <2>1. \A s \in SUBSET (1..0) : s = {}
    OBVIOUS
  <2>2. E(0)
    BY <2>1 DEF Iterates
  <2> QED BY <1>0, <2>2
<1>2. ASSUME NEW m \in Nat, m \in S PROVE m + 1 \in S
  <2> SUFFICES ASSUME m + 1 <= n PROVE E(m + 1)
    <3> HIDE DEF E
    <3> QED BY <1>0
  <2>1. E(m)
    <3> HIDE DEF E
    <3> QED BY <1>0, <1>2
  <2> SUFFICES ASSUME NEW s \in SUBSET (1..(m + 1)), s # {} PROVE f[s] = g[s]
    BY DEF Iterates
  <2>2. m + 1 \in Nat /\ s \in SUBSET (1..n)
    OBVIOUS
  <2>3. Max(s) \in s /\ \A y \in s : y <= Max(s)
    BY <2>2, MaxFacts
  <2>4. s \ {Max(s)} \in SUBSET (1..m)
    <3> SUFFICES ASSUME NEW x \in s, x # Max(s) PROVE x \in 1..m
      OBVIOUS
    <3>1. x \in 1..(m + 1) /\ Max(s) \in 1..(m + 1) /\ x <= Max(s)
      BY <2>3
    <3> QED BY <3>1
  <2>5. f[s \ {Max(s)}] = g[s \ {Max(s)}]
    BY <2>1, <2>4
  <2> QED
    BY <2>2, <2>5 DEF Iterates, FoldStep
<1>3. n \in S
  BY <1>1, <1>2, InductionOnNat
<1>4. E(n)
  <2> HIDE DEF E
  <2> QED BY <1>0, <1>3
<1> QED BY <1>4

\* The first part of a range, for an induction along a fold.
LEMMA RangeStep ==
  ASSUME NEW j \in Nat
  PROVE  /\ Max(1..(j + 1)) = j + 1 /\ (1..(j + 1)) \ {j + 1} = 1..j
         /\ 1..(j + 1) # {} /\ 1..0 = {}
<1> DEFINE s == 1..(j + 1)
<1>1. j + 1 \in Nat /\ s \in SUBSET (1..(j + 1)) /\ s # {} /\ j + 1 \in s
  OBVIOUS
<1>2. Max(s) \in s /\ \A y \in s : y <= Max(s)
  <2> HIDE DEF s
  <2> QED BY <1>1, MaxFacts
<1>3. Max(s) = j + 1
  <2>1. Max(s) \in 1..(j + 1) /\ j + 1 <= Max(s)
    BY <1>1, <1>2
  <2> QED BY <2>1
<1> QED BY <1>1, <1>3
=============================================================================
