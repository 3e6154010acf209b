------------------------- MODULE ToolCallStepProofs -------------------------
(***************************************************************************)
(* Proofs about the tool calls of a step: what its transcript looks like,  *)
(* that no tool is entered twice, too early or after an abort, and that a  *)
(* result which claims a tool ran is backed by an execution, that no       *)
(* progress is shown of a call that is not announced or already answered,  *)
(* and that a skipped call was not executed.  They hold for every set of   *)
(* tools, and every number of calls, attempts and steps.                   *)
(***************************************************************************)
EXTENDS ToolCallStep, ToolSchedulerProofs, QueueLemmas, FiniteSetTheorems

---------------------------------------------------------------------------
(* The inductive invariant *)

IdType == Nat \X Nat
CallType == [id : IdType, key : Key]
EntryStates == {"queued", "authorizing", "skipped", "settled", "deferred", "started"}
Known == {"placeholder", "blocked", "stop", "skipped", "aborted"}
Outcomes == Known \cup {"ok", "discarded", "unexecuted"}
DeferredStates == Outcomes \cup {"none", "open"}
EntryType ==
  [call : CallType, st : EntryStates, out : Known, stops : BOOLEAN, task : Nat]
Phases == {"streaming", "batch", "skipping", "interrupted"} \cup Ended

\* The deduplicator's record; which ids it knows is left open.
IsDedup(d) ==
  /\ DOMAIN d = {"deferreds", "registered", "synthetic", "original"}
  /\ d.deferreds \in [Key -> DeferredStates]

\* What was streamed and what the runner made of it is of the right types.
RunnerOK ==
  /\ phase \in Phases /\ nextId \in Nat
  /\ stream \in Seq(CallType) /\ response \in Seq(CallType)
  /\ entries \in Seq(EntryType)
  /\ IsDedup(dedup)

\* So are the batch, the two logs and the tasks, one for each add().
RecordsOK ==
  /\ authorizing \in BOOLEAN /\ aborted \in BOOLEAN
  /\ pending \in Seq([out : Known, task : Nat])
  /\ calls \in Seq(IdType)
  /\ results \in Seq([id : IdType, out : DeferredStates])
  /\ taskCall \in Seq(CallType) /\ Len(taskCall) = added
  /\ executed \subseteq Tasks

\* An interrupted step announces a call and closes it later only for a
\* preparation that is still there by then.
Announced ==
  /\ Len(calls) = Len(results) + 1 /\ Orphans = {}
  /\ \E i \in EntryOf(response[Len(calls)]) :
       Ready(entries[i]) /\ entries[i].st # "skipped"

\* The calls of the response have ids of their own, unless it broke off with
\* nothing in the runner; then no result says that a tool ran.
Distinct == \A i, j \in DOMAIN response : response[i].id = response[j].id => i = j
Raw == phase \in {"interrupted"} \cup Ended /\ entries = << >>
NoneRan == \A i \in DOMAIN results : results[i].out # "ok"

\* The events follow the response.
LogOK ==
  /\ phase = "streaming" => response = << >> /\ pending = << >>
  /\ Len(response) <= MaxCalls
  /\ Distinct \/ (Raw /\ NoneRan)
  /\ Len(calls) <= Len(response) /\ Len(results) <= Len(calls)
  /\ \A i \in DOMAIN calls : calls[i] = response[i].id
  /\ \A i \in DOMAIN results : results[i].id = response[i].id
  /\ phase \in {"batch", "skipping"} =>
       /\ Len(pending) = Len(calls)
       /\ Len(results) # 0 => Len(calls) = Len(response)
  /\ phase = "interrupted" => Len(calls) = Len(results) \/ Announced
  /\ phase = "sealed" => ~aborted

\* A tool that may write has a task only for a call of the final response.
WritesOK ==
  /\ \A t \in Tasks :
       MayWrite(KeyOfTask(t)) => phase # "streaming" /\ taskCall[t].id \in IdsOf(response)
  /\ \A i \in DOMAIN entries :
       entries[i].st = "authorizing" => isStreamingEligible(entries[i].call.key)

\* An id has one entry, and the call of the response under that id is the one
\* the entry was made for: the first one the stream brought under it.
FirstUnder(s, i) == \A j \in 1..(i - 1) : s[j].id # s[i].id

IdsOK ==
  /\ \A i, j \in DOMAIN entries : entries[i].call.id = entries[j].call.id => i = j
  /\ \A i \in DOMAIN entries : entries[i].call.id[2] = 1 /\ entries[i].call.id[1] < nextId
  /\ \A i \in DOMAIN stream : stream[i].id[2] = 1 /\ stream[i].id[1] < nextId
  /\ phase = "streaming" =>
       /\ \A i \in DOMAIN stream : EntryOf(stream[i]) # {}
       /\ \A k \in DOMAIN entries, i \in DOMAIN stream :
            stream[i].id = entries[k].call.id /\ FirstUnder(stream, i)
              => stream[i] = entries[k].call
  /\ phase # "streaming" =>
       \A k \in DOMAIN entries, i \in DOMAIN response :
         response[i].id = entries[k].call.id => response[i] = entries[k].call

\* Who may still execute a key: a preparation that waits for its hook or for
\* the batch, or the call the batch is authorizing.  There is at most one,
\* none once the key has a task, and the deduplicator knows the key.
Claims(i) == entries[i].st \in {"authorizing", "deferred"}
BatchCall == response[Len(pending) + 1]
Taken(k) == dedup.deferreds[k] # "none"

TasksOnce ==
  /\ \A t \in Tasks : Taken(KeyOfTask(t))
  /\ \A t, u \in Tasks : KeyOfTask(t) = KeyOfTask(u) => t = u

EntriesOnce ==
  \A i \in DOMAIN entries : Claims(i) =>
    /\ Taken(entries[i].call.key)
    /\ \A t \in Tasks : KeyOfTask(t) # entries[i].call.key
    /\ \A j \in DOMAIN entries :
         Claims(j) /\ entries[j].call.key = entries[i].call.key => i = j

BatchOnce ==
  authorizing =>
    /\ phase = "batch" /\ Orphans = {} /\ Len(pending) < Len(response)
    /\ Taken(BatchCall.key)
    /\ \A t \in Tasks : KeyOfTask(t) # BatchCall.key
    /\ \A i \in EntryOf(BatchCall) : entries[i].st = "deferred"
    /\ \A i \in DOMAIN entries :
         Claims(i) /\ entries[i].call.key = BatchCall.key =>
           entries[i].call.id = BatchCall.id

ClaimsOK == TasksOnce /\ EntriesOnce /\ BatchOnce

\* The tasks behind entries, pending results and resolved deferreds.
RanTo(key) == \E t \in executed : KeyOfTask(t) = key /\ TaskDone(t)

ResolvedRan == \A k \in Key : dedup.deferreds[k] = "ok" => RanTo(k)

EntryTasks ==
  \A i \in DOMAIN entries :
    IF entries[i].st = "started"
      THEN entries[i].task \in Tasks /\ KeyOfTask(entries[i].task) = entries[i].call.key
      ELSE entries[i].task = 0

PendingTasks ==
  \A j \in DOMAIN pending :
    /\ j \in DOMAIN response
    /\ pending[j].task # 0 =>
         pending[j].task \in Tasks /\ KeyOfTask(pending[j].task) = response[j].key

ResultsRan == \A i \in DOMAIN results : results[i].out = "ok" => RanTo(response[i].key)

DoneOK == ResolvedRan /\ EntryTasks /\ PendingTasks /\ ResultsRan

StepInv ==
  /\ IInv /\ RunnerOK /\ RecordsOK
  /\ LogOK /\ WritesOK /\ IdsOK /\ ClaimsOK /\ DoneOK

---------------------------------------------------------------------------
(* What the operators of the model return *)

\* checkSameStep() opens the deferred of a key at most, and the call that is
\* not a duplicate found none.
LEMMA CheckFacts ==
  ASSUME NEW d, IsDedup(d), NEW call
  PROVE  LET c == checkSameStep(d, call)
         IN  /\ IsDedup(c)
             /\ \A k \in Key : d.deferreds[k] # "none" => c.deferreds[k] # "none"
             /\ \A k \in Key : c.deferreds[k] = "ok" => d.deferreds[k] = "ok"
             /\ call.key \in Key => c.deferreds[call.key] # "none"
             /\ call.key \in Key /\ ~IsDuplicate(c, call) => d.deferreds[call.key] = "none"
<1> DEFINE c == checkSameStep(d, call)
<1>1. CASE d.deferreds[call.key] # "none"
  <2>1. c = [d EXCEPT !.registered = @ \cup {call.id}, !.synthetic = @ \cup {call.id}]
    BY <1>1 DEF checkSameStep
  <2>2. DOMAIN c = DOMAIN d /\ c.deferreds = d.deferreds /\ call.id \in c.synthetic
    BY <2>1 DEF IsDedup
  <2> QED
    BY <1>1, <2>2 DEF IsDedup, IsDuplicate
<1>2. CASE ~(d.deferreds[call.key] # "none")
  <2>1. c = [d EXCEPT !.registered = @ \cup {call.id}, !.original = @ \cup {call.id},
                      !.deferreds[call.key] = "open"]
    BY <1>2 DEF checkSameStep
  <2>2. DOMAIN c = DOMAIN d /\ c.deferreds = [d.deferreds EXCEPT ![call.key] = "open"]
    BY <2>1 DEF IsDedup
  <2>3. /\ c.deferreds \in [Key -> DeferredStates]
        /\ \A k \in Key : c.deferreds[k] = IF k = call.key THEN "open" ELSE d.deferreds[k]
    BY <2>2 DEF IsDedup, DeferredStates
  <2> QED
    BY <1>2, <2>2, <2>3 DEF IsDedup
<1> QED
  BY <1>1, <1>2

\* So does registerSkipped().
LEMMA RegisterFacts ==
  ASSUME NEW d, IsDedup(d), NEW call
  PROVE  LET c == registerSkipped(d, call)
         IN  /\ IsDedup(c)
             /\ \A k \in Key : d.deferreds[k] # "none" => c.deferreds[k] # "none"
             /\ \A k \in Key : c.deferreds[k] = "ok" => d.deferreds[k] = "ok"
BY CheckFacts DEF registerSkipped

\* finalizeResult() resolves the deferred of the call's key at most.
LEMMA FinalizeFacts ==
  ASSUME NEW d, IsDedup(d), NEW call, call.key \in Key, NEW out \in Outcomes
  PROVE  LET f == finalizeResult(d, call, out)
         IN  /\ IsDedup(f)
             /\ \A k \in Key : d.deferreds[k] # "none" => f.deferreds[k] # "none"
             /\ \A k \in Key : f.deferreds[k] = "ok" =>
                  d.deferreds[k] = "ok" \/ (k = call.key /\ out = "ok")
             /\ FinalOutcome(d, call, out) \in DeferredStates
             /\ FinalOutcome(d, call, out) = "ok" =>
                  out = "ok" \/ d.deferreds[call.key] = "ok"
<1> DEFINE c == registerSkipped(d, call)
           f == finalizeResult(d, call, out)
<1>1. /\ IsDedup(c)
      /\ \A k \in Key : d.deferreds[k] # "none" => c.deferreds[k] # "none"
      /\ \A k \in Key : c.deferreds[k] = "ok" => d.deferreds[k] = "ok"
  BY RegisterFacts
<1>2. /\ DOMAIN f = {"deferreds", "registered", "synthetic", "original"}
      /\ f.deferreds = IF call.id \in c.original
                         THEN [c.deferreds EXCEPT ![call.key] = out] ELSE c.deferreds
  BY DEF finalizeResult
<1>3. FinalOutcome(d, call, out) = IF IsDuplicate(c, call) THEN c.deferreds[call.key] ELSE out
  BY DEF FinalOutcome
<1> HIDE DEF c, f
<1>4. Outcomes \subseteq DeferredStates /\ "none" \notin Outcomes
  BY DEF Outcomes, DeferredStates, Known
<1>5. /\ f.deferreds \in [Key -> DeferredStates]
      /\ \A k \in Key : f.deferreds[k] = c.deferreds[k] \/ (k = call.key /\ f.deferreds[k] = out)
  <2>1. c.deferreds \in [Key -> DeferredStates] /\ out \in DeferredStates
    BY <1>1, <1>4 DEF IsDedup
  <2>2. CASE call.id \in c.original
    <3>1. f.deferreds = [c.deferreds EXCEPT ![call.key] = out]
      BY <1>2, <2>2
    <3> QED
      BY <2>1, <3>1
  <2>3. CASE call.id \notin c.original
    <3>1. f.deferreds = c.deferreds
      BY <1>2, <2>3
    <3> QED
      BY <2>1, <3>1
  <2> QED
    BY <2>2, <2>3
<1>6. IsDedup(f)
  BY <1>2, <1>5 DEF IsDedup
<1>7. \A k \in Key : d.deferreds[k] # "none" => f.deferreds[k] # "none"
  BY <1>1, <1>4, <1>5
<1>8. \A k \in Key : f.deferreds[k] = "ok" => d.deferreds[k] = "ok" \/ (k = call.key /\ out = "ok")
  BY <1>1, <1>5
<1>9. /\ FinalOutcome(d, call, out) \in DeferredStates
      /\ FinalOutcome(d, call, out) = "ok" => out = "ok" \/ d.deferreds[call.key] = "ok"
  BY <1>1, <1>3, <1>4 DEF IsDedup
<1> QED
  BY <1>6, <1>7, <1>8, <1>9 DEF f

\* Map.delete leaves every other entry as it is.
LEMMA WithoutFacts ==
  ASSUME RunnerOK, IdsOK, NEW call
  PROVE  /\ Without(call) \in Seq(EntryType)
         /\ \A j \in DOMAIN Without(call) : \E i \in DOMAIN entries :
              Without(call)[j] = entries[i] /\ entries[i].call.id # call.id
         /\ \A i, j \in DOMAIN Without(call) :
              Without(call)[i].call.id = Without(call)[j].call.id => i = j
<1>1. /\ entries \in Seq(EntryType) /\ DOMAIN entries = 1..Len(entries)
      /\ \A i, j \in DOMAIN entries : entries[i].call.id = entries[j].call.id => i = j
  BY LenProperties DEF RunnerOK, IdsOK
<1>2. IsInjective(entries)
  BY <1>1 DEF IsInjective
<1>3. CASE EntryOf(call) = {}
  <2>1. Without(call) = entries
    BY <1>3 DEF Without
  <2>2. \A i \in DOMAIN entries : entries[i].call.id # call.id
    BY <1>3 DEF EntryOf
  <2> QED
    BY <1>1, <2>1, <2>2
<1>4. CASE EntryOf(call) # {}
  <2>1. PICK k \in EntryOf(call) : k = CHOOSE i \in EntryOf(call) : TRUE
    BY <1>4
  <2>2. k \in DOMAIN entries /\ entries[k].call.id = call.id
    BY <2>1 DEF EntryOf
  <2>3. Without(call) = RemoveAt(entries, k)
    BY <1>4, <2>1 DEF Without
  <2> DEFINE r == RemoveAt(entries, k)
  <2>4. /\ r \in Seq(EntryType) /\ IsInjective(r)
        /\ ToSet(r) = ToSet(entries) \ {entries[k]}
    BY <1>1, <1>2, <2>2, RemoveAtMembers
  <2> HIDE DEF r
  <2>5. /\ \A x : x \in ToSet(r) <=> \E i \in 1..Len(r) : r[i] = x
        /\ \A x : x \in ToSet(entries) <=> \E i \in 1..Len(entries) : entries[i] = x
    BY <1>1, <2>4, MemberFacts
  <2>6. DOMAIN r = 1..Len(r)
    BY <2>4, LenProperties
  <2>7. \A j \in DOMAIN r : \E i \in DOMAIN entries : r[j] = entries[i] /\ entries[i].call.id # call.id
    <3> SUFFICES ASSUME NEW j \in DOMAIN r
                 PROVE  \E i \in DOMAIN entries : r[j] = entries[i] /\ entries[i].call.id # call.id
      OBVIOUS
    <3>1. r[j] \in ToSet(entries) /\ r[j] # entries[k]
      BY <2>4, <2>5, <2>6
    <3>2. PICK i \in DOMAIN entries : r[j] = entries[i]
      BY <1>1, <2>5, <3>1
    <3> QED
      BY <1>1, <2>2, <3>1, <3>2
  <2>8. \A i, j \in DOMAIN r : r[i].call.id = r[j].call.id => i = j
    <3> SUFFICES ASSUME NEW i \in DOMAIN r, NEW j \in DOMAIN r, r[i].call.id = r[j].call.id
                 PROVE  i = j
      OBVIOUS
    <3>1. r[i] = r[j]
      BY <1>1, <2>7
    <3> QED
      BY <2>4, <3>1 DEF IsInjective
  <2> QED
    BY <2>3, <2>4, <2>7, <2>8 DEF r
<1> QED
  BY <1>3, <1>4

\* What StreamEnd received: the streamed calls, then the rest.
Received(tail) == stream \o tail

\* Its calls are of the right type, and a call that is the first under an old id
\* was streamed.
LEMMA ReceivedFacts ==
  ASSUME RunnerOK, IdsOK, NEW tail \in Tails
  PROVE  /\ Received(tail) \in Seq(CallType) /\ tail \in Seq(CallType)
         /\ \A i \in DOMAIN Received(tail) :
              Received(tail)[i].id[2] = 1 /\ Received(tail)[i].id[1] < nextId + Len(tail)
         /\ \A i \in DOMAIN Received(tail) :
              Received(tail)[i].id[1] < nextId /\ FirstUnder(Received(tail), i) =>
                i \in DOMAIN stream /\ Received(tail)[i] = stream[i]
         /\ \A i \in DOMAIN stream : i \in DOMAIN Received(tail) /\ Received(tail)[i] = stream[i]
         /\ \A i \in DOMAIN Received(tail) :
              Received(tail)[i].id[1] < nextId =>
                \E j \in DOMAIN stream : stream[j].id = Received(tail)[i].id
<1>1. PICK n \in 0..MaxCalls : tail \in [1..n -> [id : TailIds, key : Key]]
  BY DEF Tails
<1>2. n \in Nat /\ DOMAIN tail = 1..n
  <2>1. \A N \in Nat : \A m \in 0..N : m \in Nat
    OBVIOUS
  <2>2. n \in Nat
    BY <2>1, StepAssumption
  <2>3. DOMAIN tail = 1..n
    BY <1>1
  <2> QED BY <2>2, <2>3
<1>3. nextId \in Nat /\ stream \in Seq(CallType)
  BY DEF RunnerOK
<1>4. /\ Len(stream) \in Nat /\ DOMAIN stream = 1..Len(stream)
      /\ \A i \in 1..Len(stream) : stream[i] \in CallType /\ stream[i].id \in IdType
      /\ \A i \in 1..Len(stream) : stream[i].id[2] = 1 /\ stream[i].id[1] < nextId
  <2>1. Len(stream) \in Nat /\ DOMAIN stream = 1..Len(stream)
    BY <1>3, LenProperties
  <2>2. \A i \in 1..Len(stream) : stream[i] \in CallType
    BY <1>3, ElementOfSeq
  <2>3. \A i \in DOMAIN stream : stream[i].id[2] = 1 /\ stream[i].id[1] < nextId
    BY DEF IdsOK
  <2>4. \A c \in CallType : c.id \in IdType
    BY DEF CallType
  <2> QED BY <2>1, <2>2, <2>3, <2>4
<1>5. ASSUME NEW id \in TailIds
      PROVE  /\ id \in IdType /\ id[2] = 1
             /\ id[1] < nextId => \E j \in DOMAIN stream : stream[j].id = id
  <2>1. CASE id \in IdsOf(stream)
    BY <1>4, <2>1 DEF IdsOf
  <2>2. CASE id \in {<<m, 1>> : m \in nextId..(nextId + MaxCalls)}
    <3>1. PICK m \in nextId..(nextId + MaxCalls) : id = <<m, 1>>
      BY <2>2
    <3>2. m \in Nat /\ ~(m < nextId)
      BY <1>3, StepAssumption
    <3> QED BY <3>1, <3>2 DEF IdType
  <2> QED BY <2>1, <2>2 DEF TailIds
<1>6. /\ \A i \in 1..n : tail[i] \in CallType /\ tail[i].id \in TailIds
      /\ \A i \in 1..n : tail[i].id[1] < nextId + n
  <2>1. \A i \in 1..n : tail[i] \in [id : TailIds, key : Key]
    BY <1>1
  <2>2. \A i \in 1..n : tail[i] \in CallType /\ tail[i].id \in TailIds
    BY <1>5, <2>1 DEF CallType
  <2>a. \A i \in DOMAIN tail :
          tail[i].id[1] = nextId + i - 1 \/ tail[i].id[1] < nextId + i - 1
    BY DEF Tails
  <2>3. ASSUME NEW i \in 1..n PROVE tail[i].id[1] < nextId + n
    <3>1. tail[i].id[1] = nextId + i - 1 \/ tail[i].id[1] < nextId + i - 1
      BY <1>2, <2>a
    <3>2. tail[i].id[1] \in Nat
      BY <1>5, <2>2 DEF IdType
    <3> QED BY <1>2, <1>3, <3>1, <3>2
  <2> QED BY <2>2, <2>3
<1>7. tail \in Seq(CallType) /\ Len(tail) = n
  <2>1. tail \in [1..n -> CallType]
    BY <1>1, <1>6
  <2> QED BY <1>2, <2>1, SeqDef, LenProperties
<1>8. /\ Received(tail) \in Seq(CallType)
      /\ DOMAIN Received(tail) = 1..(Len(stream) + n)
      /\ \A i \in 1..(Len(stream) + n) :
           Received(tail)[i] = IF i <= Len(stream) THEN stream[i] ELSE tail[i - Len(stream)]
  <2>1. /\ Received(tail) \in Seq(CallType)
        /\ Len(Received(tail)) = Len(stream) + Len(tail)
        /\ \A i \in 1..(Len(stream) + Len(tail)) :
             Received(tail)[i] = IF i <= Len(stream) THEN stream[i] ELSE tail[i - Len(stream)]
    BY <1>3, <1>7, ConcatProperties DEF Received
  <2>2. DOMAIN Received(tail) = 1..Len(Received(tail))
    BY <2>1, LenProperties
  <2> QED BY <1>7, <2>1, <2>2
<1>9. \A i \in 1..(Len(stream) + n) :
        i \in 1..Len(stream) \/ (i - Len(stream) \in 1..n /\ ~(i <= Len(stream)))
  BY <1>2, <1>4
<1>10. \A i \in 1..Len(stream) : i \in 1..(Len(stream) + n) /\ i <= Len(stream)
  BY <1>2, <1>4
<1>11. \A i \in 1..Len(stream) : Received(tail)[i] = stream[i]
  BY <1>8, <1>10
<1>12. ASSUME NEW i \in 1..(Len(stream) + n)
       PROVE  /\ Received(tail)[i].id[2] = 1 /\ Received(tail)[i].id[1] < nextId + n
              /\ Received(tail)[i].id[1] < nextId =>
                   \E j \in DOMAIN stream : stream[j].id = Received(tail)[i].id
  <2>1. CASE i \in 1..Len(stream)
    <3>1. stream[i].id[1] \in Nat
      BY <1>4, <2>1 DEF IdType
    <3>2. stream[i].id[1] < nextId + n
      BY <1>2, <1>3, <1>4, <2>1, <3>1
    <3> QED BY <1>4, <1>11, <2>1, <3>2
  <2>2. CASE i - Len(stream) \in 1..n /\ ~(i <= Len(stream))
    <3>1. Received(tail)[i] = tail[i - Len(stream)]
      BY <1>8, <2>2
    <3> QED BY <1>5, <1>6, <2>2, <3>1
  <2> QED BY <1>9, <2>1, <2>2
<1>13. ASSUME NEW i \in 1..(Len(stream) + n), Received(tail)[i].id[1] < nextId,
              FirstUnder(Received(tail), i)
       PROVE  i \in DOMAIN stream /\ Received(tail)[i] = stream[i]
  <2>1. PICK j \in 1..Len(stream) : stream[j].id = Received(tail)[i].id
    BY <1>4, <1>12, <1>13
  <2>2. Received(tail)[j].id = Received(tail)[i].id
    BY <1>11, <2>1
  <2>3. ~(j \in 1..(i - 1))
    BY <1>13, <2>2 DEF FirstUnder
  <2>4. i \in 1..Len(stream)
    BY <1>2, <1>4, <2>3
  <2> QED BY <1>4, <1>11, <2>4
<1> QED
  BY <1>4, <1>7, <1>8, <1>10, <1>11, <1>12, <1>13

\* uniquifyToolCallIds() gives every call an id of its own, and leaves its id
\* to the first call under it.
LEMMA UniquifyFacts ==
  ASSUME NEW s \in Seq(CallType), \A i \in DOMAIN s : s[i].id[2] = 1
  PROVE  /\ uniquifyToolCallIds(s) \in Seq(CallType)
         /\ Len(uniquifyToolCallIds(s)) = Len(s)
         /\ \A i \in DOMAIN s : uniquifyToolCallIds(s)[i].id[1] = s[i].id[1]
         /\ \A i, j \in DOMAIN s :
              uniquifyToolCallIds(s)[i].id = uniquifyToolCallIds(s)[j].id => i = j
         /\ \A i \in DOMAIN s : uniquifyToolCallIds(s)[i].id[2] = 1 =>
              uniquifyToolCallIds(s)[i] = s[i] /\ FirstUnder(s, i)
<1> DEFINE r == uniquifyToolCallIds(s)
           Before(i) == {j \in 1..(i - 1) : s[j].id = s[i].id}
<1>1. DOMAIN s = 1..Len(s) /\ Len(s) \in Nat /\ \A i \in 1..Len(s) : s[i] \in CallType
  BY LenProperties, ElementOfSeq
<1>2. \A i \in 1..Len(s) : IsFiniteSet(Before(i)) /\ Cardinality(Before(i)) \in Nat
  <2> SUFFICES ASSUME NEW i \in 1..Len(s)
               PROVE  IsFiniteSet(Before(i)) /\ Cardinality(Before(i)) \in Nat
    OBVIOUS
  <2>1. i - 1 \in Int
    BY <1>1
  <2>2. IsFiniteSet(1..(i - 1))
    BY <2>1, FS_Interval
  <2>3. IsFiniteSet(Before(i))
    BY <2>2, FS_Subset
  <2> QED
    BY <2>3, FS_CardinalityType
<1>3. \A i \in 1..Len(s) :
        r[i] = [s[i] EXCEPT !.id = <<s[i].id[1], 1 + Cardinality(Before(i))>>]
  BY <1>1 DEF uniquifyToolCallIds
<1>4. DOMAIN r = 1..Len(s)
  BY <1>1 DEF uniquifyToolCallIds
<1> HIDE DEF r, Before
<1>5. \A i \in 1..Len(s) :
        /\ r[i].key = s[i].key
        /\ r[i].id = <<s[i].id[1], 1 + Cardinality(Before(i))>>
        /\ r[i] \in CallType
  <2> SUFFICES ASSUME NEW i \in 1..Len(s)
               PROVE  /\ r[i].key = s[i].key
                      /\ r[i].id = <<s[i].id[1], 1 + Cardinality(Before(i))>>
                      /\ r[i] \in CallType
    OBVIOUS
  <2>1. PICK n \in Nat : n = 1 + Cardinality(Before(i))
    BY <1>2
  <2>2. s[i] \in CallType
    BY <1>1
  <2>3. PICK m \in Nat : m = s[i].id[1]
    BY <2>2 DEF CallType, IdType
  <2>4. r[i] = [s[i] EXCEPT !.id = <<m, n>>]
    BY <1>3, <2>1, <2>3
  <2>5. <<m, n>> \in IdType
    BY DEF IdType
  <2>6. r[i] = [id |-> <<m, n>>, key |-> s[i].key]
    BY <2>2, <2>4 DEF CallType
  <2> QED
    BY <2>1, <2>2, <2>3, <2>5, <2>6 DEF CallType
<1>6. r \in Seq(CallType) /\ Len(r) = Len(s)
  <2>1. r = [i \in 1..Len(s) |-> r[i]]
    BY <1>4 DEF r, uniquifyToolCallIds
  <2>2. r \in [1..Len(s) -> CallType]
    BY <1>5, <2>1
  <2> QED
    BY <1>1, <2>2, SeqDef, LenProperties
<1>11. \A i \in 1..Len(s) : r[i].id[1] = s[i].id[1]
  BY <1>5
<1>7. \A i \in 1..Len(s) : s[i].id = <<s[i].id[1], 1>>
  BY <1>1 DEF CallType, IdType
<1>8. ASSUME NEW i \in 1..Len(s), NEW j \in 1..Len(s), i < j, r[i].id = r[j].id
      PROVE  FALSE
  <2>1. s[i].id = s[j].id /\ Cardinality(Before(i)) = Cardinality(Before(j))
    <3>1. PICK m, n : m = 1 + Cardinality(Before(i)) /\ n = 1 + Cardinality(Before(j))
      OBVIOUS
    <3>2. <<s[i].id[1], m>> = <<s[j].id[1], n>>
      BY <1>5, <1>8, <3>1
    <3>3. s[i].id[1] = s[j].id[1] /\ m = n
      BY <3>2
    <3>4. Cardinality(Before(i)) = Cardinality(Before(j))
      BY <1>2, <3>1, <3>3
    <3>5. s[i].id = s[j].id
      BY <1>7, <3>3
    <3> QED
      BY <3>4, <3>5
  <2>2. Before(i) \subseteq Before(j)
    BY <1>1, <1>8, <2>1 DEF Before
  <2>3. i \in Before(j) /\ i \notin Before(i)
    BY <1>1, <1>8, <2>1 DEF Before
  <2>4. Before(i) = Before(j)
    BY <1>2, <2>1, <2>2, FS_Subset
  <2> QED
    BY <2>3, <2>4
<1>9. \A i, j \in 1..Len(s) : r[i].id = r[j].id => i = j
  BY <1>1, <1>8
<1>10. ASSUME NEW i \in 1..Len(s), r[i].id[2] = 1
       PROVE  r[i] = s[i] /\ FirstUnder(s, i)
  <2>1. Cardinality(Before(i)) = 0
    <3>1. PICK n : n = 1 + Cardinality(Before(i))
      OBVIOUS
    <3>2. r[i].id = <<s[i].id[1], n>>
      BY <1>5, <3>1
    <3>3. n = 1
      BY <1>10, <3>2
    <3> QED
      BY <1>2, <3>1, <3>3
  <2>2. Before(i) = {}
    BY <1>2, <2>1, FS_EmptySet
  <2>3. FirstUnder(s, i)
    BY <2>2 DEF FirstUnder, Before
  <2>4. r[i].id = s[i].id
    <3>1. 1 + Cardinality(Before(i)) = 1
      BY <2>1
    <3> QED
      BY <1>5, <1>7, <3>1
  <2>5. r[i] = s[i]
    BY <1>1, <1>5, <2>4, SMTT(30) DEF CallType
  <2> QED
    BY <2>3, <2>5
<1> QED
  BY <1>1, <1>6, <1>9, <1>10, <1>11 DEF r

\* The response has ids of its own, or broke off with nothing in the runner; a
\* call under an id the runner knows is the first that was streamed under it.
LEMMA EndShape ==
  ASSUME RunnerOK, IdsOK, NEW tail \in Tails, NEW reason, StreamEnd(tail, reason)
  PROVE  /\ response' \in Seq(CallType) /\ Len(response') = Len(Received(tail))
         /\ DOMAIN response' = DOMAIN Received(tail)
         /\ Distinct' \/ Raw'
         /\ \A i \in DOMAIN response' : response'[i].id[1] = Received(tail)[i].id[1]
         /\ entries # << >> => \A i \in DOMAIN response' :
              response'[i].id[2] = 1 =>
                response'[i] = Received(tail)[i] /\ FirstUnder(Received(tail), i)
<1> DEFINE s == Received(tail)
<1>1. s \in Seq(CallType) /\ \A i \in DOMAIN s : s[i].id[2] = 1
  BY ReceivedFacts
<1>2. /\ response' = IF RecordedRaw(reason) THEN s ELSE uniquifyToolCallIds(s)
      /\ UNCHANGED entries
      /\ reason = "paused" => phase' \in {"sealed", "interrupted"}
  BY DEF StreamEnd, Received, runnerVars
<1> HIDE DEF s
<1>3. CASE RecordedRaw(reason)
  <2>1. response' = s /\ entries = << >>
    BY <1>2, <1>3 DEF RecordedRaw
  <2>2. Raw'
    BY <1>2, <1>3 DEF RecordedRaw, Raw, Ended
  <2> QED BY <1>1, <2>1, <2>2 DEF s
<1>4. CASE ~RecordedRaw(reason)
  <2>1. response' = uniquifyToolCallIds(s)
    BY <1>2, <1>4
  <2>2. /\ response' \in Seq(CallType) /\ Len(response') = Len(s)
        /\ \A i \in DOMAIN s : response'[i].id[1] = s[i].id[1]
        /\ \A i, j \in DOMAIN s : response'[i].id = response'[j].id => i = j
        /\ \A i \in DOMAIN s : response'[i].id[2] = 1 => response'[i] = s[i] /\ FirstUnder(s, i)
    BY <1>1, <2>1, UniquifyFacts
  <2>3. DOMAIN response' = DOMAIN s
    BY <1>1, <2>2, LenProperties
  <2>4. Distinct'
    BY <2>2, <2>3 DEF Distinct
  <2> QED BY <2>2, <2>3, <2>4 DEF s
<1> QED
  BY <1>3, <1>4

---------------------------------------------------------------------------
(* The tasks *)

\* Nothing moves in the scheduler, or a running tool settles or finishes.
Idles == UNCHANGED <<vars, taskVars>>
Works ==
  \/ \E t \in Tasks : settle(t) /\ UNCHANGED taskVars
  \/ \E t \in Tasks : finish(t) /\ EnterStartedTasks /\ UNCHANGED taskCall

\* What is known about tasks stays true while a step lasts.
TasksGrow ==
  /\ Tasks \subseteq Tasks' /\ executed \subseteq executed'
  /\ \A t \in Tasks : taskCall'[t] = taskCall[t]
  /\ \A t \in Tasks : TaskDone(t) => TaskDone(t)'

\* The scheduler goes on with the tasks it has.
LEMMA WorkFacts ==
  ASSUME IInv, RecordsOK, aborted \in BOOLEAN, Idles \/ Works
  PROVE  /\ IInv' /\ TasksGrow
         /\ UNCHANGED <<added, taskCall, Tasks>> /\ executed' \subseteq Tasks
         /\ aborted => executed' = executed
<1>1. executed \subseteq Tasks
  BY DEF RecordsOK
<1>2. CASE Idles
  <2>1. UNCHANGED <<added, accesses, activeTasks, queuedTasks, settled, taskCall, executed>>
    BY <1>2 DEF Idles, vars, taskVars
  <2>2. IInv' = IInv
    BY <2>1 DEF IInv, TypeOK, Disjoint, RunsExactlyUnblocked, Pending, Tasks
  <2>3. \A t : TaskDone(t)' = TaskDone(t)
    BY <2>1 DEF TaskDone, Pending
  <2> QED
    BY <1>1, <2>1, <2>2, <2>3 DEF TasksGrow, Tasks
<1>3. ASSUME NEW t \in Tasks, settle(t), UNCHANGED taskVars
      PROVE  /\ IInv' /\ TasksGrow
             /\ UNCHANGED <<added, taskCall, Tasks>> /\ executed' \subseteq Tasks
             /\ aborted => executed' = executed
  <2>1. IInv'
    BY <1>3, SettleIInv
  <2>2. /\ UNCHANGED <<added, activeTasks, queuedTasks, taskCall, executed>>
        /\ settled \subseteq settled'
    BY <1>3 DEF settle, taskVars
  <2>3. \A u : TaskDone(u) => TaskDone(u)'
    BY <2>2 DEF TaskDone, Pending
  <2> QED
    BY <1>1, <2>1, <2>2, <2>3 DEF TasksGrow, Tasks
<1>4. ASSUME NEW t \in Tasks, finish(t), EnterStartedTasks, UNCHANGED taskCall
      PROVE  /\ IInv' /\ TasksGrow
             /\ UNCHANGED <<added, taskCall, Tasks>> /\ executed' \subseteq Tasks
             /\ aborted => executed' = executed
  <2>1. IInv'
    BY <1>4, FinishIInv
  <2>2. /\ UNCHANGED added /\ settled' = settled \ {t} /\ t \in settled
        /\ activeTasks' \cup queuedTasks' \subseteq (activeTasks \ {t}) \cup queuedTasks
        /\ activeTasks' \subseteq Tasks
    BY <1>4, <2>1 DEF finish, Startable, IInv, TypeOK, Tasks
  <2>3. t \notin queuedTasks
    BY <2>2 DEF IInv, Disjoint, TypeOK
  <2>4. \A u : TaskDone(u) => TaskDone(u)'
    BY <2>2, <2>3 DEF TaskDone, Pending
  <2>5. /\ executed' \in {executed, executed \cup (activeTasks' \ activeTasks)}
        /\ aborted => executed' = executed
    BY <1>4 DEF EnterStartedTasks
  <2> QED
    BY <1>1, <1>4, <2>1, <2>2, <2>4, <2>5 DEF TasksGrow, Tasks
<1> QED
  BY <1>2, <1>3, <1>4 DEF Works

\* A call is handed to the scheduler.
LEMMA AddFacts ==
  ASSUME IInv, RecordsOK, NEW call \in CallType, AddTask(call)
  PROVE  /\ IInv' /\ TasksGrow
         /\ added' = added + 1 /\ added' \in Nat \ {0}
         /\ Tasks' = Tasks \cup {added'} /\ added' \notin Tasks
         /\ taskCall' \in Seq(CallType) /\ Len(taskCall') = added'
         /\ taskCall'[added'] = call
         /\ executed' \subseteq Tasks'
         /\ aborted => executed' = executed
<1>1. AccessOf[call.key] \in AccessLists /\ add(AccessOf[call.key])
  BY StepAssumption DEF CallType, AddTask
<1>2. IInv'
  BY <1>1, AddIInv
<1>3. added \in Nat /\ added' = added + 1
  BY <1>1, MaxTasksAssumption DEF add, IInv, TypeOK
<1>4. added' \in Nat \ {0} /\ Tasks' = Tasks \cup {added'} /\ added' \notin Tasks
  BY <1>3 DEF Tasks
<1>5. taskCall \in Seq(CallType) /\ Len(taskCall) = added /\ taskCall' = Append(taskCall, call)
  BY DEF RecordsOK, AddTask
<1>6. /\ taskCall' \in Seq(CallType) /\ Len(taskCall') = added + 1
      /\ \A i \in 1..added : taskCall'[i] = taskCall[i]
      /\ taskCall'[added + 1] = call
  BY <1>5, AppendProperties
<1>7. /\ activeTasks' \cup queuedTasks' = activeTasks \cup queuedTasks \cup {added'}
      /\ settled' = settled
      /\ activeTasks' \subseteq Tasks'
  BY <1>1, <1>2, <1>3 DEF add, IInv, TypeOK
<1>8. \A t \in Tasks : TaskDone(t) => TaskDone(t)'
  BY <1>4, <1>7 DEF TaskDone, Pending
<1>9. /\ executed' \in {executed, executed \cup (activeTasks' \ activeTasks)}
      /\ aborted => executed' = executed
  BY DEF AddTask, EnterStartedTasks
<1>10. executed \subseteq Tasks
  BY DEF RecordsOK
<1>11. TasksGrow
  BY <1>4, <1>6, <1>8, <1>9 DEF TasksGrow, Tasks
<1> QED
  BY <1>2, <1>3, <1>4, <1>6, <1>7, <1>9, <1>10, <1>11

---------------------------------------------------------------------------
(* The entries *)

\* The i-th entry becomes e, and no other one changes.
Becomes(i, e) ==
  /\ i \in DOMAIN entries /\ e \in EntryType /\ e.call = entries[i].call
  /\ entries' \in Seq(EntryType) /\ DOMAIN entries' = DOMAIN entries
  /\ \A j \in DOMAIN entries : entries'[j] = IF j = i THEN e ELSE entries[j]

\* An entry is replaced.
LEMMA BecomesFacts ==
  ASSUME entries \in Seq(EntryType), NEW i \in DOMAIN entries, NEW e \in EntryType,
         e.call = entries[i].call, entries' = [entries EXCEPT ![i] = e]
  PROVE  Becomes(i, e)
<1>1. DOMAIN entries = 1..Len(entries)
  BY LenProperties
<1>2. /\ entries' \in Seq(EntryType) /\ Len(entries') = Len(entries)
      /\ \A j \in 1..Len(entries) : entries'[j] = IF j = i THEN e ELSE entries[j]
  BY <1>1, ExceptSeq
<1>3. DOMAIN entries' = 1..Len(entries)
  BY <1>2, LenProperties
<1> QED
  BY <1>1, <1>2, <1>3 DEF Becomes

\* The chain reaches its first entry: nothing else may execute the key of an
\* entry that goes on, and only one without effects goes on at once.
Prepares(i, e) ==
  /\ Becomes(i, e) /\ entries[i].st = "queued" /\ e.task = entries[i].task
  /\ e.st \in {"skipped", "settled", "authorizing", "deferred"}
  /\ e.st = "authorizing" => isStreamingEligible(e.call.key)
  /\ dedup' \in {dedup, checkSameStep(dedup, e.call)}
  /\ e.st \in {"authorizing", "deferred"} =>
       /\ dedup' = checkSameStep(dedup, e.call)
       /\ ~IsDuplicate(dedup', e.call)

\* This is what prepareOne does to the entries.
LEMMA PrepareShape ==
  ASSUME RunnerOK, prepareOne
  PROVE  \E i, e : Prepares(i, e)
<1> DEFINE queued == {k \in DOMAIN entries : entries[k].st = "queued"}
           At(i, st, o) == entries' = [entries EXCEPT ![i].st = st, ![i].out = o]
           Checked(i) == checkSameStep(dedup, entries[i].call)
           Out(i) == PrepareOutcome(Checked(i), entries[i].call)
<1>1. PICK i \in FirstOf(queued) :
        \/ At(i, "skipped", "placeholder") /\ UNCHANGED dedup
        \/ At(i, "settled", "blocked") /\ UNCHANGED dedup
        \/ Out(i) # "runnable" /\ At(i, "settled", Out(i)) /\ dedup' = Checked(i)
        \/ /\ Out(i) = "runnable"
           /\ At(i, IF isStreamingEligible(entries[i].call.key) THEN "authorizing" ELSE "deferred",
                 "placeholder")
           /\ dedup' = Checked(i)
  BY Zenon DEF prepareOne
<1>2. i \in DOMAIN entries /\ entries[i].st = "queued"
  BY DEF FirstOf
<1>3. entries \in Seq(EntryType) /\ entries[i] \in EntryType
  BY <1>2, LenProperties, ElementOfSeq DEF RunnerOK
<1>4. ASSUME NEW st \in EntryStates, NEW o \in Known, At(i, st, o)
      PROVE  \E e : /\ Becomes(i, e) /\ e.st = st /\ e.task = entries[i].task
                    /\ e.call = entries[i].call
  <2> DEFINE e == [entries[i] EXCEPT !.st = st, !.out = o]
  <2>1. /\ e \in EntryType /\ e.call = entries[i].call /\ e.st = st
        /\ e.task = entries[i].task
    BY <1>3 DEF EntryType
  <2>2. entries' = [entries EXCEPT ![i] = e]
    BY <1>2, <1>3, <1>4
  <2> HIDE DEF e
  <2>3. Becomes(i, e)
    BY <1>2, <1>3, <2>1, <2>2, BecomesFacts
  <2> QED
    BY <2>1, <2>3
<1>5. Out(i) \in Known \cup {"runnable"}
  BY DEF PrepareOutcome, Known
<1>6. Out(i) = "runnable" => ~IsDuplicate(Checked(i), entries[i].call)
  BY DEF PrepareOutcome
<1>7. EntryStates = {"queued", "authorizing", "skipped", "settled", "deferred", "started"}
      /\ "placeholder" \in Known /\ "blocked" \in Known
  BY DEF EntryStates, Known
<1> HIDE DEF At, Out, Checked
<1>8. CASE At(i, "skipped", "placeholder") /\ UNCHANGED dedup
  <2>1. PICK e : Becomes(i, e) /\ e.st = "skipped" /\ e.task = entries[i].task
                 /\ e.call = entries[i].call
    BY <1>4, <1>7, <1>8
  <2> QED
    BY <1>2, <1>8, <2>1 DEF Prepares
<1>9. CASE At(i, "settled", "blocked") /\ UNCHANGED dedup
  <2>1. PICK e : Becomes(i, e) /\ e.st = "settled" /\ e.task = entries[i].task
                 /\ e.call = entries[i].call
    BY <1>4, <1>7, <1>9
  <2> QED
    BY <1>2, <1>9, <2>1 DEF Prepares
<1>10. CASE Out(i) # "runnable" /\ At(i, "settled", Out(i)) /\ dedup' = Checked(i)
  <2>1. PICK e : Becomes(i, e) /\ e.st = "settled" /\ e.task = entries[i].task
                 /\ e.call = entries[i].call
    BY <1>4, <1>5, <1>7, <1>10
  <2> QED
    BY <1>2, <1>10, <2>1 DEF Prepares, Checked
<1>11. CASE /\ Out(i) = "runnable"
            /\ At(i, IF isStreamingEligible(entries[i].call.key) THEN "authorizing" ELSE "deferred",
                  "placeholder")
            /\ dedup' = Checked(i)
  <2>1. CASE isStreamingEligible(entries[i].call.key)
    <3>1. PICK e : Becomes(i, e) /\ e.st = "authorizing" /\ e.task = entries[i].task
                   /\ e.call = entries[i].call
      BY <1>4, <1>7, <1>11, <2>1
    <3> QED
      BY <1>2, <1>6, <1>11, <2>1, <3>1 DEF Prepares, Checked
  <2>2. CASE ~isStreamingEligible(entries[i].call.key)
    <3>1. PICK e : Becomes(i, e) /\ e.st = "deferred" /\ e.task = entries[i].task
                   /\ e.call = entries[i].call
      BY <1>4, <1>7, <1>11, <2>2
    <3> QED
      BY <1>2, <1>6, <1>11, <3>1 DEF Prepares, Checked
  <2> QED
    BY <2>1, <2>2
<1> QED
  BY <1>1, <1>8, <1>9, <1>10, <1>11

\* The hook of an entry answers: the entry has a task from now on, or is settled.
HookAnswers(i, e) ==
  /\ Becomes(i, e) /\ entries[i].st = "authorizing"
  /\ \/ AddTask(e.call) /\ e.st = "started" /\ e.task = added'
     \/ Idles /\ e.st = "settled" /\ e.task = entries[i].task

\* This is what chainAuthorized does to the entries.
LEMMA AuthorizedShape ==
  ASSUME RunnerOK, IInv, RecordsOK, NEW answer \in Answers, chainAuthorized(answer)
  PROVE  \E i, e : HookAnswers(i, e)
<1>1. PICK i \in DOMAIN entries :
        /\ entries[i].st = "authorizing"
        /\ answer \in Authorizations(entries[i].call.key)
        /\ IF answer = "allow"
             THEN /\ AddTask(entries[i].call)
                  /\ entries' = [entries EXCEPT ![i].st = "started", ![i].task = added']
             ELSE /\ entries' = [entries EXCEPT ![i].st = "settled", ![i].out = answer,
                                                ![i].stops = (answer = "stop")]
                  /\ UNCHANGED <<vars, taskVars>>
  BY DEF chainAuthorized
<1>2. entries \in Seq(EntryType) /\ entries[i] \in EntryType
  BY LenProperties, ElementOfSeq DEF RunnerOK
<1>3. entries[i].call \in CallType
  BY <1>2 DEF EntryType
<1>4. CASE answer = "allow"
  <2>1. AddTask(entries[i].call) /\ entries' = [entries EXCEPT ![i].st = "started", ![i].task = added']
    BY <1>1, <1>4
  <2>2. added' \in Nat
    BY <1>3, <2>1, AddFacts
  <2>3. PICK n \in Nat : n = added'
    BY <2>2
  <2> DEFINE e == [entries[i] EXCEPT !.st = "started", !.task = n]
  <2>4. e \in EntryType /\ e.call = entries[i].call /\ e.st = "started" /\ e.task = n
    BY <1>2 DEF EntryType, EntryStates
  <2>5. entries' = [entries EXCEPT ![i] = e]
    BY <1>2, <2>1, <2>3
  <2> HIDE DEF e
  <2>6. Becomes(i, e)
    BY <1>2, <2>4, <2>5, BecomesFacts
  <2> QED
    BY <1>1, <2>1, <2>3, <2>4, <2>6 DEF HookAnswers
<1>5. CASE answer # "allow"
  <2>1. /\ entries' = [entries EXCEPT ![i].st = "settled", ![i].out = answer,
                                      ![i].stops = (answer = "stop")]
        /\ Idles
    BY <1>1, <1>5 DEF Idles
  <2>2. answer \in Known
    BY <1>5 DEF Answers, Known
  <2>3. PICK b \in BOOLEAN : b = (answer = "stop")
    OBVIOUS
  <2> DEFINE e == [entries[i] EXCEPT !.st = "settled", !.out = answer, !.stops = b]
  <2>4. e \in EntryType /\ e.call = entries[i].call /\ e.st = "settled" /\ e.task = entries[i].task
    BY <1>2, <2>2 DEF EntryType, EntryStates
  <2>5. entries' = [entries EXCEPT ![i] = e]
    BY <1>2, <2>1, <2>3
  <2> HIDE DEF e
  <2>6. Becomes(i, e)
    BY <1>2, <2>4, <2>5, BecomesFacts
  <2> QED
    BY <1>1, <2>1, <2>4, <2>6 DEF HookAnswers
<1> QED
  BY <1>4, <1>5

---------------------------------------------------------------------------
(* The types *)

Typed == IInv /\ RunnerOK /\ RecordsOK /\ IdsOK

\* An element of a log, a response, the entries or the pending results.
LEMMA Elements ==
  ASSUME Typed
  PROVE  /\ DOMAIN entries = 1..Len(entries) /\ DOMAIN stream = 1..Len(stream)
         /\ DOMAIN response = 1..Len(response) /\ DOMAIN pending = 1..Len(pending)
         /\ DOMAIN calls = 1..Len(calls) /\ DOMAIN results = 1..Len(results)
         /\ Len(entries) \in Nat /\ Len(stream) \in Nat /\ Len(response) \in Nat
         /\ Len(pending) \in Nat /\ Len(calls) \in Nat /\ Len(results) \in Nat
         /\ \A i \in DOMAIN entries : entries[i] \in EntryType /\ entries[i].call \in CallType
         /\ \A i \in DOMAIN response : response[i] \in CallType
         /\ \A i \in DOMAIN stream : stream[i] \in CallType
         /\ \A i \in DOMAIN pending : pending[i] \in [out : Known, task : Nat]
         /\ \A t \in Tasks : taskCall[t] \in CallType
         /\ added \in Nat
<1>1. /\ entries \in Seq(EntryType) /\ stream \in Seq(CallType) /\ response \in Seq(CallType)
      /\ pending \in Seq([out : Known, task : Nat])
      /\ calls \in Seq(IdType) /\ results \in Seq([id : IdType, out : DeferredStates])
      /\ taskCall \in Seq(CallType) /\ Len(taskCall) = added
  BY DEF Typed, RunnerOK, RecordsOK
<1>2. \A i \in DOMAIN entries : entries[i] \in EntryType /\ entries[i].call \in CallType
  <2>1. \A i \in DOMAIN entries : entries[i] \in EntryType
    BY <1>1, LenProperties, ElementOfSeq
  <2> QED
    BY <2>1 DEF EntryType
<1>3. added \in Nat
  BY MaxTasksAssumption DEF Typed, IInv, TypeOK
<1>4. \A t \in Tasks : taskCall[t] \in CallType
  BY <1>1, <1>3, LenProperties, ElementOfSeq DEF Tasks
<1> QED
  BY <1>1, <1>2, <1>3, <1>4, LenProperties, ElementOfSeq

\* What an entry is finalized with is an outcome.
LEMMA EntryOutcomes ==
  ASSUME Typed, NEW i \in DOMAIN entries, NEW other \in {"discarded", "unexecuted"}
  PROVE  EntryOutcome(entries[i], other) \in Outcomes
<1>1. entries[i].out \in Known
  BY Elements DEF EntryType
<1> QED
  BY <1>1 DEF EntryOutcome, TaskOutcome, Outcomes, Known

\* The id of a streamed call is one of Nat.
LEMMA ProviderIdsTyped ==
  ASSUME Typed, NEW n \in ProviderIds
  PROVE  n \in Nat /\ n <= nextId /\ (n # nextId => \E i \in DOMAIN stream : stream[i].id[1] = n)
<1>1. nextId \in Nat
  BY DEF Typed, RunnerOK
<1>2. CASE n = nextId
  BY <1>1, <1>2
<1>3. CASE n # nextId
  <2>1. PICK i \in DOMAIN stream : n = stream[i].id[1]
    BY <1>3 DEF ProviderIds
  <2>2. stream[i].id \in IdType /\ stream[i].id[1] < nextId
    BY Elements DEF CallType, Typed, IdsOK
  <2> QED
    BY <1>1, <2>1, <2>2 DEF IdType
<1> QED
  BY <1>2, <1>3

\* The next step starts with everything empty but the ids.
LEMMA NextStepFacts ==
  ASSUME NextStep
  PROVE  /\ phase' = "streaming" /\ stream' = << >> /\ response' = << >> /\ entries' = << >>
         /\ dedup' = NoDedup /\ authorizing' = FALSE /\ pending' = << >>
         /\ calls' = << >> /\ results' = << >> /\ taskCall' = << >> /\ executed' = {}
         /\ added' = 0 /\ accesses' = << >> /\ activeTasks' = {} /\ queuedTasks' = {}
         /\ settled' = {} /\ nextId' = nextId /\ aborted' = aborted
         /\ phase = "sealed" \/ (phase = "streaming" /\ ~aborted)
         /\ opened' = {} /\ buffered' = {} /\ shown' = {}
BY DEF NextStep, beginStep

\* Nothing of what the types speak of is there yet.
LEMMA EmptyTyped ==
  ASSUME phase = "streaming", stream = << >>, response = << >>, entries = << >>,
         dedup = NoDedup, authorizing = FALSE, pending = << >>, calls = << >>,
         results = << >>, taskCall = << >>, executed = {}, added = 0, accesses = << >>,
         activeTasks = {}, queuedTasks = {}, settled = {}, nextId \in Nat, aborted \in BOOLEAN
  PROVE  IInv /\ RunnerOK /\ RecordsOK
<1>1. IInv
  BY InitIInv DEF Init
<1>2. IsDedup(NoDedup)
  BY DEF IsDedup, NoDedup, DeferredStates
<1>3. RunnerOK
  BY <1>2, EmptySeq DEF RunnerOK, Phases
<1>4. RecordsOK
  BY EmptySeq, LenProperties DEF RecordsOK
<1> QED
  BY <1>1, <1>3, <1>4

\* A step that leaves the variables of a part of the invariant alone keeps it.
LEMMA RunnerKept ==
  ASSUME RunnerOK, UNCHANGED <<phase, nextId, stream, response, entries, dedup>>
  PROVE  RunnerOK'
BY DEF RunnerOK

\* The same for the records.
LEMMA RecordsKept ==
  ASSUME RecordsOK, IInv, Idles \/ Works,
         UNCHANGED <<authorizing, aborted, pending, calls, results>>
  PROVE  RecordsOK'
<1>1. UNCHANGED <<added, taskCall, Tasks>> /\ executed' \subseteq Tasks
  BY WorkFacts DEF RecordsOK
<1> QED
  BY <1>1 DEF RecordsOK

\* A call is recorded with an outcome or a task.
LEMMA RecordTyped ==
  ASSUME Typed, NEW call \in CallType, NEW out \in Known, NEW task \in Nat,
         Record(call, out, task)
  PROVE  /\ calls' \in Seq(IdType) /\ pending' \in Seq([out : Known, task : Nat])
         /\ results' = results
         /\ Len(calls') = Len(calls) + 1 /\ Len(pending') = Len(pending) + 1
         /\ \A i \in 1..Len(calls) : calls'[i] = calls[i]
         /\ calls'[Len(calls) + 1] = call.id
         /\ \A i \in 1..Len(pending) : pending'[i] = pending[i]
         /\ pending'[Len(pending) + 1] = [out |-> out, task |-> task]
<1>1. call.id \in IdType /\ [out |-> out, task |-> task] \in [out : Known, task : Nat]
  BY DEF CallType
<1>2. calls \in Seq(IdType) /\ pending \in Seq([out : Known, task : Nat])
  BY DEF Typed, RecordsOK
<1>3. /\ calls' = Append(calls, call.id) /\ results' = results
      /\ pending' = Append(pending, [out |-> out, task |-> task])
  BY DEF Record
<1>4. /\ calls' \in Seq(IdType) /\ Len(calls') = Len(calls) + 1
      /\ \A i \in 1..Len(calls) : calls'[i] = calls[i]
      /\ calls'[Len(calls) + 1] = call.id
  BY <1>1, <1>2, <1>3, AppendProperties
<1>5. PICK p \in [out : Known, task : Nat] : p = [out |-> out, task |-> task]
  BY <1>1
<1>6. /\ pending' \in Seq([out : Known, task : Nat]) /\ Len(pending') = Len(pending) + 1
      /\ \A i \in 1..Len(pending) : pending'[i] = pending[i]
      /\ pending'[Len(pending) + 1] = p
  BY <1>2, <1>3, <1>5, AppendProperties
<1> QED
  BY <1>3, <1>4, <1>5, <1>6

\* A result is dispatched.
LEMMA ResultTyped ==
  ASSUME Typed, NEW call \in CallType, NEW out \in DeferredStates,
         results' = Append(results, [id |-> call.id, out |-> out])
  PROVE  /\ results' \in Seq([id : IdType, out : DeferredStates])
         /\ Len(results') = Len(results) + 1
         /\ \A i \in 1..Len(results) : results'[i] = results[i]
         /\ results'[Len(results) + 1] = [id |-> call.id, out |-> out]
<1>1. [id |-> call.id, out |-> out] \in [id : IdType, out : DeferredStates]
  BY DEF CallType
<1>2. results \in Seq([id : IdType, out : DeferredStates])
  BY DEF Typed, RecordsOK
<1>3. PICK p \in [id : IdType, out : DeferredStates] : p = [id |-> call.id, out |-> out]
  BY <1>1
<1> QED
  BY <1>2, <1>3, AppendProperties

\* addReady() adds an entry for an id that has none.
Adds(call) ==
  \/ EntryOf(call) # {} /\ UNCHANGED entries
  \/ EntryOf(call) = {} /\ \E e \in EntryType :
       /\ e.call = call /\ e.st \in {"queued", "skipped"} /\ e.task = 0
       /\ entries' \in Seq(EntryType) /\ DOMAIN entries' = 1..(Len(entries) + 1)
       /\ \A i \in 1..Len(entries) : entries'[i] = entries[i]
       /\ entries'[Len(entries) + 1] = e

\* This is what StreamCall does to the entries.
LEMMA AddReadyShape ==
  ASSUME Typed, NEW call \in CallType, addReady(call)
  PROVE  Adds(call)
<1>1. CASE EntryOf(call) # {}
  BY <1>1 DEF addReady, Adds
<1>2. CASE EntryOf(call) = {}
  <2> DEFINE st == IF stopped THEN "skipped" ELSE "queued"
             e == NewEntry(call, st, "placeholder", FALSE)
  <2>1. entries' = Append(entries, e)
    BY <1>2 DEF addReady
  <2>2. e \in EntryType /\ e.call = call /\ e.st \in {"queued", "skipped"} /\ e.task = 0
    BY DEF NewEntry, EntryType, EntryStates, Known
  <2> HIDE DEF e
  <2>3. entries \in Seq(EntryType)
    BY DEF Typed, RunnerOK
  <2>4. /\ entries' \in Seq(EntryType) /\ Len(entries') = Len(entries) + 1
        /\ \A i \in 1..Len(entries) : entries'[i] = entries[i]
        /\ entries'[Len(entries) + 1] = e
    BY <2>1, <2>2, <2>3, AppendProperties
  <2>5. DOMAIN entries' = 1..(Len(entries) + 1)
    BY <2>4, LenProperties
  <2> QED
    BY <1>2, <2>2, <2>4, <2>5 DEF Adds
<1> QED
  BY <1>1, <1>2

\* The call the batch is at is one of the response.
LEMMA AtCallFacts ==
  ASSUME Typed, NEW call, AtCall(call)
  PROVE  /\ Len(pending) + 1 \in DOMAIN response /\ call = response[Len(pending) + 1]
         /\ call \in CallType /\ Orphans = {}
<1>1. Len(pending) + 1 \in 1..Len(response)
  BY Elements DEF AtCall
<1> QED
  BY <1>1, Elements DEF AtCall

\* Every step preserves the types.
LEMMA TypesStep ==
  ASSUME Typed, [StepNext]_allVars
  PROVE  IInv' /\ RunnerOK' /\ RecordsOK'
<1> USE DEF vars, runnerVars, streamVars, batchVars, logVars, taskVars, gateVars
<1>1. IInv /\ RunnerOK /\ RecordsOK /\ IdsOK
  BY DEF Typed
<1>2. ASSUME Idles \/ Works, UNCHANGED <<authorizing, aborted, pending, calls, results>>
      PROVE  IInv' /\ RecordsOK'
  BY <1>1, <1>2, WorkFacts, RecordsKept DEF RecordsOK
<1>3. ASSUME NEW key \in Key, NEW n \in ProviderIds, StreamCall(key, n)
      PROVE  IInv' /\ RunnerOK' /\ RecordsOK'
  <2> DEFINE call == [id |-> <<n, 1>>, key |-> key]
  <2>1. call \in CallType /\ n \in Nat
    BY <1>3, ProviderIdsTyped DEF CallType, IdType
  <2>2. addReady(call) /\ stream' = Append(stream, call) /\ nextId' \in {nextId, nextId + 1}
        /\ UNCHANGED <<phase, response, dedup>>
    BY <1>3 DEF StreamCall
  <2> HIDE DEF call
  <2>3. Adds(call)
    BY <2>1, <2>2, AddReadyShape
  <2>4. entries' \in Seq(EntryType)
    BY <1>1, <2>3 DEF Adds, RunnerOK
  <2>5. stream' \in Seq(CallType)
    BY <1>1, <2>1, <2>2, AppendProperties DEF RunnerOK
  <2>6. RunnerOK'
    BY <1>1, <2>2, <2>4, <2>5 DEF RunnerOK
  <2>7. IInv' /\ RecordsOK'
    BY <1>2, <1>3 DEF StreamCall, Idles
  <2> QED
    BY <2>6, <2>7
<1>4. ASSUME NEW tail \in Tails, NEW reason \in {"tool_calls", "paused", "filtered"},
             StreamEnd(tail, reason)
      PROVE  IInv' /\ RunnerOK' /\ RecordsOK'
  <2>1. tail \in Seq(CallType)
    BY <1>1, ReceivedFacts
  <2>2. response' \in Seq(CallType)
    BY <1>1, <1>4, EndShape
  <2>3. /\ nextId' = nextId + Len(tail)
        /\ UNCHANGED <<stream, entries, dedup>>
    BY <1>4 DEF StreamEnd
  <2>4. phase' \in Phases
    BY <1>4 DEF StreamEnd, Phases, Ended
  <2>5. nextId' \in Nat
    BY <1>1, <2>1, <2>3, LenProperties DEF RunnerOK
  <2>6. RunnerOK'
    BY <1>1, <2>2, <2>3, <2>4, <2>5 DEF RunnerOK
  <2>7. IInv' /\ RecordsOK'
    BY <1>2, <1>4 DEF StreamEnd, Idles
  <2> QED
    BY <2>6, <2>7
<1>5. ASSUME AttemptFails PROVE IInv' /\ RunnerOK' /\ RecordsOK'
  <2>1. RunnerOK'
    BY <1>1, <1>5, EmptySeq DEF AttemptFails, RunnerOK
  <2>2. IInv' /\ RecordsOK'
    BY <1>2, <1>5 DEF AttemptFails, Idles
  <2> QED
    BY <2>1, <2>2
<1>6. ASSUME NextStep PROVE IInv' /\ RunnerOK' /\ RecordsOK'
  <2>1. nextId \in Nat /\ aborted \in BOOLEAN
    BY <1>1 DEF RunnerOK, RecordsOK
  <2>2. /\ phase' = "streaming" /\ stream' = << >> /\ response' = << >> /\ entries' = << >>
        /\ dedup' = NoDedup /\ authorizing' = FALSE /\ pending' = << >>
        /\ calls' = << >> /\ results' = << >> /\ taskCall' = << >> /\ executed' = {}
        /\ added' = 0 /\ accesses' = << >> /\ activeTasks' = {} /\ queuedTasks' = {}
        /\ settled' = {} /\ nextId' \in Nat /\ aborted' \in BOOLEAN
    BY <1>6, <2>1, NextStepFacts
  <2>3. IInv'
    BY <2>2, MaxTasksAssumption DEF IInv, TypeOK, Disjoint, RunsExactlyUnblocked, Pending, Tasks
  <2>4. IsDedup(NoDedup)
    BY DEF IsDedup, NoDedup, DeferredStates
  <2>5. RunnerOK'
    BY <2>2, <2>4, EmptySeq DEF RunnerOK, Phases
  <2>6. RecordsOK'
    BY <2>2, EmptySeq, LenProperties DEF RecordsOK
  <2> QED
    BY <2>3, <2>5, <2>6
<1>7. ASSUME RequestEnds \/ seal PROVE IInv' /\ RunnerOK' /\ RecordsOK'
  <2>1. RunnerOK'
    BY <1>1, <1>7 DEF RequestEnds, seal, RunnerOK, Phases, Ended
  <2>2. IInv' /\ RecordsOK'
    BY <1>2, <1>7 DEF RequestEnds, seal, Idles
  <2> QED
    BY <2>1, <2>2
<1>8. ASSUME prepareOne PROVE IInv' /\ RunnerOK' /\ RecordsOK'
  <2>1. PICK i, e : Prepares(i, e)
    BY <1>1, <1>8, PrepareShape
  <2>2. entries' \in Seq(EntryType) /\ dedup' \in {dedup, checkSameStep(dedup, e.call)}
    BY <2>1 DEF Prepares, Becomes
  <2>3. IsDedup(dedup')
    BY <1>1, <2>2, CheckFacts DEF RunnerOK
  <2>4. RunnerOK'
    BY <1>1, <1>8, <2>2, <2>3 DEF prepareOne, RunnerOK
  <2>5. IInv' /\ RecordsOK'
    BY <1>2, <1>8 DEF prepareOne, Idles
  <2> QED
    BY <2>4, <2>5
<1>9. ASSUME NEW answer \in Answers, chainAuthorized(answer)
      PROVE  IInv' /\ RunnerOK' /\ RecordsOK'
  <2>1. PICK i, e : HookAnswers(i, e)
    BY <1>1, <1>9, AuthorizedShape
  <2>2. entries' \in Seq(EntryType) /\ e.call \in CallType
    BY <2>1 DEF HookAnswers, Becomes, EntryType
  <2>3. UNCHANGED <<streamVars, batchVars, logVars, phase, dedup, aborted>>
    BY <1>9 DEF chainAuthorized
  <2>4. RunnerOK'
    BY <1>1, <2>2, <2>3 DEF RunnerOK
  <2>5. CASE AddTask(e.call)
    <3>1. /\ IInv' /\ taskCall' \in Seq(CallType) /\ Len(taskCall') = added'
          /\ executed' \subseteq Tasks'
      BY <1>1, <2>2, <2>5, AddFacts
    <3> QED
      BY <1>1, <2>3, <2>4, <3>1 DEF RecordsOK
  <2>6. CASE Idles
    BY <1>2, <2>3, <2>4, <2>6
  <2> QED
    BY <2>1, <2>5, <2>6 DEF HookAnswers
<1>10. ASSUME LeftoverPrepares PROVE IInv' /\ RunnerOK' /\ RecordsOK'
  <2>1. dedup' \in {dedup, checkSameStep(dedup, Head(leftover))}
    BY <1>10 DEF LeftoverPrepares
  <2>2. IsDedup(dedup')
    BY <1>1, <2>1, CheckFacts DEF RunnerOK
  <2>3. RunnerOK'
    BY <1>1, <1>10, <2>2 DEF LeftoverPrepares, RunnerOK
  <2>4. IInv' /\ RecordsOK'
    BY <1>2, <1>10 DEF LeftoverPrepares, Idles
  <2> QED
    BY <2>3, <2>4
<1>11. ASSUME drainOrphan PROVE IInv' /\ RunnerOK' /\ RecordsOK'
  <2>1. PICK i \in DOMAIN entries :
          /\ dedup' = IF entries[i].st = "skipped" THEN dedup
                      ELSE finalizeResult(dedup, entries[i].call,
                                          EntryOutcome(entries[i], "discarded"))
          /\ entries' = Without(entries[i].call)
    BY <1>11 DEF drainOrphan, FirstOf, Orphans
  <2>2. entries[i].call \in CallType /\ entries[i].call.key \in Key
    BY Elements DEF CallType
  <2>3. IsDedup(dedup')
    BY <1>1, <2>1, <2>2, EntryOutcomes, FinalizeFacts DEF RunnerOK
  <2>4. entries' \in Seq(EntryType)
    BY <1>1, <2>1, WithoutFacts
  <2>5. RunnerOK'
    BY <1>1, <1>11, <2>3, <2>4 DEF drainOrphan, RunnerOK
  <2>6. IInv' /\ RecordsOK'
    BY <1>2, <1>11 DEF drainOrphan, Idles
  <2> QED
    BY <2>5, <2>6
<1>12. ASSUME NEW c \in DOMAIN response, materialize(response[c])
       PROVE  IInv' /\ RunnerOK' /\ RecordsOK'
  <2>1. PICK i \in EntryOf(response[c]) :
          \/ authorizing' = TRUE /\ UNCHANGED <<entries, logVars, pending, stopTurn, phase>>
          \/ /\ Record(response[c], IF entries[i].st = "skipped" THEN "skipped" ELSE entries[i].out,
                       entries[i].task)
             /\ phase' \in {phase, "skipping"} /\ entries' = Without(response[c])
             /\ UNCHANGED authorizing
    BY <1>12 DEF materialize, StopBatchIf
  <2>2. i \in DOMAIN entries /\ entries[i].out \in Known /\ entries[i].task \in Nat
    BY Elements DEF EntryOf, EntryType
  <2>3. UNCHANGED <<vars, streamVars, taskVars, dedup, aborted>>
    BY <1>12 DEF materialize
  <2>4. IInv'
    BY <1>1, <2>3, WorkFacts DEF Idles, RecordsOK
  <2>5. CASE authorizing' = TRUE /\ UNCHANGED <<entries, logVars, pending, stopTurn, phase>>
    BY <1>1, <2>3, <2>4, <2>5 DEF RunnerOK, RecordsOK, Tasks
  <2>6. CASE /\ Record(response[c], IF entries[i].st = "skipped" THEN "skipped" ELSE entries[i].out,
                       entries[i].task)
             /\ phase' \in {phase, "skipping"} /\ entries' = Without(response[c])
             /\ UNCHANGED authorizing
    <3>1. PICK out \in Known :
            out = IF entries[i].st = "skipped" THEN "skipped" ELSE entries[i].out
      BY <2>2 DEF Known
    <3>2. /\ calls' \in Seq(IdType) /\ pending' \in Seq([out : Known, task : Nat])
          /\ results' = results
      BY <2>2, <2>6, <3>1, Elements, RecordTyped
    <3>3. entries' \in Seq(EntryType)
      BY <1>1, <2>6, WithoutFacts
    <3>4. RunnerOK'
      BY <1>1, <2>3, <2>6, <3>3 DEF RunnerOK, Phases
    <3> QED
      BY <1>1, <2>3, <2>4, <2>6, <3>2, <3>4 DEF RecordsOK, Tasks
  <2> QED
    BY <2>1, <2>5, <2>6
<1>13. ASSUME NEW c \in DOMAIN response, prepareToolCall(response[c])
       PROVE  IInv' /\ RunnerOK' /\ RecordsOK'
  <2> DEFINE call == response[c]
             d == checkSameStep(dedup, call)
             out == PrepareOutcome(d, call)
  <2>1. /\ \/ Record(call, "blocked", 0) /\ UNCHANGED <<dedup, authorizing>>
           \/ out # "runnable" /\ Record(call, out, 0) /\ dedup' = d /\ UNCHANGED authorizing
           \/ authorizing' = TRUE /\ dedup' = d /\ UNCHANGED <<pending, logVars>>
        /\ UNCHANGED <<vars, runnerVars, streamVars, taskVars, phase, aborted>>
    BY <1>13 DEF prepareToolCall
  <2>2. call \in CallType /\ out \in Known \cup {"runnable"} /\ "blocked" \in Known
    BY Elements DEF PrepareOutcome, Known
  <2>3. IsDedup(d) /\ IsDedup(dedup)
    BY <1>1, CheckFacts DEF RunnerOK
  <2> HIDE DEF call, d, out
  <2>4. IInv'
    BY <1>1, <2>1, WorkFacts DEF Idles, RecordsOK
  <2>5. RunnerOK'
    BY <1>1, <2>1, <2>3 DEF RunnerOK
  <2>6. /\ calls' \in Seq(IdType) /\ pending' \in Seq([out : Known, task : Nat])
        /\ results' = results /\ authorizing' \in BOOLEAN
    <3>1. CASE Record(call, "blocked", 0) /\ UNCHANGED <<dedup, authorizing>>
      BY <1>1, <2>2, <3>1, RecordTyped DEF RecordsOK
    <3>2. CASE out # "runnable" /\ Record(call, out, 0) /\ dedup' = d /\ UNCHANGED authorizing
      <4>1. out \in Known
        BY <2>2, <3>2
      <4> QED
        BY <1>1, <2>2, <3>2, <4>1, RecordTyped DEF RecordsOK
    <3>3. CASE authorizing' = TRUE /\ dedup' = d /\ UNCHANGED <<pending, logVars>>
      BY <1>1, <3>3 DEF RecordsOK
    <3> QED
      BY <2>1, <3>1, <3>2, <3>3
  <2> QED
    BY <1>1, <2>1, <2>4, <2>5, <2>6 DEF RecordsOK, Tasks
<1>14. ASSUME NEW c \in DOMAIN response, NEW answer \in Answers,
              batchAuthorized(response[c], answer)
       PROVE  IInv' /\ RunnerOK' /\ RecordsOK'
  <2> DEFINE call == response[c]
  <2>1. /\ authorizing' = FALSE /\ entries' = Without(call) /\ phase' \in {phase, "skipping"}
        /\ UNCHANGED <<streamVars, dedup, aborted>>
        /\ \/ AddTask(call) /\ Record(call, "placeholder", added')
           \/ answer # "allow" /\ Record(call, answer, 0) /\ Idles
    BY <1>14 DEF batchAuthorized, StopBatchIf, Idles
  <2>2. call \in CallType
    BY Elements
  <2> HIDE DEF call
  <2>3. entries' \in Seq(EntryType)
    BY <1>1, <2>1, WithoutFacts
  <2>4. RunnerOK'
    BY <1>1, <2>1, <2>3 DEF RunnerOK, Phases
  <2>5. CASE AddTask(call) /\ Record(call, "placeholder", added')
    <3>1. /\ IInv' /\ taskCall' \in Seq(CallType) /\ Len(taskCall') = added'
          /\ executed' \subseteq Tasks' /\ added' \in Nat
      BY <1>1, <2>2, <2>5, AddFacts
    <3>2. PICK n \in Nat : n = added'
      BY <3>1
    <3>3. Record(call, "placeholder", n) /\ "placeholder" \in Known
      BY <2>5, <3>2 DEF Known
    <3>4. /\ calls' \in Seq(IdType) /\ pending' \in Seq([out : Known, task : Nat])
          /\ results' = results
      BY <2>2, <3>3, RecordTyped
    <3> QED
      BY <1>1, <2>1, <2>4, <3>1, <3>4 DEF RecordsOK
  <2>6. CASE answer # "allow" /\ Record(call, answer, 0) /\ Idles
    <3>1. answer \in Known
      BY <2>6 DEF Answers, Known
    <3>2. /\ calls' \in Seq(IdType) /\ pending' \in Seq([out : Known, task : Nat])
          /\ results' = results
      BY <2>2, <2>6, <3>1, RecordTyped
    <3>3. IInv'
      BY <1>1, <2>6, WorkFacts DEF RecordsOK
    <3> QED
      BY <1>1, <2>1, <2>4, <2>6, <3>2, <3>3 DEF RecordsOK, Tasks, Idles
  <2> QED
    BY <2>1, <2>5, <2>6
<1>15. ASSUME NEW c \in DOMAIN response, skipCall(response[c])
       PROVE  IInv' /\ RunnerOK' /\ RecordsOK'
  <2>1. /\ entries' = Without(response[c]) /\ Record(response[c], "skipped", 0)
        /\ UNCHANGED <<vars, streamVars, authorizing, taskVars, phase, dedup, aborted>>
    BY <1>15 DEF skipCall
  <2>2. response[c] \in CallType /\ "skipped" \in Known
    BY Elements DEF Known
  <2>3. entries' \in Seq(EntryType)
    BY <1>1, <2>1, WithoutFacts
  <2>4. RunnerOK'
    BY <1>1, <2>1, <2>3 DEF RunnerOK
  <2>5. /\ calls' \in Seq(IdType) /\ pending' \in Seq([out : Known, task : Nat])
        /\ results' = results
    BY <2>1, <2>2, RecordTyped
  <2>6. IInv'
    BY <1>1, <2>1, WorkFacts DEF RecordsOK, Idles
  <2> QED
    BY <1>1, <2>1, <2>4, <2>5, <2>6 DEF RecordsOK, Tasks
<1>16. ASSUME finalizeNext PROVE IInv' /\ RunnerOK' /\ RecordsOK'
  <2> DEFINE j == Len(results) + 1
             call == response[j]
             out == IF pending[j].task = 0 THEN pending[j].out ELSE TaskOutcome(pending[j].task)
             final == FinalOutcome(dedup, call, out)
  <2>1. /\ j <= Len(response) /\ Len(pending) = Len(response)
        /\ dedup' = finalizeResult(dedup, call, out)
        /\ results' = Append(results, [id |-> call.id, out |-> final])
        /\ UNCHANGED <<vars, runnerVars, streamVars, authorizing, pending, calls,
                       taskVars, phase, aborted>>
    BY <1>16 DEF finalizeNext, finalizePending
  <2>2. j \in DOMAIN response /\ j \in DOMAIN pending
    BY <2>1, Elements
  <2>3. call \in CallType /\ call.key \in Key /\ pending[j].out \in Known
    BY <2>2, Elements DEF CallType
  <2>4. out \in Outcomes
    BY <2>3 DEF TaskOutcome, Outcomes, Known
  <2> HIDE DEF j, call, out, final
  <2>5. IsDedup(dedup') /\ final \in DeferredStates
    BY <1>1, <2>1, <2>3, <2>4, FinalizeFacts DEF RunnerOK, final
  <2>6. results' \in Seq([id : IdType, out : DeferredStates])
    BY <2>1, <2>3, <2>5, ResultTyped
  <2>7. RunnerOK'
    BY <1>1, <2>1, <2>5 DEF RunnerOK
  <2>8. IInv'
    BY <1>1, <2>1, WorkFacts DEF RecordsOK, Idles
  <2> QED
    BY <1>1, <2>1, <2>6, <2>7, <2>8 DEF RecordsOK, Tasks
<1>17. ASSUME closeInterrupted PROVE IInv' /\ RunnerOK' /\ RecordsOK'
  <2> DEFINE j == Len(results) + 1
             call == response[j]
             prepared == {i \in EntryOf(call) : entries[i].st # "skipped"}
             out(i) == EntryOutcome(entries[i], "unexecuted")
  <2>1. /\ j <= Len(response)
        /\ UNCHANGED <<vars, streamVars, batchVars, taskVars, phase, aborted>>
        /\ \/ /\ calls' = Append(calls, call.id)
              /\ results' = Append(results, [id |-> call.id, out |-> "unexecuted"])
              /\ entries' = Without(call) /\ UNCHANGED dedup
           \/ /\ calls' = Append(calls, call.id) /\ UNCHANGED <<results, entries, dedup>>
           \/ /\ \E i \in prepared :
                   /\ dedup' = finalizeResult(dedup, call, out(i))
                   /\ results' = Append(results,
                                   [id |-> call.id, out |-> FinalOutcome(dedup, call, out(i))])
              /\ entries' = Without(call) /\ UNCHANGED calls
    BY <1>17, Zenon DEF closeInterrupted
  <2>2. j \in DOMAIN response
    BY <2>1, Elements
  <2>3. call \in CallType /\ call.key \in Key /\ call.id \in IdType
    BY <2>2, Elements DEF CallType
  <2>4. \A i \in prepared : out(i) \in Outcomes
    BY EntryOutcomes DEF EntryOf
  <2> HIDE DEF j, call, out, prepared
  <2>5. IInv'
    BY <1>1, <2>1, WorkFacts DEF RecordsOK, Idles
  <2>6. Append(calls, call.id) \in Seq(IdType) /\ Without(call) \in Seq(EntryType)
    BY <1>1, <2>3, AppendProperties, WithoutFacts DEF RecordsOK
  <2>7. CASE /\ calls' = Append(calls, call.id)
             /\ results' = Append(results, [id |-> call.id, out |-> "unexecuted"])
             /\ entries' = Without(call) /\ UNCHANGED dedup
    <3>1. "unexecuted" \in DeferredStates
      BY DEF DeferredStates, Outcomes
    <3>2. results' \in Seq([id : IdType, out : DeferredStates])
      BY <2>3, <2>7, <3>1, ResultTyped
    <3> QED
      BY <1>1, <2>1, <2>5, <2>6, <2>7, <3>2 DEF RunnerOK, RecordsOK, Tasks
  <2>8. CASE calls' = Append(calls, call.id) /\ UNCHANGED <<results, entries, dedup>>
    BY <1>1, <2>1, <2>5, <2>6, <2>8 DEF RunnerOK, RecordsOK, Tasks
  <2>9. CASE /\ \E i \in prepared :
                   /\ dedup' = finalizeResult(dedup, call, out(i))
                   /\ results' = Append(results,
                                   [id |-> call.id, out |-> FinalOutcome(dedup, call, out(i))])
              /\ entries' = Without(call) /\ UNCHANGED calls
    <3>1. PICK o \in Outcomes :
            /\ dedup' = finalizeResult(dedup, call, o)
            /\ results' = Append(results, [id |-> call.id, out |-> FinalOutcome(dedup, call, o)])
      BY <2>4, <2>9
    <3>2. IsDedup(dedup') /\ FinalOutcome(dedup, call, o) \in DeferredStates
      BY <1>1, <2>3, <3>1, FinalizeFacts DEF RunnerOK
    <3>3. results' \in Seq([id : IdType, out : DeferredStates])
      BY <2>3, <3>1, <3>2, ResultTyped
    <3> QED
      BY <1>1, <2>1, <2>5, <2>6, <2>9, <3>2, <3>3 DEF RunnerOK, RecordsOK, Tasks
  <2> QED
    BY <2>1, <2>7, <2>8, <2>9
<1>18. ASSUME NEW t \in Tasks, ToolSettles(t) \/ TaskFinishes(t) \/ Progress(t)
       PROVE  IInv' /\ RunnerOK' /\ RecordsOK'
  <2>1. Idles \/ Works
    BY <1>18 DEF Idles, Works, ToolSettles, TaskFinishes, Progress
  <2>2. UNCHANGED <<authorizing, aborted, pending, calls, results>>
        /\ UNCHANGED <<phase, nextId, stream, response, entries, dedup>>
    BY <1>18 DEF ToolSettles, TaskFinishes, Progress
  <2> QED
    BY <1>1, <1>2, <2>1, <2>2, RunnerKept
<1>19. ASSUME Abort PROVE IInv' /\ RunnerOK' /\ RecordsOK'
  <2>1. IInv' /\ RunnerOK'
    BY <1>1, <1>19, WorkFacts, RunnerKept DEF Abort, Idles, RecordsOK
  <2> QED
    BY <1>1, <1>19, <2>1 DEF Abort, RecordsOK, Tasks
<1>20. ASSUME Over \/ UNCHANGED allVars PROVE IInv' /\ RunnerOK' /\ RecordsOK'
  BY <1>1, <1>2, <1>20, RunnerKept DEF Over, allVars, Idles
<1> QED
  BY <1>3, <1>4, <1>5, <1>6, <1>7, <1>8, <1>9, <1>10, <1>11, <1>12, <1>13, <1>14, <1>15,
     <1>16, <1>17, <1>18, <1>19, <1>20
  DEF StepNext, Stream, Chain, Batch

---------------------------------------------------------------------------
(* The events *)

\* A call that was announced with its preparation in place stays so while the
\* chain goes on with others.
LEMMA AnnouncedStays ==
  ASSUME Typed, Announced, UNCHANGED <<response, calls, results>>,
         UNCHANGED entries \/ \E i, e : Becomes(i, e) /\ ~Ready(entries[i])
  PROVE  Announced'
<1>1. CASE UNCHANGED entries
  BY <1>1 DEF Announced, Orphans, EntryOf, IdsOf
<1>2. ASSUME NEW i, NEW e, Becomes(i, e), ~Ready(entries[i])
      PROVE  Announced'
  <2>1. DOMAIN entries' = DOMAIN entries /\ \A j \in DOMAIN entries :
          entries'[j].call = entries[j].call /\ (j # i => entries'[j] = entries[j])
    BY <1>2 DEF Becomes
  <2>2. Orphans' = Orphans
    BY <2>1 DEF Orphans, IdsOf
  <2>3. PICK k \in EntryOf(response[Len(calls)]) : Ready(entries[k]) /\ entries[k].st # "skipped"
    BY DEF Announced
  <2>4. k # i /\ k \in DOMAIN entries /\ entries[k].call.id = response[Len(calls)].id
    BY <1>2, <2>3 DEF EntryOf
  <2>5. entries'[k] = entries[k] /\ k \in EntryOf(response[Len(calls)])'
    BY <2>1, <2>4 DEF EntryOf
  <2> QED
    BY <2>2, <2>3, <2>5 DEF Announced, Ready
<1> QED
  BY <1>1, <1>2

\* A step without events.
LEMMA LogKept ==
  ASSUME LogOK, UNCHANGED <<response, calls, results, pending, phase>>,
         phase # "streaming" /\ entries = << >> => entries' = << >>,
         phase = "interrupted" /\ Announced => Announced', phase = "sealed" => ~aborted'
  PROVE  LogOK'
BY DEF LogOK, Distinct, Raw, NoneRan, Ended

\* The batch records a call.
LEMMA LogRecord ==
  ASSUME Typed, LogOK, NEW call, NEW out \in Known, NEW task \in Nat,
         AtCall(call), Record(call, out, task), phase \in {"batch", "skipping"},
         phase' \in {phase, "skipping"}, UNCHANGED <<response, aborted>>
  PROVE  LogOK'
<1>1. /\ Len(pending) + 1 \in DOMAIN response /\ call = response[Len(pending) + 1]
      /\ call \in CallType
  BY AtCallFacts
<1>2. /\ calls' \in Seq(IdType) /\ pending' \in Seq([out : Known, task : Nat])
      /\ results' = results
      /\ Len(calls') = Len(calls) + 1 /\ Len(pending') = Len(pending) + 1
      /\ \A i \in 1..Len(calls) : calls'[i] = calls[i]
      /\ calls'[Len(calls) + 1] = call.id
  BY <1>1, RecordTyped
<1>3. /\ Len(calls) \in Nat /\ Len(pending) \in Nat /\ Len(response) \in Nat
      /\ Len(results) \in Nat /\ DOMAIN calls = 1..Len(calls)
      /\ DOMAIN response = 1..Len(response) /\ DOMAIN calls' = 1..(Len(calls) + 1)
  BY <1>2, Elements, LenProperties
<1>4. /\ Len(pending) = Len(calls) /\ Len(calls) < Len(response)
      /\ (Len(results) # 0 => Len(calls) = Len(response))
  <2>1. Len(pending) = Len(calls) /\ (Len(results) # 0 => Len(calls) = Len(response))
    BY DEF LogOK
  <2>2. Len(pending) + 1 \in 1..Len(response)
    BY <1>1, <1>3
  <2>3. \A m, n \in Nat : m + 1 \in 1..n => m < n
    OBVIOUS
  <2>4. Len(pending) < Len(response)
    BY <1>3, <2>2, <2>3
  <2> QED
    BY <2>1, <2>4
<1>5. Len(results) = 0 /\ Len(calls') <= Len(response) /\ Len(results) <= Len(calls')
      /\ Len(pending') = Len(calls')
  <2>1. \A l, m, n \in Nat : m < n /\ (l # 0 => m = n) => l = 0 /\ m + 1 <= n /\ l <= m + 1
    OBVIOUS
  <2>2. Len(results) = 0 /\ Len(calls) + 1 <= Len(response) /\ Len(results) <= Len(calls) + 1
    BY <1>3, <1>4, <2>1
  <2> QED
    BY <1>2, <1>4, <2>2
<1>6. \A i \in DOMAIN calls' : calls'[i] = response[i].id
  <2> SUFFICES ASSUME NEW i \in 1..(Len(calls) + 1)
               PROVE  calls'[i] = response[i].id
    BY <1>3
  <2>1. CASE i \in 1..Len(calls)
    BY <1>2, <1>3, <2>1 DEF LogOK
  <2>2. CASE i = Len(calls) + 1
    BY <1>1, <1>2, <1>4, <2>2
  <2> QED
    BY <1>3, <2>1, <2>2
<1>7. /\ Len(response) <= MaxCalls /\ Distinct'
      /\ \A i \in DOMAIN results : results[i].id = response[i].id
  BY DEF LogOK, Distinct, Raw, Ended
<1>8. phase' \in {"batch", "skipping"}
  OBVIOUS
<1> QED
  BY <1>2, <1>5, <1>6, <1>7, <1>8 DEF LogOK

\* Every step keeps the events in the order of the response.
LEMMA LogStep ==
  ASSUME Typed, LogOK, [StepNext]_allVars
  PROVE  LogOK'
<1> USE DEF vars, runnerVars, streamVars, batchVars, logVars, taskVars, gateVars
<1>1. /\ Len(calls) \in Nat /\ Len(pending) \in Nat /\ Len(response) \in Nat
      /\ Len(results) \in Nat /\ DOMAIN calls = 1..Len(calls)
      /\ DOMAIN response = 1..Len(response) /\ DOMAIN results = 1..Len(results)
      /\ DOMAIN pending = 1..Len(pending)
  BY Elements
<1>2. ASSUME UNCHANGED <<response, calls, results, pending, phase, entries>>,
             phase = "sealed" => ~aborted'
      PROVE  LogOK'
  BY <1>2, LogKept, AnnouncedStays
<1>3. ASSUME NEW key \in Key, NEW n \in ProviderIds, StreamCall(key, n) PROVE LogOK'
  <2>1. UNCHANGED <<response, calls, results, pending, phase>> /\ phase = "streaming"
    BY <1>3 DEF StreamCall
  <2> QED
    BY <2>1, LogKept
<1>4. ASSUME NEW tail \in Tails, NEW reason \in {"tool_calls", "paused", "filtered"},
             StreamEnd(tail, reason)
      PROVE  LogOK'
  <2>1. /\ Received(tail) \in Seq(CallType)
        /\ \A i \in DOMAIN Received(tail) : Received(tail)[i].id[2] = 1
    BY ReceivedFacts DEF Typed
  <2>2. PICK r : r = response'
    OBVIOUS
  <2>3. /\ r \in Seq(CallType) /\ Len(r) = Len(Received(tail))
        /\ Distinct' \/ Raw'
    BY <1>4, <2>2, EndShape DEF Typed
  <2>4. /\ response' = r /\ Len(Received(tail)) <= MaxCalls /\ phase = "streaming" /\ ~aborted
        /\ UNCHANGED <<calls, results, pending, aborted>>
    BY <1>4, <2>2 DEF StreamEnd, Received
  <2>5. phase' \in {"sealed", "batch", "interrupted"}
    BY <1>4 DEF StreamEnd
  <2>6. Len(calls) = 0 /\ Len(results) = 0 /\ Len(pending) = 0
    BY <1>1, <2>4, EmptySeq DEF LogOK
  <2>7. DOMAIN calls = {} /\ DOMAIN results = {} /\ NoneRan'
    BY <1>1, <2>4, <2>6 DEF NoneRan
  <2>8. Len(r) \in Nat /\ DOMAIN r = 1..Len(r) /\ DOMAIN Received(tail) = 1..Len(r)
    BY <2>1, <2>3, LenProperties
  <2> QED
    BY <2>3, <2>4, <2>5, <2>6, <2>7, <2>8 DEF LogOK
<1>5. ASSUME AttemptFails \/ RequestEnds \/ seal PROVE LogOK'
  <2>1. UNCHANGED <<response, calls, results, pending, entries, aborted>>
    BY <1>5 DEF AttemptFails, RequestEnds, seal
  <2>2. \/ phase' = phase /\ phase = "streaming"
        \/ phase' \in {"aborted", "failed"}
        \/ phase' = "sealed" /\ ~aborted
    BY <1>5 DEF AttemptFails, RequestEnds, seal
  <2>3. Distinct' \/ (Raw /\ NoneRan)'
    BY <2>1, <2>2, EmptySeq DEF LogOK, Distinct, Raw, NoneRan, Ended
  <2> QED
    BY <2>1, <2>2, <2>3 DEF LogOK
<1>6. ASSUME NextStep PROVE LogOK'
  <2>1. /\ phase' = "streaming" /\ response' = << >> /\ pending' = << >> /\ calls' = << >>
        /\ results' = << >>
    BY <1>6, NextStepFacts
  <2>2. Len(<< >>) = 0 /\ DOMAIN << >> = {} /\ 0 <= MaxCalls
    BY StepAssumption
  <2> QED
    BY <2>1, <2>2 DEF LogOK, Distinct
<1>7. ASSUME Chain PROVE LogOK'
  <2>1. \E i, e : Becomes(i, e) /\ ~Ready(entries[i])
    <3>1. CASE prepareOne
      BY <3>1, PrepareShape DEF Prepares, Typed, Ready
    <3>2. CASE \E answer \in Answers : chainAuthorized(answer)
      BY <3>2, AuthorizedShape DEF HookAnswers, Typed, Ready
    <3> QED
      BY <1>7, <3>1, <3>2 DEF Chain
  <2>2. UNCHANGED <<response, calls, results, pending, phase, aborted>>
    BY <1>7 DEF Chain, prepareOne, chainAuthorized
  <2>3. Announced => Announced'
    BY <2>1, <2>2, AnnouncedStays
  <2>4. entries # << >>
    BY <2>1, EmptySeq DEF Becomes
  <2> QED
    BY <2>2, <2>3, <2>4, LogKept DEF LogOK
<1>8. ASSUME LeftoverPrepares \/ Over \/ UNCHANGED allVars PROVE LogOK'
  <2>1. UNCHANGED <<response, calls, results, pending, phase, entries, aborted>>
    BY <1>8 DEF LeftoverPrepares, Over, allVars
  <2> QED
    BY <1>2, <2>1 DEF LogOK
<1>9. ASSUME drainOrphan PROVE LogOK'
  <2>1. /\ Orphans # {} /\ phase \in {"batch", "interrupted"}
        /\ UNCHANGED <<response, calls, results, pending, phase, aborted>>
    BY <1>9 DEF drainOrphan, FirstOf
  <2>2. entries # << >>
    BY <2>1, EmptySeq DEF Orphans
  <2> QED
    BY <2>1, <2>2, LogKept DEF Announced
<1>10. ASSUME NEW c \in DOMAIN response, materialize(response[c]) PROVE LogOK'
  <2>1. PICK i \in EntryOf(response[c]) :
          \/ UNCHANGED <<entries, logVars, pending, phase>>
          \/ /\ Record(response[c], IF entries[i].st = "skipped" THEN "skipped" ELSE entries[i].out,
                       entries[i].task)
             /\ phase' \in {phase, "skipping"}
    BY <1>10 DEF materialize, StopBatchIf
  <2>2. /\ phase = "batch" /\ AtCall(response[c])
        /\ UNCHANGED <<response, aborted>>
    BY <1>10 DEF materialize
  <2>3. entries[i].out \in Known /\ entries[i].task \in Nat
    BY Elements DEF EntryOf, EntryType
  <2>4. CASE UNCHANGED <<entries, logVars, pending, phase>>
    BY <1>2, <2>2, <2>4
  <2>5. CASE /\ Record(response[c], IF entries[i].st = "skipped" THEN "skipped" ELSE entries[i].out,
                       entries[i].task)
             /\ phase' \in {phase, "skipping"}
    <3>1. PICK out \in Known :
            out = IF entries[i].st = "skipped" THEN "skipped" ELSE entries[i].out
      BY <2>3 DEF Known
    <3> QED
      BY <2>2, <2>3, <2>5, <3>1, LogRecord
  <2> QED
    BY <2>1, <2>4, <2>5
<1>11. ASSUME NEW c \in DOMAIN response, prepareToolCall(response[c]) PROVE LogOK'
  <2>1. PICK out \in Known \cup {"runnable"} :
          \/ Record(response[c], "blocked", 0)
          \/ out # "runnable" /\ Record(response[c], out, 0)
          \/ UNCHANGED <<pending, logVars>>
    <3>1. PrepareOutcome(checkSameStep(dedup, response[c]), response[c]) \in Known \cup {"runnable"}
      BY DEF PrepareOutcome, Known
    <3> QED
      BY <1>11, <3>1 DEF prepareToolCall
  <2>2. /\ phase = "batch" /\ AtCall(response[c])
        /\ UNCHANGED <<response, aborted, phase, entries>>
    BY <1>11 DEF prepareToolCall
  <2>3. CASE UNCHANGED <<pending, logVars>>
    BY <1>2, <2>2, <2>3
  <2>4. CASE \E o \in Known : Record(response[c], o, 0)
    BY <2>2, <2>4, LogRecord
  <2>5. "blocked" \in Known
    BY DEF Known
  <2> QED
    BY <2>1, <2>3, <2>4, <2>5
<1>12. ASSUME NEW c \in DOMAIN response, NEW answer \in Answers,
              batchAuthorized(response[c], answer)
       PROVE  LogOK'
  <2>1. /\ phase = "batch" /\ AtCall(response[c]) /\ phase' \in {phase, "skipping"}
        /\ UNCHANGED <<response, aborted>>
        /\ \/ AddTask(response[c]) /\ Record(response[c], "placeholder", added')
           \/ answer # "allow" /\ Record(response[c], answer, 0)
    BY <1>12 DEF batchAuthorized, StopBatchIf
  <2>2. CASE AddTask(response[c]) /\ Record(response[c], "placeholder", added')
    <3>1. added' \in Nat
      BY <2>2, Elements, AddFacts DEF Typed
    <3>2. PICK n \in Nat : n = added'
      BY <3>1
    <3>3. Record(response[c], "placeholder", n) /\ "placeholder" \in Known
      BY <2>2, <3>2 DEF Known
    <3> QED
      BY <2>1, <3>3, LogRecord
  <2>3. CASE answer # "allow" /\ Record(response[c], answer, 0)
    <3>1. answer \in Known
      BY <2>3 DEF Answers, Known
    <3> QED
      BY <2>1, <2>3, <3>1, LogRecord
  <2> QED
    BY <2>1, <2>2, <2>3
<1>13. ASSUME NEW c \in DOMAIN response, skipCall(response[c]) PROVE LogOK'
  <2>1. /\ phase = "skipping" /\ AtCall(response[c]) /\ Record(response[c], "skipped", 0)
        /\ UNCHANGED <<response, aborted, phase>> /\ "skipped" \in Known
    BY <1>13 DEF skipCall, Known
  <2> QED
    BY <2>1, LogRecord
<1>14. ASSUME finalizeNext PROVE LogOK'
  <2>1. /\ Len(results) + 1 <= Len(response) /\ Len(pending) = Len(response)
        /\ phase \in {"batch", "skipping"}
        /\ UNCHANGED <<response, pending, calls, phase, aborted>>
        /\ \E o : results' = Append(results, [id |-> response[Len(results) + 1].id, out |-> o])
    BY <1>14 DEF finalizeNext, finalizePending
  <2>2. PICK o : results' = Append(results, [id |-> response[Len(results) + 1].id, out |-> o])
    BY <2>1
  <2>3. results \in Seq([id : IdType, out : DeferredStates])
    BY DEF Typed, RecordsOK
  <2>4. Len(calls) = Len(response)
    BY <2>1 DEF LogOK
  <2>5. results' \in Seq([id : IdType, out : DeferredStates])
    BY TypesStep DEF RecordsOK
  <2>6. /\ Len(results') = Len(results) + 1 /\ DOMAIN results' = 1..(Len(results) + 1)
        /\ \A i \in 1..Len(results) : results'[i] = results[i]
        /\ results'[Len(results) + 1].id = response[Len(results) + 1].id
    BY <1>1, <2>2, <2>3, <2>5, LenProperties
  <2>7. \A i \in DOMAIN results' : results'[i].id = response[i].id
    <3> SUFFICES ASSUME NEW i \in 1..(Len(results) + 1)
                 PROVE  results'[i].id = response[i].id
      BY <2>6
    <3>1. CASE i \in 1..Len(results)
      BY <1>1, <2>6, <3>1 DEF LogOK
    <3>2. CASE i = Len(results) + 1
      BY <2>6, <3>2
    <3> QED
      BY <1>1, <3>1, <3>2
  <2>8. Len(results') <= Len(calls)
    BY <1>1, <2>1, <2>4, <2>6
  <2>9. Distinct'
    BY <2>1 DEF LogOK, Distinct, Raw, Ended
  <2> QED
    BY <2>1, <2>4, <2>7, <2>8, <2>9 DEF LogOK
<1>15. ASSUME closeInterrupted PROVE LogOK'
  <2>0. PICK j : j = Len(results) + 1
    OBVIOUS
  <2> DEFINE call == response[j]
             prepared == {i \in EntryOf(call) : entries[i].st # "skipped"}
  <2>1. /\ j <= Len(response) /\ phase = "interrupted" /\ Orphans = {}
        /\ \A i \in EntryOf(call) : Ready(entries[i])
        /\ UNCHANGED <<response, pending, phase, aborted>>
        /\ \/ /\ prepared = {}
              /\ calls' = Append(calls, call.id)
              /\ results' = Append(results, [id |-> call.id, out |-> "unexecuted"])
           \/ /\ prepared # {} /\ Len(calls) < j
              /\ calls' = Append(calls, call.id) /\ UNCHANGED <<results, entries>>
           \/ /\ Len(calls) = j /\ UNCHANGED calls
              /\ \E o : results' = Append(results, [id |-> call.id, out |-> o])
    BY <1>15, <2>0, Zenon DEF closeInterrupted
  <2>2. j \in Nat /\ j \in DOMAIN response /\ Len(results) < j
    <3>1. \A m, n \in Nat : m + 1 <= n => m + 1 \in Nat /\ m + 1 \in 1..n /\ m < m + 1
      OBVIOUS
    <3>2. Len(results) \in Nat /\ Len(response) \in Nat /\ Len(results) + 1 <= Len(response)
      BY <1>1, <2>0, <2>1
    <3> QED
      BY <1>1, <2>0, <3>1, <3>2
  <2>3. Len(calls) = Len(results) \/ Len(calls) = j
    BY <2>0, <2>1 DEF LogOK, Announced
  <2>4. results \in Seq([id : IdType, out : DeferredStates]) /\ calls \in Seq(IdType)
    BY DEF Typed, RecordsOK
  <2>5. results' \in Seq([id : IdType, out : DeferredStates]) /\ calls' \in Seq(IdType)
    BY TypesStep DEF RecordsOK
  <2>6. prepared = {} \/ Len(calls) < j => Len(calls) = Len(results)
    <3>1. CASE Len(calls) < j
      BY <2>2, <2>3, <3>1
    <3>2. CASE prepared = {} /\ Len(calls) # Len(results)
      <4>1. Len(calls) = j /\ Announced
        BY <2>1, <2>3, <3>2 DEF LogOK
      <4> QED
        BY <3>2, <4>1 DEF Announced
    <3> QED
      BY <3>1, <3>2
  <2>7. ASSUME NEW o, results' = Append(results, [id |-> call.id, out |-> o])
        PROVE  /\ Len(results') = j /\ DOMAIN results' = 1..j
               /\ \A i \in DOMAIN results' : results'[i].id = response[i].id
    <3>1. /\ Len(results') = Len(results) + 1 /\ DOMAIN results' = 1..(Len(results) + 1)
          /\ \A i \in 1..Len(results) : results'[i] = results[i]
          /\ results'[Len(results) + 1].id = call.id
      BY <1>1, <2>4, <2>5, <2>7, LenProperties
    <3>0. j = Len(results) + 1
      BY <2>0
    <3>2. \A i \in 1..Len(results) : results[i].id = response[i].id
      BY <1>1 DEF LogOK
    <3>3. \A i \in 1..j : i \in 1..Len(results) \/ i = Len(results) + 1
      BY <1>1, <2>0
    <3> QED
      BY <3>0, <3>1, <3>2, <3>3
  <2>8. ASSUME Len(calls) = Len(results), calls' = Append(calls, call.id)
        PROVE  /\ Len(calls') = j /\ \A i \in DOMAIN calls' : calls'[i] = response[i].id
    <3>1. call.id \in IdType
      BY <2>2, Elements DEF CallType
    <3>2. PICK x \in IdType : x = call.id
      BY <3>1
    <3>3. /\ Len(calls') = Len(calls) + 1 /\ DOMAIN calls' = 1..(Len(calls) + 1)
          /\ \A i \in 1..Len(calls) : calls'[i] = calls[i]
          /\ calls'[Len(calls) + 1] = x
      BY <2>4, <2>5, <2>8, <3>2, AppendProperties, LenProperties
    <3>4. \A i \in 1..Len(calls) : calls[i] = response[i].id
      BY <1>1 DEF LogOK
    <3>5. \A i \in 1..j : i \in 1..Len(calls) \/ i = j
      BY <1>1, <2>0, <2>8
    <3>6. DOMAIN calls' = 1..j /\ Len(calls') = j /\ calls'[j] = call.id
      BY <2>0, <2>8, <3>2, <3>3
    <3> QED
      BY <3>3, <3>4, <3>5, <3>6
  <2>a. entries = << >> => entries' = << >>
    BY <1>15, <2>0, EmptySeq DEF closeInterrupted, EntryOf, Without
  <2>b. entries = << >> => results' = Append(results, [id |-> call.id, out |-> "unexecuted"])
    BY <1>15, <2>0, EmptySeq DEF closeInterrupted, EntryOf
  <2>c. entries = << >> /\ NoneRan => NoneRan'
    <3> SUFFICES ASSUME entries = << >>, NoneRan PROVE NoneRan'
      OBVIOUS
    <3>1. results' = Append(results, [id |-> call.id, out |-> "unexecuted"])
      BY <2>b
    <3>2. /\ DOMAIN results' = 1..(Len(results) + 1)
          /\ \A i \in 1..Len(results) : results'[i] = results[i]
          /\ results'[Len(results) + 1].out = "unexecuted"
      BY <1>1, <2>4, <2>5, <3>1, LenProperties
    <3>3. \A i \in 1..(Len(results) + 1) : i \in 1..Len(results) \/ i = Len(results) + 1
      BY <1>1
    <3> QED BY <1>1, <3>2, <3>3 DEF NoneRan
  <2>9. /\ Len(response) <= MaxCalls /\ (Distinct \/ (Raw /\ NoneRan))'
        /\ \A i \in DOMAIN calls : calls[i] = response[i].id
        /\ \A i \in DOMAIN results : results[i].id = response[i].id
    BY <2>1, <2>a, <2>c DEF LogOK, Distinct, Raw
  <2>10. CASE /\ prepared = {}
              /\ calls' = Append(calls, call.id)
              /\ results' = Append(results, [id |-> call.id, out |-> "unexecuted"])
    <3>1. /\ Len(results') = j /\ Len(calls') = j
          /\ \A i \in DOMAIN results' : results'[i].id = response[i].id
          /\ \A i \in DOMAIN calls' : calls'[i] = response[i].id
      BY <2>6, <2>7, <2>8, <2>10
    <3>2. j <= j
      BY <2>2
    <3> QED
      BY <2>1, <2>9, <3>1, <3>2 DEF LogOK
  <2>11. CASE /\ prepared # {} /\ Len(calls) < j
              /\ calls' = Append(calls, call.id) /\ UNCHANGED <<results, entries>>
    <3>1. Len(calls') = j /\ \A i \in DOMAIN calls' : calls'[i] = response[i].id
      BY <2>6, <2>8, <2>11
    <3>2. PICK i \in EntryOf(call) : Ready(entries[i]) /\ entries[i].st # "skipped"
      BY <2>1, <2>11
    <3>3. EntryOf(response[Len(calls)])' = EntryOf(call) /\ Orphans' = Orphans
      BY <2>1, <2>11, <3>1 DEF EntryOf, Orphans, IdsOf
    <3>4. Ready(entries[i])' /\ entries'[i].st # "skipped"
      BY <2>11, <3>2 DEF Ready
    <3>5. Announced'
      BY <2>0, <2>1, <2>11, <3>1, <3>2, <3>3, <3>4 DEF Announced
    <3>6. Len(results') <= Len(calls') /\ Len(calls') <= Len(response)
      <4>1. \A m \in Nat : m <= m + 1
        OBVIOUS
      <4> QED
        BY <1>1, <2>0, <2>1, <2>11, <3>1, <4>1
    <3> QED
      BY <2>1, <2>9, <2>11, <3>1, <3>5, <3>6 DEF LogOK
  <2>12. CASE /\ Len(calls) = j /\ UNCHANGED calls
              /\ \E o : results' = Append(results, [id |-> call.id, out |-> o])
    <3>1. Len(results') = j /\ \A i \in DOMAIN results' : results'[i].id = response[i].id
      BY <2>7, <2>12
    <3>2. j <= j
      BY <2>2
    <3> QED
      BY <2>1, <2>9, <2>12, <3>1, <3>2 DEF LogOK
  <2> QED
    BY <2>1, <2>10, <2>11, <2>12
<1>16. ASSUME NEW t \in Tasks, ToolSettles(t) \/ TaskFinishes(t) \/ Progress(t) PROVE LogOK'
  <2>1. UNCHANGED <<response, calls, results, pending, phase, entries, aborted>>
    BY <1>16 DEF ToolSettles, TaskFinishes, Progress
  <2> QED
    BY <1>2, <2>1 DEF LogOK
<1>17. ASSUME Abort PROVE LogOK'
  <2>1. UNCHANGED <<response, calls, results, pending, phase, entries>> /\ phase # "sealed"
    BY <1>17 DEF Abort, Ended
  <2> QED
    BY <1>2, <2>1
<1> QED
  BY <1>3, <1>4, <1>5, <1>6, <1>7, <1>8, <1>9, <1>10, <1>11, <1>12, <1>13, <1>14, <1>15,
     <1>16, <1>17
  DEF StepNext, Stream, Batch

---------------------------------------------------------------------------
(* The ids *)

\* An entry that changes keeps its call.
LEMMA IdsBecome ==
  ASSUME IdsOK, NEW i, NEW e, Becomes(i, e), UNCHANGED <<nextId, stream, phase, response>>
  PROVE  IdsOK'
<1>1. DOMAIN entries' = DOMAIN entries /\ \A j \in DOMAIN entries : entries'[j].call = entries[j].call
  BY DEF Becomes
<1>2. \A call : EntryOf(call)' = EntryOf(call)
  BY <1>1 DEF EntryOf
<1>3. ASSUME phase = "streaming"
      PROVE  /\ \A k \in DOMAIN stream : EntryOf(stream[k])' # {}
             /\ \A k \in DOMAIN entries', m \in DOMAIN stream :
                  stream[m].id = entries'[k].call.id /\ FirstUnder(stream, m)
                    => stream[m] = entries'[k].call
  BY <1>1, <1>2, <1>3 DEF IdsOK
<1>4. \A k \in DOMAIN stream : (EntryOf(stream[k]) # {})' <=> EntryOf(stream[k])' # {}
  OBVIOUS
<1> QED
  BY <1>1, <1>2, <1>3, <1>4 DEF IdsOK, FirstUnder, EntryOf

\* An entry is taken out once the response is known.
LEMMA IdsWithout ==
  ASSUME Typed, NEW call, entries' = Without(call), phase # "streaming", phase' # "streaming",
         UNCHANGED <<nextId, stream, response>>
  PROVE  IdsOK'
<1>1. /\ \A j \in DOMAIN entries' : \E i \in DOMAIN entries : entries'[j] = entries[i]
      /\ \A i, j \in DOMAIN entries' : entries'[i].call.id = entries'[j].call.id => i = j
  BY WithoutFacts DEF Typed
<1>2. IdsOK
  BY DEF Typed
<1> QED
  BY <1>1, <1>2 DEF IdsOK

\* Nothing happens to the entries.
LEMMA IdsKept ==
  ASSUME IdsOK, LogOK, UNCHANGED <<nextId, stream, response, entries>>,
         phase' = phase \/ (phase' # "streaming" /\ (phase = "streaming" => response = << >>))
  PROVE  IdsOK'
<1>1. CASE phase' = phase
  BY <1>1 DEF IdsOK, EntryOf, FirstUnder
<1>2. CASE phase' # "streaming" /\ phase = "streaming" /\ response = << >>
  BY <1>2 DEF IdsOK
<1>3. CASE phase' # "streaming" /\ phase # "streaming"
  BY <1>3 DEF IdsOK
<1> QED
  BY <1>1, <1>2, <1>3

\* Every step keeps the ids apart.
LEMMA IdsStep ==
  ASSUME Typed, LogOK, [StepNext]_allVars
  PROVE  IdsOK'
<1> USE DEF vars, runnerVars, streamVars, batchVars, logVars, taskVars, gateVars
<1>1. IdsOK /\ nextId \in Nat
  BY DEF Typed, RunnerOK
<1>2. ASSUME UNCHANGED <<nextId, stream, response, entries, phase>> PROVE IdsOK'
  BY <1>1, <1>2, IdsKept
<1>3. ASSUME NEW key \in Key, NEW n \in ProviderIds, StreamCall(key, n) PROVE IdsOK'
  <2>1. PICK call : call = [id |-> <<n, 1>>, key |-> key]
    OBVIOUS
  <2>2. /\ phase = "streaming" /\ addReady(call) /\ stream' = Append(stream, call)
        /\ nextId' = IF n = nextId THEN nextId + 1 ELSE nextId
        /\ UNCHANGED <<phase, response>>
    BY <1>3, <2>1 DEF StreamCall
  <2>3. n \in Nat /\ n <= nextId /\ (n # nextId => \E i \in DOMAIN stream : stream[i].id[1] = n)
    BY ProviderIdsTyped
  <2>4. call \in CallType /\ call.id[2] = 1 /\ call.id[1] = n
    BY <2>1, <2>3 DEF CallType, IdType
  <2>5. nextId' \in Nat /\ nextId <= nextId' /\ n < nextId'
    BY <1>1, <2>2, <2>3
  <2>6. /\ \A i \in DOMAIN entries : entries[i].call.id[2] = 1 /\ entries[i].call.id[1] < nextId
        /\ \A i \in DOMAIN stream : stream[i].id[2] = 1 /\ stream[i].id[1] < nextId
    BY <1>1 DEF IdsOK
  <2>7. /\ \A i \in DOMAIN entries : entries[i].call.id[1] \in Nat
        /\ \A i \in DOMAIN stream : stream[i].id[1] \in Nat
    BY Elements DEF CallType, IdType
  <2>8. /\ \A i \in DOMAIN entries : entries[i].call.id[1] < nextId'
        /\ \A i \in DOMAIN stream : stream[i].id[1] < nextId'
    BY <1>1, <2>5, <2>6, <2>7
  <2>9. PICK l \in Nat : l = Len(stream)
    BY Elements
  <2>10. /\ DOMAIN stream' = 1..(l + 1) /\ DOMAIN stream = 1..l
         /\ \A i \in 1..l : stream'[i] = stream[i]
         /\ stream'[l + 1] = call
    BY <2>2, <2>4, <2>9, AppendProperties, LenProperties DEF Typed, RunnerOK
  <2>11. \A i \in 1..(l + 1) : i \in 1..l \/ i = l + 1
    OBVIOUS
  <2>12. \A i \in DOMAIN stream' : stream'[i].id[2] = 1 /\ stream'[i].id[1] < nextId'
    BY <2>4, <2>5, <2>6, <2>8, <2>10, <2>11
  <2>13. \* An old id of the stream has its entry.
         ASSUME NEW i \in 1..l, stream[i].id = call.id PROVE EntryOf(call) # {}
    <3>1. EntryOf(stream[i]) # {}
      BY <1>1, <2>2, <2>10 DEF IdsOK
    <3> QED
      BY <2>13, <3>1 DEF EntryOf
  <2>14. \A i \in 1..l : FirstUnder(stream', i) <=> FirstUnder(stream, i)
    <3>1. \A i \in 1..l : \A j \in 1..(i - 1) : j \in 1..l
      OBVIOUS
    <3> QED
      BY <2>10, <3>1 DEF FirstUnder
  <2>15. \A i \in 1..l : i \in 1..((l + 1) - 1)
    OBVIOUS
  <2>16. FirstUnder(stream', l + 1) => \A i \in 1..l : stream[i].id # call.id
    BY <2>10, <2>15 DEF FirstUnder
  <2>17. \A k \in DOMAIN entries, i \in 1..l :
           stream[i].id = entries[k].call.id /\ FirstUnder(stream, i) => stream[i] = entries[k].call
    BY <1>1, <2>2, <2>10 DEF IdsOK
  <2>18. \A i \in 1..l : EntryOf(stream[i]) # {}
    BY <1>1, <2>2, <2>10 DEF IdsOK
  <2>19. Adds(call)
    BY <2>2, <2>4, AddReadyShape
  <2>20. CASE EntryOf(call) # {} /\ UNCHANGED entries
    <3>1. \A i \in 1..l : n # nextId => TRUE
      OBVIOUS
    <3>2. n # nextId
      <4>1. PICK k \in DOMAIN entries : entries[k].call.id = call.id
        BY <2>20 DEF EntryOf
      <4> QED
        BY <1>1, <2>4, <2>6, <4>1
    <3>3. PICK i \in 1..l : stream[i].id[1] = n
      BY <2>3, <2>10, <3>2
    <3>4. stream[i].id = call.id
      <4>1. stream[i].id \in IdType /\ call.id \in IdType
        BY <2>4, <2>10, Elements DEF CallType
      <4>2. stream[i].id[2] = 1
        BY <2>6, <2>10
      <4> QED
        BY <2>4, <3>3, <4>1, <4>2 DEF IdType
    <3>5. ~FirstUnder(stream', l + 1)
      BY <2>16, <3>4
    <3>6. \A k \in DOMAIN entries, m \in DOMAIN stream' :
            stream'[m].id = entries[k].call.id /\ FirstUnder(stream', m)
              => stream'[m] = entries[k].call
      BY <2>10, <2>11, <2>14, <2>17, <3>5
    <3>7. \A m \in DOMAIN stream' : EntryOf(stream'[m]) # {}
      BY <2>10, <2>11, <2>18, <2>20
    <3>8. \A m \in DOMAIN stream' : (EntryOf(stream[m]) # {})'
      BY <2>20, <3>7 DEF EntryOf
    <3> QED
      BY <1>1, <2>2, <2>6, <2>8, <2>12, <2>20, <3>6, <3>8 DEF IdsOK
  <2>21. ASSUME EntryOf(call) = {}, NEW e \in EntryType, e.call = call,
                entries' \in Seq(EntryType), DOMAIN entries' = 1..(Len(entries) + 1),
                \A i \in 1..Len(entries) : entries'[i] = entries[i],
                entries'[Len(entries) + 1] = e
         PROVE  IdsOK'
    <3>1. PICK m \in Nat : m = Len(entries) /\ DOMAIN entries = 1..m
      BY Elements
    <3>2. \A i \in 1..(m + 1) : i \in 1..m \/ i = m + 1
      OBVIOUS
    <3>3. \A i \in 1..m : i \in 1..(m + 1)
      OBVIOUS
    <3>4. m + 1 \in 1..(m + 1)
      OBVIOUS
    <3>5. \A i \in 1..m : entries[i].call.id # call.id
      BY <2>21, <3>1 DEF EntryOf
    <3>6. \A i, j \in DOMAIN entries' : entries'[i].call.id = entries'[j].call.id => i = j
      <4>1. \A i, j \in 1..m : entries[i].call.id = entries[j].call.id => i = j
        BY <1>1, <3>1 DEF IdsOK
      <4> QED
        BY <2>21, <3>1, <3>2, <3>5, <4>1
    <3>7. \A i \in DOMAIN entries' : entries'[i].call.id[2] = 1 /\ entries'[i].call.id[1] < nextId'
      BY <2>4, <2>5, <2>6, <2>8, <2>21, <3>1, <3>2
    <3>8. \A i \in 1..l : stream[i].id # call.id
      BY <2>13, <2>21
    <3>9. \A k \in DOMAIN entries', i \in DOMAIN stream' :
            stream'[i].id = entries'[k].call.id /\ FirstUnder(stream', i)
              => stream'[i] = entries'[k].call
      <4> SUFFICES ASSUME NEW k \in 1..(m + 1), NEW i \in 1..(l + 1),
                          stream'[i].id = entries'[k].call.id, FirstUnder(stream', i)
                   PROVE  stream'[i] = entries'[k].call
        BY <2>10, <2>21, <3>1
      <4>1. CASE k = m + 1 /\ i = l + 1
        BY <2>10, <2>21, <3>1, <4>1
      <4>2. CASE k = m + 1 /\ i \in 1..l
        BY <2>10, <2>21, <3>1, <3>8, <4>2
      <4>3. CASE k \in 1..m /\ i = l + 1
        BY <2>10, <2>21, <3>1, <3>5, <4>3
      <4>4. CASE k \in 1..m /\ i \in 1..l
        BY <2>10, <2>14, <2>17, <2>21, <3>1, <4>4
      <4> QED
        BY <2>11, <3>2, <4>1, <4>2, <4>3, <4>4
    <3>10. \A i \in DOMAIN stream' : (EntryOf(stream[i]) # {})'
      <4> SUFFICES ASSUME NEW i \in 1..(l + 1)
                   PROVE  \E k \in DOMAIN entries' : entries'[k].call.id = stream'[i].id
        BY <2>10 DEF EntryOf
      <4>1. CASE i \in 1..l
        <5>1. PICK k \in 1..m : entries[k].call.id = stream[i].id
          BY <2>18, <3>1, <4>1 DEF EntryOf
        <5> QED
          BY <2>10, <2>21, <3>1, <3>3, <4>1, <5>1
      <4>2. CASE i = l + 1
        BY <2>10, <2>21, <3>1, <3>4, <4>2
      <4> QED
        BY <2>11, <4>1, <4>2
    <3> QED
      BY <2>2, <2>12, <3>6, <3>7, <3>9, <3>10 DEF IdsOK
  <2> QED
    BY <2>19, <2>20, <2>21 DEF Adds
<1>4. ASSUME NEW tail \in Tails, NEW reason \in {"tool_calls", "paused", "filtered"},
             StreamEnd(tail, reason)
      PROVE  IdsOK'
  <2>1. /\ Received(tail) \in Seq(CallType) /\ tail \in Seq(CallType)
        /\ \A i \in DOMAIN Received(tail) : Received(tail)[i].id[2] = 1
        /\ \A i \in DOMAIN Received(tail) :
             Received(tail)[i].id[1] < nextId /\ FirstUnder(Received(tail), i) =>
               i \in DOMAIN stream /\ Received(tail)[i] = stream[i]
        /\ \A i \in DOMAIN stream : i \in DOMAIN Received(tail) /\ Received(tail)[i] = stream[i]
    BY <1>1, ReceivedFacts DEF Typed
  <2>2. PICK r : r = response'
    OBVIOUS
  <2>3. entries # << >> => \A i \in DOMAIN Received(tail) : r[i].id[2] = 1 =>
             r[i] = Received(tail)[i] /\ FirstUnder(Received(tail), i)
    BY <1>1, <1>4, <2>2, EndShape DEF Typed
  <2>4. DOMAIN r = DOMAIN Received(tail)
    BY <1>1, <1>4, <2>2, EndShape DEF Typed
  <2>5. /\ response' = r /\ nextId' = nextId + Len(tail) /\ phase = "streaming"
        /\ phase' # "streaming" /\ UNCHANGED <<stream, entries>>
    BY <1>4, <2>2 DEF StreamEnd
  <2>6. nextId' \in Nat /\ nextId <= nextId'
    <3>1. Len(tail) \in Nat
      BY <2>1, LenProperties
    <3> QED
      BY <1>1, <2>5, <3>1
  <2>7. /\ \A i \in DOMAIN entries : entries[i].call.id[2] = 1 /\ entries[i].call.id[1] < nextId
        /\ \A i \in DOMAIN stream : stream[i].id[2] = 1 /\ stream[i].id[1] < nextId
    BY <1>1 DEF IdsOK
  <2>8. /\ \A i \in DOMAIN entries : entries[i].call.id[1] \in Nat
        /\ \A i \in DOMAIN stream : stream[i].id[1] \in Nat
    BY Elements DEF CallType, IdType
  <2>9. /\ \A i \in DOMAIN entries : entries[i].call.id[1] < nextId'
        /\ \A i \in DOMAIN stream : stream[i].id[1] < nextId'
    BY <1>1, <2>6, <2>7, <2>8
  <2>10. ASSUME NEW k \in DOMAIN entries, NEW i \in DOMAIN r, r[i].id = entries[k].call.id
         PROVE  r[i] = entries[k].call
    <3>1. r[i] = Received(tail)[i] /\ FirstUnder(Received(tail), i)
      BY <2>3, <2>4, <2>7, <2>10
    <3>2. i \in DOMAIN stream /\ Received(tail)[i] = stream[i]
      BY <2>1, <2>4, <2>7, <2>10, <3>1
    <3>3. \A j \in 1..(i - 1) : j \in DOMAIN stream
      BY <3>2, Elements
    <3>4. FirstUnder(stream, i)
      BY <2>1, <3>1, <3>2, <3>3 DEF FirstUnder
    <3>5. stream[i] = entries[k].call
      BY <1>1, <2>5, <2>10, <3>1, <3>2, <3>4 DEF IdsOK
    <3> QED
      BY <3>1, <3>2, <3>5
  <2> QED
    BY <1>1, <2>5, <2>7, <2>9, <2>10 DEF IdsOK
<1>5. ASSUME AttemptFails PROVE IdsOK'
  <2>1. UNCHANGED <<nextId, response, entries, phase>> /\ stream' = << >>
        /\ phase = "streaming"
    BY <1>5 DEF AttemptFails
  <2>2. DOMAIN << >> = {}
    OBVIOUS
  <2> QED
    BY <1>1, <2>1, <2>2 DEF IdsOK
<1>6. ASSUME NextStep PROVE IdsOK'
  <2>1. /\ phase' = "streaming" /\ stream' = << >> /\ response' = << >> /\ entries' = << >>
    BY <1>6, NextStepFacts
  <2>2. DOMAIN << >> = {}
    OBVIOUS
  <2> QED
    BY <2>1, <2>2 DEF IdsOK
<1>7. ASSUME RequestEnds \/ seal PROVE IdsOK'
  <2>1. /\ UNCHANGED <<nextId, stream, response, entries>> /\ phase' # "streaming"
    BY <1>7 DEF RequestEnds, seal
  <2> QED
    BY <1>1, <2>1, IdsKept DEF LogOK
<1>8. ASSUME Chain PROVE IdsOK'
  <2>1. \E i, e : Becomes(i, e)
    BY <1>8, PrepareShape, AuthorizedShape DEF Chain, Prepares, HookAnswers, Typed
  <2>2. UNCHANGED <<nextId, stream, phase, response>>
    BY <1>8 DEF Chain, prepareOne, chainAuthorized
  <2> QED
    BY <1>1, <2>1, <2>2, IdsBecome
<1>9. ASSUME drainOrphan PROVE IdsOK'
  <2>1. /\ phase # "streaming" /\ UNCHANGED <<phase, nextId, stream, response>>
        /\ \E call : entries' = Without(call)
    BY <1>9 DEF drainOrphan
  <2> QED
    BY <2>1, IdsWithout
<1>10. ASSUME NEW c \in DOMAIN response,
              \/ materialize(response[c]) \/ skipCall(response[c])
              \/ \E answer : batchAuthorized(response[c], answer)
       PROVE  IdsOK'
  <2>1. /\ phase # "streaming" /\ phase' \in {phase, "skipping"}
        /\ UNCHANGED <<nextId, stream, response>>
    BY <1>10 DEF materialize, skipCall, batchAuthorized, StopBatchIf
  <2>2. entries' = Without(response[c]) \/ UNCHANGED <<entries, phase>>
    BY <1>10 DEF materialize, skipCall, batchAuthorized
  <2> QED
    BY <1>2, <2>1, <2>2, IdsWithout
<1>11. ASSUME closeInterrupted PROVE IdsOK'
  <2>1. /\ phase # "streaming" /\ UNCHANGED <<phase, nextId, stream, response>>
        /\ \E call : entries' = Without(call) \/ UNCHANGED entries
    BY <1>11, Zenon DEF closeInterrupted
  <2> QED
    BY <1>2, <2>1, IdsWithout
<1>12. ASSUME \/ LeftoverPrepares \/ Over \/ UNCHANGED allVars \/ finalizeNext \/ Abort
              \/ \E c \in DOMAIN response : prepareToolCall(response[c])
              \/ \E t \in Tasks : ToolSettles(t) \/ TaskFinishes(t) \/ Progress(t)
       PROVE  IdsOK'
  <2>1. UNCHANGED <<nextId, stream, response, entries, phase>>
    BY <1>12 DEF LeftoverPrepares, Over, allVars, finalizeNext, finalizePending, Abort,
                 prepareToolCall, ToolSettles, TaskFinishes, Progress
  <2> QED
    BY <1>2, <2>1
<1> QED
  BY <1>3, <1>4, <1>5, <1>6, <1>7, <1>8, <1>9, <1>10, <1>11, <1>12 DEF StepNext, Stream, Batch

---------------------------------------------------------------------------
(* Tasks are handed to the scheduler in two places *)

ChainAdds == \E i, e : HookAnswers(i, e) /\ e.st = "started" /\ AddTask(e.call)
BatchAdds ==
  \E c \in DOMAIN response : batchAuthorized(response[c], "allow") /\ AddTask(response[c])

\* A step is the first of another model step, adds no task, or adds one for a
\* hook's answer to the chain or to the batch.
LEMMA TaskShape ==
  ASSUME Typed, [StepNext]_allVars
  PROVE  \/ NextStep \/ Idles \/ Works
         \/ ChainAdds /\ \E answer \in Answers : chainAuthorized(answer)
         \/ BatchAdds
<1> USE DEF vars, runnerVars, streamVars, batchVars, logVars, taskVars, gateVars
<1>1. ASSUME NEW answer \in Answers, chainAuthorized(answer)
      PROVE  Idles \/ ChainAdds
  BY <1>1, AuthorizedShape DEF Typed, HookAnswers, ChainAdds
<1>2. ASSUME NEW c \in DOMAIN response, NEW answer \in Answers,
             batchAuthorized(response[c], answer)
      PROVE  Idles \/ BatchAdds
  BY <1>2 DEF batchAuthorized, BatchAdds, Idles
<1>3. ASSUME prepareOne \/ drainOrphan PROVE Idles
  BY <1>3 DEF prepareOne, drainOrphan, Idles
<1>4. ASSUME NEW c \in DOMAIN response,
             materialize(response[c]) \/ prepareToolCall(response[c]) \/ skipCall(response[c])
      PROVE  Idles
  BY <1>4 DEF materialize, prepareToolCall, skipCall, Idles
<1>5. ASSUME finalizeNext \/ closeInterrupted \/ seal PROVE Idles
  BY <1>5 DEF finalizeNext, finalizePending, closeInterrupted, seal, Idles
<1>6. ASSUME NEW t \in Tasks, ToolSettles(t) \/ TaskFinishes(t) \/ Progress(t)
      PROVE  Idles \/ Works
  BY <1>6 DEF ToolSettles, TaskFinishes, Progress, Idles, Works
<1>7. ASSUME AttemptFails \/ RequestEnds \/ LeftoverPrepares \/ Abort \/ Over \/ UNCHANGED allVars
      PROVE  Idles
  BY <1>7 DEF AttemptFails, RequestEnds, LeftoverPrepares, Abort, Over, allVars, Idles
<1>8. ASSUME NEW key \in Key, NEW n \in ProviderIds, StreamCall(key, n) PROVE Idles
  BY <1>8 DEF StreamCall, Idles
<1>9. ASSUME NEW tail \in Tails, NEW reason \in {"tool_calls", "paused", "filtered"},
             StreamEnd(tail, reason)
      PROVE  Idles
  BY <1>9 DEF StreamEnd, Idles
<1> QED
  BY <1>1, <1>2, <1>3, <1>4, <1>5, <1>6, <1>7, <1>8, <1>9 DEF StepNext, Stream, Chain, Batch

\* So the tasks of a step, and what became of them, stay.
LEMMA TasksStep ==
  ASSUME Typed, [StepNext]_allVars
  PROVE  /\ NextStep \/ TasksGrow
         /\ aborted => executed' = executed \/ NextStep
<1>1. IInv /\ RecordsOK /\ aborted \in BOOLEAN
  BY DEF Typed, RecordsOK
<1>2. CASE Idles \/ Works
  BY <1>1, <1>2, WorkFacts
<1>3. CASE ChainAdds
  <2>1. PICK i, e : HookAnswers(i, e) /\ AddTask(e.call)
    BY <1>3 DEF ChainAdds
  <2>2. e.call \in CallType
    BY <2>1 DEF HookAnswers, Becomes, EntryType
  <2> QED
    BY <1>1, <2>1, <2>2, AddFacts
<1>4. CASE BatchAdds
  <2>1. PICK c \in DOMAIN response : AddTask(response[c])
    BY <1>4 DEF BatchAdds
  <2> QED
    BY <1>1, <2>1, Elements, AddFacts
<1> QED
  BY <1>2, <1>3, <1>4, TaskShape

---------------------------------------------------------------------------
(* Who changes the entries *)

\* An entry that waits for a hook or for the batch did so before the step.
OldClaims ==
  \A j \in DOMAIN entries' :
    entries'[j].st \in {"authorizing", "deferred"} =>
      \E i \in DOMAIN entries : entries'[j] = entries[i]

\* An entry has no task, unless it had the same one before the step.
OldTasks ==
  \A j \in DOMAIN entries' :
    \/ \E i \in DOMAIN entries : entries'[j] = entries[i]
    \/ \E i \in DOMAIN entries : /\ entries'[j].call = entries[i].call
                                 /\ entries[i].st # "started" /\ entries'[j].st # "started"
                                 /\ entries'[j].task = entries[i].task
    \/ entries'[j].st # "started" /\ entries'[j].task = 0

\* Only the chain makes an entry wait.
LEMMA EntriesShape ==
  ASSUME Typed, [StepNext]_allVars
  PROVE  /\ OldClaims \/ prepareOne
         /\ OldTasks \/ ChainAdds
<1> USE DEF vars, runnerVars, streamVars, batchVars, logVars, taskVars, gateVars
<1>1. RunnerOK /\ RecordsOK /\ IInv /\ IdsOK
  BY DEF Typed
<1>2. ASSUME UNCHANGED entries PROVE OldClaims /\ OldTasks
  BY <1>2 DEF OldClaims, OldTasks
<1>3. ASSUME NEW call, entries' = Without(call) PROVE OldClaims /\ OldTasks
  BY <1>1, <1>3, WithoutFacts DEF OldClaims, OldTasks
<1>4. ASSUME NEW key \in Key, NEW n \in ProviderIds, StreamCall(key, n) PROVE OldClaims /\ OldTasks
  <2>1. PICK call : call = [id |-> <<n, 1>>, key |-> key]
    OBVIOUS
  <2>2. call \in CallType /\ addReady(call)
    BY <1>4, <2>1, ProviderIdsTyped DEF StreamCall, CallType, IdType
  <2>3. Adds(call)
    BY <2>2, AddReadyShape
  <2>4. PICK m \in Nat : m = Len(entries) /\ DOMAIN entries = 1..m
    BY Elements
  <2>5. \A j \in 1..(m + 1) : j \in 1..m \/ j = m + 1
    OBVIOUS
  <2> QED
    BY <1>2, <2>3, <2>4, <2>5 DEF Adds, OldClaims, OldTasks
<1>5. ASSUME NextStep PROVE OldClaims /\ OldTasks
  <2>1. entries' = << >>
    BY <1>5, NextStepFacts
  <2>2. DOMAIN << >> = {}
    OBVIOUS
  <2> QED
    BY <2>1, <2>2 DEF OldClaims, OldTasks
<1>6. ASSUME prepareOne PROVE OldTasks
  <2>1. PICK i, e : Prepares(i, e)
    BY <1>1, <1>6, PrepareShape
  <2> QED
    BY <2>1 DEF Prepares, Becomes, OldTasks
<1>7. ASSUME NEW answer \in Answers, chainAuthorized(answer) PROVE OldClaims /\ (OldTasks \/ ChainAdds)
  <2>1. PICK i, e : HookAnswers(i, e)
    BY <1>1, <1>7, AuthorizedShape
  <2> QED
    BY <2>1 DEF HookAnswers, Becomes, OldTasks, OldClaims, ChainAdds
<1>8. ASSUME drainOrphan PROVE OldClaims /\ OldTasks
  BY <1>3, <1>8 DEF drainOrphan
<1>9. ASSUME NEW c \in DOMAIN response,
             \/ materialize(response[c]) \/ skipCall(response[c]) \/ prepareToolCall(response[c])
             \/ \E answer : batchAuthorized(response[c], answer)
      PROVE  OldClaims /\ OldTasks
  BY <1>2, <1>3, <1>9 DEF materialize, skipCall, prepareToolCall, batchAuthorized
<1>10. ASSUME closeInterrupted PROVE OldClaims /\ OldTasks
  <2>1. \E call : entries' = Without(call) \/ UNCHANGED entries
    BY <1>10, Zenon DEF closeInterrupted
  <2> QED
    BY <1>2, <1>3, <2>1
<1>11. ASSUME \/ LeftoverPrepares \/ Over \/ UNCHANGED allVars \/ finalizeNext \/ Abort
              \/ AttemptFails \/ RequestEnds \/ seal
              \/ \E t \in Tasks : ToolSettles(t) \/ TaskFinishes(t) \/ Progress(t)
       PROVE  UNCHANGED entries
  BY <1>11 DEF LeftoverPrepares, Over, allVars, finalizeNext, finalizePending, Abort,
               AttemptFails, RequestEnds, seal, ToolSettles, TaskFinishes, Progress
<1>12. ASSUME NEW tail \in Tails, NEW reason \in {"tool_calls", "paused", "filtered"},
              StreamEnd(tail, reason)
       PROVE  UNCHANGED entries
  BY <1>12 DEF StreamEnd
<1> QED
  BY <1>2, <1>4, <1>5, <1>6, <1>7, <1>8, <1>9, <1>10, <1>11, <1>12
  DEF StepNext, Stream, Chain, Batch

---------------------------------------------------------------------------
(* Writes *)

\* A call that may start early cannot write.
LEMMA EligibleCannotWrite ==
  ASSUME NEW key, isStreamingEligible(key)
  PROVE  ~MayWrite(key)
BY DEF isStreamingEligible, MayWrite, Writes

\* The response is final once the stream has ended.
LEMMA PhaseShape ==
  ASSUME Typed, [StepNext]_allVars
  PROVE  \/ NextStep
         \/ phase = "streaming" /\ UNCHANGED phase
         \/ phase = "streaming" /\ phase' # "streaming"
         \/ phase # "streaming" /\ phase' # "streaming" /\ UNCHANGED <<response, stream>>
<1> USE DEF vars, runnerVars, streamVars, batchVars, logVars, taskVars, gateVars
<1>1. ASSUME Chain \/ LeftoverPrepares \/ Abort \/ Over \/ UNCHANGED allVars \/ drainOrphan
             \/ finalizeNext \/ closeInterrupted
      PROVE  UNCHANGED <<phase, response, stream>>
  BY <1>1 DEF Chain, prepareOne, chainAuthorized, LeftoverPrepares, Abort, Over, allVars,
              drainOrphan, finalizeNext, finalizePending, closeInterrupted
<1>2. ASSUME NEW t \in Tasks, ToolSettles(t) \/ TaskFinishes(t) \/ Progress(t)
      PROVE  UNCHANGED <<phase, response, stream>>
  BY <1>2 DEF ToolSettles, TaskFinishes, Progress
<1>3. ASSUME NEW c \in DOMAIN response,
             \/ materialize(response[c]) \/ prepareToolCall(response[c]) \/ skipCall(response[c])
             \/ \E answer : batchAuthorized(response[c], answer)
      PROVE  /\ phase # "streaming" /\ phase' # "streaming" /\ UNCHANGED <<response, stream>>
  BY <1>3 DEF materialize, prepareToolCall, skipCall, batchAuthorized, StopBatchIf
<1>4. ASSUME seal
      PROVE  /\ phase # "streaming" /\ phase' # "streaming" /\ UNCHANGED <<response, stream>>
  BY <1>4 DEF seal
<1>5. ASSUME Stream \/ RequestEnds PROVE phase = "streaming" \/ NextStep
  BY <1>5 DEF Stream, RequestEnds, StreamCall, StreamEnd, AttemptFails
<1> QED
  BY <1>1, <1>2, <1>3, <1>4, <1>5 DEF StepNext, Batch

\* No step hands a tool that may write to the scheduler before its time.
LEMMA WritesStep ==
  ASSUME Typed, WritesOK, [StepNext]_allVars
  PROVE  WritesOK'
<1> USE DEF vars, runnerVars, streamVars, batchVars, logVars, taskVars, gateVars
<1>1. IInv /\ RecordsOK /\ RunnerOK
  BY DEF Typed
<1>2. \A i \in DOMAIN entries' : entries'[i].st = "authorizing" =>
        isStreamingEligible(entries'[i].call.key)
  <2>1. CASE OldClaims
    BY <2>1 DEF OldClaims, WritesOK
  <2>2. CASE prepareOne
    <3>1. PICK i, e : Prepares(i, e)
      BY <1>1, <2>2, PrepareShape
    <3> QED
      BY <3>1 DEF Prepares, Becomes, WritesOK
  <2> QED
    BY <2>1, <2>2, EntriesShape
<1> DEFINE Late(t) == phase' # "streaming" /\ taskCall'[t].id \in IdsOf(response')
<1>3. ASSUME TasksGrow, ~NextStep, NEW t \in Tasks, MayWrite(taskCall'[t].key)
      PROVE  Late(t)
  <2>1. taskCall'[t] = taskCall[t]
    BY <1>3 DEF TasksGrow
  <2>2. phase # "streaming" /\ taskCall[t].id \in IdsOf(response)
    BY <1>3, <2>1 DEF WritesOK, KeyOfTask
  <2>3. phase' # "streaming" /\ response' = response
    BY <1>3, <2>2, PhaseShape
  <2> QED
    BY <2>1, <2>2, <2>3
<1>4. \A t \in Tasks' : MayWrite(taskCall'[t].key) => Late(t)
  <2>1. CASE NextStep
    BY <2>1, NextStepFacts DEF Tasks
  <2>2. CASE ~NextStep /\ (Idles \/ Works)
    <3>1. TasksGrow /\ Tasks' = Tasks
      BY <1>1, <2>2, WorkFacts DEF RecordsOK
    <3> QED
      BY <1>3, <2>2, <3>1
  <2>3. CASE ~NextStep /\ ChainAdds
    <3>1. PICK i, e : HookAnswers(i, e) /\ AddTask(e.call)
      BY <2>3 DEF ChainAdds
    <3>2. i \in DOMAIN entries /\ entries[i].st = "authorizing" /\ e.call = entries[i].call
          /\ e.call \in CallType
      BY <3>1 DEF HookAnswers, Becomes, EntryType
    <3>3. ~MayWrite(e.call.key)
      BY <3>2, EligibleCannotWrite DEF WritesOK
    <3>4. TasksGrow /\ Tasks' = Tasks \cup {added'} /\ taskCall'[added'] = e.call
      BY <1>1, <3>1, <3>2, AddFacts
    <3> QED
      BY <1>3, <2>3, <3>3, <3>4
  <2>4. CASE ~NextStep /\ BatchAdds
    <3>1. PICK c \in DOMAIN response : batchAuthorized(response[c], "allow") /\ AddTask(response[c])
      BY <2>4 DEF BatchAdds
    <3>2. TasksGrow /\ Tasks' = Tasks \cup {added'} /\ taskCall'[added'] = response[c]
      BY <1>1, <3>1, Elements, AddFacts
    <3>3. phase' # "streaming" /\ response' = response
      BY <3>1 DEF batchAuthorized, StopBatchIf
    <3>4. response[c].id \in IdsOf(response')
      BY <3>3 DEF IdsOf
    <3> QED
      BY <1>3, <2>4, <3>2, <3>3, <3>4
  <2> QED
    BY <2>1, <2>2, <2>3, <2>4, TaskShape
<1>5. \A k : MayWrite(k)' <=> MayWrite(k)
  BY DEF MayWrite
<1> QED
  BY <1>2, <1>4, <1>5 DEF WritesOK, KeyOfTask, IdsOf, isStreamingEligible

---------------------------------------------------------------------------
(* One execution per key *)

TakenStays == \A k \in Key : dedup.deferreds[k] # "none" => dedup'.deferreds[k] # "none"

\* The deduplicator forgets no key before the next step.
LEMMA TakenStep ==
  ASSUME Typed, [StepNext]_allVars
  PROVE  NextStep \/ TakenStays
<1> USE DEF vars, runnerVars, streamVars, batchVars, logVars, taskVars, gateVars
<1>1. IsDedup(dedup)
  BY DEF Typed, RunnerOK
<1>2. ASSUME UNCHANGED dedup PROVE TakenStays
  BY <1>2 DEF TakenStays
<1>3. ASSUME NEW call, dedup' = checkSameStep(dedup, call) PROVE TakenStays
  BY <1>1, <1>3, CheckFacts DEF TakenStays
<1>4. ASSUME NEW call \in CallType, NEW out \in Outcomes, dedup' = finalizeResult(dedup, call, out)
      PROVE  TakenStays
  <2>1. call.key \in Key
    BY DEF CallType
  <2> QED
    BY <1>1, <1>4, <2>1, FinalizeFacts DEF TakenStays
<1>5. ASSUME prepareOne PROVE TakenStays
  BY <1>2, <1>3, <1>5, PrepareShape DEF Prepares, Typed
<1>6. ASSUME drainOrphan PROVE TakenStays
  <2>1. PICK i \in DOMAIN entries :
          dedup' = IF entries[i].st = "skipped" THEN dedup
                   ELSE finalizeResult(dedup, entries[i].call,
                                       EntryOutcome(entries[i], "discarded"))
    BY <1>6 DEF drainOrphan, FirstOf, Orphans
  <2>2. entries[i].call \in CallType /\ EntryOutcome(entries[i], "discarded") \in Outcomes
    BY Elements, EntryOutcomes
  <2> QED
    BY <1>2, <1>4, <2>1, <2>2
<1>7. ASSUME finalizeNext PROVE TakenStays
  <2>1. PICK j : j = Len(results) + 1
    OBVIOUS
  <2>2. /\ j <= Len(response) /\ Len(pending) = Len(response)
        /\ \E out \in {pending[j].out, TaskOutcome(pending[j].task)} :
             dedup' = finalizeResult(dedup, response[j], out)
    BY <1>7, <2>1 DEF finalizeNext, finalizePending
  <2>3. j \in DOMAIN response /\ j \in DOMAIN pending
    BY <2>1, <2>2, Elements
  <2>4. response[j] \in CallType /\ pending[j].out \in Outcomes
        /\ TaskOutcome(pending[j].task) \in Outcomes
    BY <2>3, Elements DEF TaskOutcome, Outcomes, Known
  <2> QED
    BY <1>4, <2>2, <2>4
<1>8. ASSUME closeInterrupted PROVE TakenStays
  <2>1. PICK j : j = Len(results) + 1
    OBVIOUS
  <2>2. /\ j <= Len(response)
        /\ \/ UNCHANGED dedup
           \/ \E i \in EntryOf(response[j]) :
                dedup' = finalizeResult(dedup, response[j], EntryOutcome(entries[i], "unexecuted"))
    BY <1>8, <2>1, Zenon DEF closeInterrupted
  <2>3. response[j] \in CallType
    BY <2>1, <2>2, Elements
  <2>4. \A i \in EntryOf(response[j]) : EntryOutcome(entries[i], "unexecuted") \in Outcomes
    BY EntryOutcomes DEF EntryOf
  <2> QED
    BY <1>2, <1>4, <2>2, <2>3, <2>4
<1>9. ASSUME LeftoverPrepares PROVE TakenStays
  BY <1>2, <1>3, <1>9 DEF LeftoverPrepares
<1>10. ASSUME NEW c \in DOMAIN response,
              \/ materialize(response[c]) \/ skipCall(response[c]) \/ prepareToolCall(response[c])
              \/ \E answer : batchAuthorized(response[c], answer)
       PROVE  TakenStays
  BY <1>2, <1>3, <1>10 DEF materialize, skipCall, prepareToolCall, batchAuthorized
<1>11. ASSUME \/ Over \/ UNCHANGED allVars \/ Abort \/ AttemptFails \/ RequestEnds \/ seal
              \/ \E t \in Tasks : ToolSettles(t) \/ TaskFinishes(t) \/ Progress(t)
              \/ \E answer : chainAuthorized(answer)
       PROVE  UNCHANGED dedup
  BY <1>11 DEF Over, allVars, Abort, AttemptFails, RequestEnds, seal, ToolSettles, TaskFinishes,
               Progress, chainAuthorized
<1>12. ASSUME NEW key, NEW n, StreamCall(key, n) PROVE UNCHANGED dedup
  BY <1>12 DEF StreamCall
<1>13. ASSUME NEW tail, NEW reason, StreamEnd(tail, reason) PROVE UNCHANGED dedup
  BY <1>13 DEF StreamEnd
<1> QED
  BY <1>2, <1>5, <1>6, <1>7, <1>8, <1>9, <1>10, <1>11, <1>12, <1>13
  DEF StepNext, Stream, Chain, Batch

\* A task is added for a key nobody else has or wants.
LEMMA AddOnce ==
  ASSUME Typed, IdsOK', TasksOnce, EntriesOnce, TakenStays, OldClaims,
         NEW call \in CallType, AddTask(call), Taken(call.key),
         \A t \in Tasks : KeyOfTask(t) # call.key,
         \A j \in DOMAIN entries' :
           entries'[j].st \in {"authorizing", "deferred"} => entries'[j].call.key # call.key
  PROVE  TasksOnce' /\ EntriesOnce'
<1>1. /\ Tasks' = Tasks \cup {added'} /\ added' \notin Tasks
      /\ taskCall'[added'] = call /\ \A t \in Tasks : taskCall'[t] = taskCall[t]
  BY AddFacts DEF Typed, TasksGrow
<1>2. call.key \in Key /\ \A t \in Tasks : taskCall[t].key \in Key
  BY Elements DEF CallType
<1>3. \A i \in DOMAIN entries : entries[i].call.key \in Key
  BY Elements DEF CallType
<1>4. TasksOnce'
  BY <1>1, <1>2 DEF TasksOnce, KeyOfTask, Taken, TakenStays
<1>5. EntriesOnce'
  BY <1>1, <1>3 DEF EntriesOnce, KeyOfTask, Taken, TakenStays, OldClaims, Claims, IdsOK
<1> QED
  BY <1>4, <1>5

\* No task is added and no entry begins to wait.
LEMMA NothingNew ==
  ASSUME Typed, IdsOK', TasksOnce, EntriesOnce, TakenStays, OldClaims, Idles \/ Works
  PROVE  TasksOnce' /\ EntriesOnce'
<1>1. Tasks' = Tasks /\ taskCall' = taskCall
  BY WorkFacts DEF Typed, RecordsOK
<1>2. \A t \in Tasks : taskCall[t].key \in Key
  BY Elements DEF CallType
<1>3. \A i \in DOMAIN entries : entries[i].call.key \in Key
  BY Elements DEF CallType
<1>4. TasksOnce'
  BY <1>1, <1>2 DEF TasksOnce, KeyOfTask, Taken, TakenStays
<1>5. EntriesOnce'
  BY <1>1, <1>3 DEF EntriesOnce, KeyOfTask, Taken, TakenStays, OldClaims, Claims, IdsOK
<1> QED
  BY <1>4, <1>5

\* No step lets two tasks, two waiting entries, or one of each share a key.
LEMMA OnceStep ==
  ASSUME Typed, IdsOK', ClaimsOK, [StepNext]_allVars
  PROVE  TasksOnce' /\ EntriesOnce'
<1> USE DEF vars, runnerVars, streamVars, batchVars, logVars, taskVars, gateVars
<1>1. IInv /\ RecordsOK /\ RunnerOK /\ IsDedup(dedup) /\ aborted \in BOOLEAN
  BY DEF Typed, RunnerOK, RecordsOK
<1>2. TasksOnce /\ EntriesOnce /\ BatchOnce
  BY DEF ClaimsOK
<1>3. CASE NextStep
  <2>1. Tasks' = {} /\ entries' = << >>
    BY <1>3, NextStepFacts DEF Tasks
  <2>2. DOMAIN << >> = {}
    OBVIOUS
  <2> QED
    BY <2>1, <2>2 DEF TasksOnce, EntriesOnce
<1>4. CASE ~NextStep /\ prepareOne
  <2>1. PICK i, e : Prepares(i, e)
    BY <1>1, <1>4, PrepareShape
  <2>2. TakenStays
    BY <1>4, TakenStep
  <2>3. Tasks' = Tasks /\ taskCall' = taskCall
    BY <1>4 DEF prepareOne, Tasks
  <2>4. TasksOnce'
    <3>1. \A t \in Tasks : taskCall[t].key \in Key
      BY Elements DEF CallType
    <3> QED
      BY <1>2, <2>2, <2>3, <3>1 DEF TasksOnce, KeyOfTask, Taken, TakenStays
  <2>5. /\ i \in DOMAIN entries /\ DOMAIN entries' = DOMAIN entries /\ e.call = entries[i].call
        /\ \A j \in DOMAIN entries : entries'[j] = IF j = i THEN e ELSE entries[j]
    BY <2>1 DEF Prepares, Becomes
  <2>6. \A j \in DOMAIN entries : entries[j].call.key \in Key
    BY Elements DEF CallType
  <2>7. CASE e.st \in {"authorizing", "deferred"}
    <3>1. dedup' = checkSameStep(dedup, e.call) /\ ~IsDuplicate(dedup', e.call)
      BY <2>1, <2>7 DEF Prepares
    <3>2. dedup.deferreds[e.call.key] = "none" /\ dedup'.deferreds[e.call.key] # "none"
      <4>1. e.call.key \in Key
        BY <2>5, <2>6
      <4>2. PICK call : call = e.call
        OBVIOUS
      <4>3. /\ call.key \in Key => checkSameStep(dedup, call).deferreds[call.key] # "none"
            /\ call.key \in Key /\ ~IsDuplicate(checkSameStep(dedup, call), call) =>
                 dedup.deferreds[call.key] = "none"
        BY <1>1, CheckFacts
      <4> QED
        BY <3>1, <4>1, <4>2, <4>3
    <3>3. \A t \in Tasks : taskCall[t].key # e.call.key
      BY <1>2, <3>2 DEF TasksOnce, Taken, KeyOfTask
    <3>4. \A j \in DOMAIN entries :
            entries[j].st \in {"authorizing", "deferred"} => entries[j].call.key # e.call.key
      BY <1>2, <3>2 DEF EntriesOnce, Taken, Claims
    <3>5. EntriesOnce'
      BY <1>2, <2>2, <2>3, <2>5, <2>6, <3>2, <3>3, <3>4
      DEF EntriesOnce, Taken, Claims, KeyOfTask, TakenStays
    <3> QED
      BY <2>4, <3>5
  <2>8. CASE e.st \notin {"authorizing", "deferred"}
    <3>1. EntriesOnce'
      BY <1>2, <2>2, <2>3, <2>5, <2>6, <2>8 DEF EntriesOnce, Taken, Claims, KeyOfTask, TakenStays
    <3> QED
      BY <2>4, <3>1
  <2> QED
    BY <2>7, <2>8
<1>5. CASE ~NextStep /\ ~prepareOne /\ (Idles \/ Works)
  BY <1>2, <1>5, TakenStep, EntriesShape, NothingNew
<1>6. CASE ~NextStep /\ ~prepareOne /\ ChainAdds
  <2>1. PICK i, e : HookAnswers(i, e) /\ e.st = "started" /\ AddTask(e.call)
    BY <1>6 DEF ChainAdds
  <2>2. TakenStays /\ OldClaims
    BY <1>6, TakenStep, EntriesShape
  <2>3. /\ i \in DOMAIN entries /\ DOMAIN entries' = DOMAIN entries /\ e.call = entries[i].call
        /\ \A j \in DOMAIN entries : entries'[j] = IF j = i THEN e ELSE entries[j]
        /\ entries[i].st = "authorizing" /\ e.call \in CallType
    BY <2>1 DEF HookAnswers, Becomes, EntryType
  <2>4. /\ Taken(e.call.key) /\ \A t \in Tasks : KeyOfTask(t) # e.call.key
        /\ \A j \in DOMAIN entries :
             entries[j].st \in {"authorizing", "deferred"} /\ entries[j].call.key = e.call.key => i = j
    BY <1>2, <2>3 DEF EntriesOnce, Claims
  <2>5. \A j \in DOMAIN entries' :
          entries'[j].st \in {"authorizing", "deferred"} => entries'[j].call.key # e.call.key
    BY <2>1, <2>3, <2>4
  <2> QED
    BY <1>2, <2>1, <2>2, <2>3, <2>4, <2>5, AddOnce
<1>7. CASE ~NextStep /\ ~prepareOne /\ BatchAdds
  <2>1. PICK c \in DOMAIN response : batchAuthorized(response[c], "allow") /\ AddTask(response[c])
    BY <1>7 DEF BatchAdds
  <2>2. TakenStays /\ OldClaims
    BY <1>7, TakenStep, EntriesShape
  <2>3. authorizing /\ AtCall(response[c]) /\ entries' = Without(response[c])
    BY <2>1 DEF batchAuthorized
  <2>4. PICK call : call = response[c]
    OBVIOUS
  <2>5. call \in CallType /\ call = BatchCall
    BY <2>3, <2>4, AtCallFacts DEF BatchCall
  <2>6. /\ Taken(call.key) /\ \A t \in Tasks : KeyOfTask(t) # call.key
        /\ \A i \in DOMAIN entries :
             entries[i].st \in {"authorizing", "deferred"} /\ entries[i].call.key = call.key =>
               entries[i].call.id = call.id
    BY <1>2, <2>3, <2>5 DEF BatchOnce, Claims
  <2>7. \A j \in DOMAIN entries' : \E i \in DOMAIN entries :
          entries'[j] = entries[i] /\ entries[i].call.id # call.id
    BY <2>3, <2>4, WithoutFacts, ZenonT(30) DEF Typed
  <2>8. \A j \in DOMAIN entries' :
          entries'[j].st \in {"authorizing", "deferred"} => entries'[j].call.key # call.key
    BY <2>6, <2>7
  <2> QED
    BY <1>2, <2>1, <2>2, <2>4, <2>5, <2>6, <2>8, AddOnce
<1> QED
  BY <1>3, <1>4, <1>5, <1>6, <1>7, TaskShape

\* While the batch waits for a hook, the chain goes on with other calls.
LEMMA BatchWaits ==
  ASSUME Typed, BatchOnce, authorizing, TakenStays, UNCHANGED <<authorizing, phase, response, pending>>,
         UNCHANGED entries \/ \E i, e : Becomes(i, e) /\ entries[i].st \in {"queued", "authorizing"}
           /\ (e.st \in {"authorizing", "deferred"} => e.call.key # BatchCall.key),
         \A t \in Tasks' : taskCall'[t].key # BatchCall.key
  PROVE  BatchOnce'
<1>1. /\ phase = "batch" /\ Orphans = {} /\ Len(pending) < Len(response)
      /\ dedup.deferreds[BatchCall.key] # "none"
      /\ \A i \in DOMAIN entries :
           entries[i].call.id = BatchCall.id => entries[i].st = "deferred"
      /\ \A i \in DOMAIN entries :
           entries[i].st \in {"authorizing", "deferred"} /\ entries[i].call.key = BatchCall.key =>
             entries[i].call.id = BatchCall.id
  BY DEF BatchOnce, Taken, EntryOf, Claims
<1>2. PICK call : call = BatchCall
  OBVIOUS
<1>3. call = response[Len(pending) + 1] /\ BatchCall' = call
  BY <1>2 DEF BatchCall
<1>4. call.key \in Key
  <2>1. Len(pending) + 1 \in DOMAIN response
    BY <1>1, Elements
  <2> QED
    BY <1>3, <2>1, Elements DEF CallType
<1>5. dedup'.deferreds[call.key] # "none"
  BY <1>1, <1>2, <1>4 DEF TakenStays
<1>6. CASE UNCHANGED entries
  <2>1. Orphans' = {}
    BY <1>1, <1>6 DEF Orphans, IdsOf
  <2> QED
    BY <1>1, <1>2, <1>3, <1>5, <1>6, <2>1 DEF BatchOnce, Taken, EntryOf, Claims, KeyOfTask
<1>7. ASSUME NEW i, NEW e, Becomes(i, e), entries[i].st \in {"queued", "authorizing"},
             e.st \in {"authorizing", "deferred"} => e.call.key # BatchCall.key
      PROVE  BatchOnce'
  <2>1. /\ i \in DOMAIN entries /\ DOMAIN entries' = DOMAIN entries /\ e.call = entries[i].call
        /\ \A j \in DOMAIN entries : entries'[j] = IF j = i THEN e ELSE entries[j]
    BY <1>7 DEF Becomes
  <2>2. Orphans' = {}
    BY <1>1, <2>1 DEF Orphans, IdsOf
  <2>3. entries[i].call.id # call.id
    BY <1>1, <1>2, <1>7, <2>1
  <2>4. \A j \in DOMAIN entries' : entries'[j].call.id = call.id => entries'[j].st = "deferred"
    BY <1>1, <1>2, <2>1, <2>3
  <2>5. \A j \in DOMAIN entries' :
           entries'[j].st \in {"authorizing", "deferred"} /\ entries'[j].call.key = call.key =>
             entries'[j].call.id = call.id
    BY <1>1, <1>2, <1>7, <2>1
  <2> QED
    BY <1>1, <1>2, <1>3, <1>5, <2>2, <2>4, <2>5 DEF BatchOnce, Taken, EntryOf, Claims, KeyOfTask
<1> QED
  BY <1>6, <1>7

\* Every step keeps the call the batch is authorizing the only one of its key.
LEMMA BatchStep ==
  ASSUME Typed, LogOK, ClaimsOK, [StepNext]_allVars
  PROVE  BatchOnce'
<1> USE DEF vars, runnerVars, streamVars, batchVars, logVars, taskVars, gateVars
<1>1. IInv /\ RecordsOK /\ RunnerOK /\ IsDedup(dedup) /\ IdsOK
  BY DEF Typed, RunnerOK
<1>2. TasksOnce /\ EntriesOnce /\ BatchOnce
  BY DEF ClaimsOK
<1>3. ASSUME authorizing
      PROVE  /\ phase = "batch" /\ Orphans = {} /\ Len(pending) < Len(response)
             /\ Len(pending) # Len(response) /\ Len(results) # Len(response)
  <2>1. phase = "batch" /\ Orphans = {} /\ Len(pending) < Len(response)
    BY <1>2, <1>3 DEF BatchOnce
  <2>2. Len(pending) = Len(calls) /\ Len(results) <= Len(calls)
    BY <2>1 DEF LogOK
  <2>3. Len(pending) \in Nat /\ Len(response) \in Nat /\ Len(results) \in Nat
    BY Elements
  <2>4. \A l, m, n \in Nat : m < n /\ l <= m => m # n /\ l # n
    OBVIOUS
  <2>5. Len(results) <= Len(pending)
    BY <2>2
  <2> QED
    BY <2>1, <2>3, <2>4, <2>5
<1>4. ASSUME ~authorizing' PROVE BatchOnce'
  BY <1>4 DEF BatchOnce
<1>5. ASSUME UNCHANGED <<authorizing, phase, response, pending, entries, dedup>>, Idles \/ Works
      PROVE  BatchOnce'
  <2>1. Tasks' = Tasks /\ taskCall' = taskCall
    BY <1>1, <1>5, WorkFacts DEF RecordsOK
  <2> QED
    BY <1>2, <1>5, <2>1
    DEF BatchOnce, Taken, EntryOf, Claims, KeyOfTask, BatchCall, Orphans, IdsOf
<1>6. ASSUME authorizing PROVE BatchCall.key \in Key
  <2>1. \A m, n \in Nat : m < n => m + 1 \in 1..n
    OBVIOUS
  <2>2. /\ Len(pending) \in Nat /\ Len(response) \in Nat /\ DOMAIN response = 1..Len(response)
        /\ Len(pending) < Len(response)
    BY <1>3, <1>6, Elements
  <2>3. Len(pending) + 1 \in DOMAIN response
    BY <2>1, <2>2
  <2> QED
    BY <2>3, Elements DEF BatchCall, CallType
<1>7. ASSUME authorizing
      PROVE  /\ dedup.deferreds[BatchCall.key] # "none"
             /\ \A t \in Tasks : taskCall[t].key # BatchCall.key
  BY <1>2, <1>7 DEF BatchOnce, Taken, KeyOfTask
<1>8. ASSUME NextStep PROVE BatchOnce'
  BY <1>4, <1>8, NextStepFacts
<1>9. ASSUME prepareOne PROVE BatchOnce'
  <2>1. PICK i, e : Prepares(i, e)
    BY <1>1, <1>9, PrepareShape
  <2>2. CASE authorizing
    <3>1. TakenStays
      BY <1>3, <1>8, <1>9, <2>2, TakenStep DEF NextStep
    <3>2. /\ Becomes(i, e) /\ entries[i].st = "queued" /\ e.call.key \in Key
      BY <2>1, Elements DEF Prepares, Becomes, CallType
    <3>3. e.st \in {"authorizing", "deferred"} => e.call.key # BatchCall.key
      <4> SUFFICES ASSUME e.st \in {"authorizing", "deferred"}
                   PROVE  dedup.deferreds[e.call.key] = "none"
        BY <1>7, <2>2
      <4>1. dedup' = checkSameStep(dedup, e.call) /\ ~IsDuplicate(dedup', e.call)
        BY <2>1 DEF Prepares
      <4>2. PICK call : call = e.call
        OBVIOUS
      <4>3. call.key \in Key /\ ~IsDuplicate(checkSameStep(dedup, call), call) =>
                 dedup.deferreds[call.key] = "none"
        BY <1>1, CheckFacts
      <4> QED
        BY <3>2, <4>1, <4>2, <4>3
    <3>4. UNCHANGED <<authorizing, phase, response, pending, taskCall, Tasks>>
      BY <1>9 DEF prepareOne, Tasks
    <3>5. \A t \in Tasks' : taskCall'[t].key # BatchCall.key
      BY <1>7, <2>2, <3>4
    <3> QED
      BY <1>2, <2>2, <3>1, <3>2, <3>3, <3>4, <3>5, BatchWaits
  <2>3. CASE ~authorizing
    BY <1>4, <1>9, <2>3 DEF prepareOne
  <2> QED
    BY <2>2, <2>3
<1>10. ASSUME NEW answer \in Answers, chainAuthorized(answer) PROVE BatchOnce'
  <2>1. PICK i, e : HookAnswers(i, e)
    BY <1>1, <1>10, AuthorizedShape
  <2>2. UNCHANGED <<authorizing, phase, response, pending, dedup>>
    BY <1>10 DEF chainAuthorized
  <2>3. CASE authorizing
    <3>1. TakenStays
      BY <2>2 DEF TakenStays
    <3>2. /\ Becomes(i, e) /\ entries[i].st = "authorizing" /\ e.st \in {"started", "settled"}
          /\ i \in DOMAIN entries /\ e.call = entries[i].call /\ e.call \in CallType
      BY <2>1 DEF HookAnswers, Becomes, EntryType
    <3>3. e.call.key # BatchCall.key
      BY <1>2, <2>3, <3>2 DEF BatchOnce, EntryOf, Claims
    <3>4. \A t \in Tasks' : taskCall'[t].key # BatchCall.key
      <4>1. CASE AddTask(e.call)
        <5>1. /\ Tasks' = Tasks \cup {added'} /\ taskCall'[added'] = e.call
              /\ \A t \in Tasks : taskCall'[t] = taskCall[t]
          BY <1>1, <3>2, <4>1, AddFacts DEF TasksGrow
        <5> QED
          BY <1>7, <2>3, <3>3, <5>1
      <4>2. CASE Idles
        BY <1>7, <2>3, <4>2 DEF Idles, Tasks
      <4> QED
        BY <2>1, <4>1, <4>2 DEF HookAnswers
    <3> QED
      BY <1>2, <2>2, <2>3, <3>1, <3>2, <3>3, <3>4, BatchWaits
  <2>4. CASE ~authorizing
    BY <1>4, <2>2, <2>4
  <2> QED
    BY <2>3, <2>4
<1>11. ASSUME LeftoverPrepares PROVE BatchOnce'
  <2>1. CASE authorizing
    <3>1. TakenStays
      BY <1>3, <1>8, <1>11, <2>1, TakenStep DEF NextStep
    <3>2. UNCHANGED <<authorizing, phase, response, pending, taskCall, Tasks, entries>>
      BY <1>11 DEF LeftoverPrepares, Tasks
    <3>3. \A t \in Tasks' : taskCall'[t].key # BatchCall.key
      BY <1>7, <2>1, <3>2
    <3> QED
      BY <1>2, <2>1, <3>1, <3>2, <3>3, BatchWaits
  <2>2. CASE ~authorizing
    BY <1>4, <1>11, <2>2 DEF LeftoverPrepares
  <2> QED
    BY <2>1, <2>2
<1>12. ASSUME NEW c \in DOMAIN response, materialize(response[c]) PROVE BatchOnce'
  <2>1. PICK i \in EntryOf(response[c]) :
          \/ /\ entries[i].st = "deferred"
             /\ UNCHANGED <<entries, pending, phase>>
          \/ UNCHANGED authorizing
    BY <1>12 DEF materialize
  <2>2. /\ ~authorizing /\ phase = "batch" /\ AtCall(response[c])
        /\ UNCHANGED <<taskCall, Tasks, dedup, response>>
    BY <1>12 DEF materialize, Tasks
  <2>3. CASE UNCHANGED authorizing
    BY <1>4, <2>2, <2>3
  <2>4. CASE entries[i].st = "deferred" /\ UNCHANGED <<entries, pending, phase>>
    <3>1. PICK call : call = response[c]
      OBVIOUS
    <3>2. call = BatchCall /\ Orphans = {} /\ Len(pending) < Len(response) /\ BatchCall' = BatchCall
      BY <2>2, <2>4, <3>1, AtCallFacts DEF BatchCall, AtCall
    <3>3. i \in DOMAIN entries /\ entries[i].call.id = call.id /\ entries[i].call = call
      BY <1>1, <2>2, <3>1 DEF EntryOf, IdsOK
    <3>4. /\ dedup.deferreds[call.key] # "none"
          /\ \A t \in Tasks : taskCall[t].key # call.key
          /\ \A j \in DOMAIN entries :
               entries[j].st \in {"authorizing", "deferred"} /\ entries[j].call.key = call.key => j = i
      BY <1>2, <2>4, <3>3 DEF EntriesOnce, Claims, Taken, KeyOfTask
    <3>5. \A j \in EntryOf(call) : j = i
      BY <1>1, <3>3 DEF IdsOK, EntryOf
    <3>6. Orphans' = {} /\ EntryOf(BatchCall)' = EntryOf(call)
      BY <2>2, <2>4, <3>2 DEF Orphans, IdsOf, EntryOf
    <3> QED
      BY <2>2, <2>4, <3>2, <3>3, <3>4, <3>5, <3>6 DEF BatchOnce, Taken, KeyOfTask, Claims
  <2> QED
    BY <2>1, <2>3, <2>4
<1>13. ASSUME NEW c \in DOMAIN response, prepareToolCall(response[c]) PROVE BatchOnce'
  <2>1. PICK call : call = response[c]
    OBVIOUS
  <2>2. /\ ~authorizing /\ phase = "batch" /\ AtCall(call) /\ EntryOf(call) = {}
        /\ UNCHANGED <<taskCall, Tasks, response, entries, phase>>
        /\ \/ UNCHANGED authorizing
           \/ /\ PrepareOutcome(checkSameStep(dedup, call), call) = "runnable"
              /\ dedup' = checkSameStep(dedup, call) /\ UNCHANGED pending
    BY <1>13, <2>1 DEF prepareToolCall, Tasks
  <2>3. CASE UNCHANGED authorizing
    BY <1>4, <2>2, <2>3
  <2>4. CASE /\ PrepareOutcome(checkSameStep(dedup, call), call) = "runnable"
             /\ dedup' = checkSameStep(dedup, call) /\ UNCHANGED pending
    <3>1. call = BatchCall /\ Orphans = {} /\ Len(pending) < Len(response) /\ BatchCall' = BatchCall
          /\ call \in CallType
      BY <2>2, <2>4, AtCallFacts DEF BatchCall, AtCall
    <3>2. call.key \in Key /\ ~IsDuplicate(checkSameStep(dedup, call), call)
      BY <2>4, <3>1 DEF PrepareOutcome, CallType
    <3>3. dedup.deferreds[call.key] = "none" /\ dedup'.deferreds[call.key] # "none"
      BY <1>1, <2>4, <3>2, CheckFacts
    <3>4. /\ \A t \in Tasks : taskCall[t].key # call.key
          /\ \A j \in DOMAIN entries :
               entries[j].st \in {"authorizing", "deferred"} => entries[j].call.key # call.key
      BY <1>2, <3>3 DEF TasksOnce, EntriesOnce, Claims, Taken, KeyOfTask
    <3>5. Orphans' = {} /\ EntryOf(BatchCall)' = EntryOf(call)
      BY <2>2, <2>4, <3>1 DEF Orphans, IdsOf, EntryOf
    <3> QED
      BY <2>2, <2>4, <3>1, <3>3, <3>4, <3>5 DEF BatchOnce, Taken, KeyOfTask, Claims
  <2> QED
    BY <2>2, <2>3, <2>4
<1>14. ASSUME NEW c \in DOMAIN response, NEW answer, batchAuthorized(response[c], answer)
       PROVE  BatchOnce'
  BY <1>4, <1>14 DEF batchAuthorized
<1>15. ASSUME \/ drainOrphan \/ finalizeNext \/ closeInterrupted \/ seal \/ RequestEnds
              \/ AttemptFails
              \/ \E c \in DOMAIN response : skipCall(response[c])
              \/ \E key, n : StreamCall(key, n)
              \/ \E tail, reason : StreamEnd(tail, reason)
       PROVE  ~authorizing /\ UNCHANGED authorizing
  <2>1. CASE drainOrphan
    BY <1>3, <2>1 DEF drainOrphan, FirstOf
  <2>2. CASE finalizeNext
    BY <1>3, <2>2 DEF finalizeNext, finalizePending
  <2>3. CASE closeInterrupted \/ seal
    BY <1>3, <2>3 DEF closeInterrupted, seal
  <2>4. CASE \/ RequestEnds \/ AttemptFails
             \/ \E key, n : StreamCall(key, n)
             \/ \E tail, reason : StreamEnd(tail, reason)
    BY <1>3, <2>4 DEF RequestEnds, AttemptFails, StreamCall, StreamEnd
  <2>5. CASE \E c \in DOMAIN response : skipCall(response[c])
    BY <1>3, <2>5 DEF skipCall
  <2> QED
    BY <1>15, <2>1, <2>2, <2>3, <2>4, <2>5
<1>16. ASSUME Abort \/ Over \/ UNCHANGED allVars PROVE BatchOnce'
  BY <1>5, <1>16 DEF Abort, Over, allVars, Idles
<1>17. ASSUME NEW t \in Tasks, ToolSettles(t) \/ TaskFinishes(t) \/ Progress(t) PROVE BatchOnce'
  BY <1>5, <1>17 DEF ToolSettles, TaskFinishes, Progress, Idles, Works
<1> QED
  BY <1>4, <1>8, <1>9, <1>10, <1>11, <1>12, <1>13, <1>14, <1>15, <1>16, <1>17
  DEF StepNext, Stream, Chain, Batch

---------------------------------------------------------------------------
(* What ran *)

\* A tool that ran has run for the rest of the step.
LEMMA RanStays ==
  ASSUME Typed, TasksGrow, NEW k, RanTo(k)
  PROVE  RanTo(k)'
<1>1. executed \subseteq Tasks
  BY DEF Typed, RecordsOK
<1>2. PICK t \in executed : taskCall[t].key = k /\ TaskDone(t)
  BY DEF RanTo, KeyOfTask
<1>3. t \in executed' /\ taskCall'[t].key = k /\ TaskDone(t)'
  BY <1>1, <1>2 DEF TasksGrow
<1> QED
  BY <1>3 DEF RanTo, KeyOfTask

\* An entry that is finalized with "ok" has a task that ran.
LEMMA EntryRan ==
  ASSUME Typed, EntryTasks, NEW i \in DOMAIN entries, NEW other \in {"discarded", "unexecuted"},
         EntryFinal(entries[i]), EntryOutcome(entries[i], other) = "ok"
  PROVE  RanTo(entries[i].call.key)
<1>1. entries[i].out \in Known
  BY Elements DEF EntryType
<1>2. entries[i].st = "started" /\ TaskOutcome(entries[i].task) = "ok"
  BY <1>1 DEF EntryOutcome, Known
<1>3. entries[i].task \in executed /\ TaskDone(entries[i].task)
  BY <1>2 DEF TaskOutcome, EntryFinal
<1> QED
  BY <1>2, <1>3 DEF EntryTasks, RanTo

PendingOutcome(j) ==
  IF pending[j].task = 0 THEN pending[j].out ELSE TaskOutcome(pending[j].task)

\* So has a pending result.
LEMMA PendingRan ==
  ASSUME Typed, PendingTasks, NEW j \in DOMAIN pending, Awaited(j), PendingOutcome(j) = "ok"
  PROVE  RanTo(response[j].key)
<1>1. pending[j].out \in Known
  BY Elements
<1>2. pending[j].task # 0 /\ TaskOutcome(pending[j].task) = "ok"
  BY <1>1 DEF PendingOutcome, Known
<1>3. pending[j].task \in executed /\ TaskDone(pending[j].task)
  BY <1>2 DEF TaskOutcome, Awaited
<1> QED
  BY <1>2, <1>3 DEF PendingTasks, RanTo

\* A call is finalized with an outcome that is true of it.
LEMMA FinalizeRan ==
  ASSUME Typed, ResolvedRan, NEW call \in CallType, NEW out \in Outcomes,
         out = "ok" => RanTo(call.key), dedup' = finalizeResult(dedup, call, out)
  PROVE  /\ \A k \in Key : dedup'.deferreds[k] = "ok" => RanTo(k)
         /\ FinalOutcome(dedup, call, out) = "ok" => RanTo(call.key)
<1>1. call.key \in Key /\ IsDedup(dedup)
  BY DEF CallType, Typed, RunnerOK
<1>2. /\ \A k \in Key : dedup'.deferreds[k] = "ok" =>
           dedup.deferreds[k] = "ok" \/ (k = call.key /\ out = "ok")
      /\ FinalOutcome(dedup, call, out) = "ok" =>
           out = "ok" \/ dedup.deferreds[call.key] = "ok"
  BY <1>1, FinalizeFacts
<1> QED
  BY <1>1, <1>2 DEF ResolvedRan

\* Which results are new, and that what they and the deduplicator claim is true
\* when the step begins.
OkIsTrue ==
  /\ \A k \in Key : dedup'.deferreds[k] = "ok" => RanTo(k)
  /\ \A i \in DOMAIN results' : results'[i].out = "ok" => RanTo(response[i].key)

\* Every step within a model step records the truth.
LEMMA OkStep ==
  ASSUME Typed, LogOK, DoneOK, [StepNext]_allVars
  PROVE  NextStep \/ OkIsTrue
<1> USE DEF vars, runnerVars, streamVars, batchVars, logVars, taskVars, gateVars
<1>1. ResolvedRan /\ EntryTasks /\ PendingTasks /\ ResultsRan /\ IsDedup(dedup)
  BY DEF DoneOK, Typed, RunnerOK
<1>2. ASSUME UNCHANGED <<dedup, results>> PROVE OkIsTrue
  BY <1>1, <1>2 DEF OkIsTrue, ResolvedRan, ResultsRan
<1>3. ASSUME UNCHANGED results, NEW call, dedup' = checkSameStep(dedup, call) PROVE OkIsTrue
  <2>1. \A k \in Key : dedup'.deferreds[k] = "ok" => dedup.deferreds[k] = "ok"
    BY <1>1, <1>3, CheckFacts
  <2> QED
    BY <1>1, <1>3, <2>1 DEF OkIsTrue, ResolvedRan, ResultsRan
<1>4. ASSUME NEW j, j = Len(results) + 1, j \in DOMAIN response, NEW o \in DeferredStates,
             results' = Append(results, [id |-> response[j].id, out |-> o]),
             o = "ok" => RanTo(response[j].key)
      PROVE  \A i \in DOMAIN results' : results'[i].out = "ok" => RanTo(response[i].key)
  <2>1. PICK call : call = response[j]
    OBVIOUS
  <2>2. call \in CallType /\ results' = Append(results, [id |-> call.id, out |-> o])
    BY <1>4, <2>1, Elements
  <2>3. /\ results' \in Seq([id : IdType, out : DeferredStates])
        /\ Len(results') = Len(results) + 1
        /\ \A i \in 1..Len(results) : results'[i] = results[i]
        /\ results'[Len(results) + 1] = [id |-> call.id, out |-> o]
    BY <2>2, ResultTyped
  <2>4. PICK m \in Nat : m = Len(results) /\ DOMAIN results = 1..m
    BY Elements
  <2>5. DOMAIN results' = 1..(m + 1)
    BY <2>3, <2>4, LenProperties
  <2>6. \A i \in 1..(m + 1) : i \in 1..m \/ i = m + 1
    OBVIOUS
  <2>7. results'[m + 1].out = o /\ j = m + 1
    BY <1>4, <2>3, <2>4
  <2>8. \A i \in 1..m : results'[i].out = "ok" => RanTo(response[i].key)
    BY <1>1, <2>3, <2>4 DEF ResultsRan
  <2> QED
    BY <1>4, <2>5, <2>6, <2>7, <2>8
<1>5. ASSUME prepareOne PROVE OkIsTrue
  <2>1. UNCHANGED results
    BY <1>5 DEF prepareOne
  <2> QED
    BY <1>2, <1>3, <1>5, <2>1, PrepareShape DEF Prepares, Typed
<1>6. ASSUME drainOrphan PROVE OkIsTrue
  <2>1. PICK i \in DOMAIN entries :
          /\ EntryFinal(entries[i])
          /\ dedup' = IF entries[i].st = "skipped" THEN dedup
                      ELSE finalizeResult(dedup, entries[i].call,
                                          EntryOutcome(entries[i], "discarded"))
    BY <1>6 DEF drainOrphan, FirstOf, Orphans
  <2>2. UNCHANGED results
    BY <1>6 DEF drainOrphan
  <2>3. CASE entries[i].st # "skipped"
    <3>1. PICK out : out = EntryOutcome(entries[i], "discarded")
      OBVIOUS
    <3>2. entries[i].call \in CallType /\ out \in Outcomes
          /\ (out = "ok" => RanTo(entries[i].call.key))
      BY <1>1, <2>1, <3>1, Elements, EntryOutcomes, EntryRan
    <3>3. \A k \in Key : dedup'.deferreds[k] = "ok" => RanTo(k)
      BY <1>1, <2>1, <2>3, <3>1, <3>2, FinalizeRan
    <3> QED
      BY <1>1, <2>2, <3>3 DEF OkIsTrue, ResultsRan
  <2> QED
    BY <1>2, <2>1, <2>2, <2>3
<1>7. ASSUME finalizeNext PROVE OkIsTrue
  <2>1. PICK j : j = Len(results) + 1
    OBVIOUS
  <2>2. PICK call, out : call = response[j] /\ out = PendingOutcome(j)
    OBVIOUS
  <2>3. /\ j <= Len(response) /\ Len(pending) = Len(response) /\ Awaited(j)
        /\ dedup' = finalizeResult(dedup, call, out)
        /\ results' = Append(results, [id |-> call.id, out |-> FinalOutcome(dedup, call, out)])
    BY <1>7, <2>1, <2>2 DEF finalizeNext, finalizePending, PendingOutcome
  <2>4. j \in DOMAIN response /\ j \in DOMAIN pending
    BY <2>1, <2>3, Elements
  <2>5. call \in CallType /\ out \in Outcomes /\ call.key \in Key
    BY <2>2, <2>4, Elements DEF PendingOutcome, TaskOutcome, Outcomes, Known, CallType
  <2>6. out = "ok" => RanTo(call.key)
    BY <1>1, <2>2, <2>3, <2>4, PendingRan
  <2>7. /\ \A k \in Key : dedup'.deferreds[k] = "ok" => RanTo(k)
        /\ FinalOutcome(dedup, call, out) = "ok" => RanTo(call.key)
    BY <1>1, <2>3, <2>5, <2>6, FinalizeRan
  <2>8. FinalOutcome(dedup, call, out) \in DeferredStates
    BY <1>1, <2>5, FinalizeFacts
  <2>9. PICK o \in DeferredStates : o = FinalOutcome(dedup, call, out)
    BY <2>8
  <2> QED
    BY <1>4, <2>1, <2>2, <2>3, <2>4, <2>7, <2>9 DEF OkIsTrue
<1>8. ASSUME closeInterrupted PROVE OkIsTrue
  <2>1. PICK j : j = Len(results) + 1
    OBVIOUS
  <2>2. PICK call : call = response[j]
    OBVIOUS
  <2>3. /\ j <= Len(response) /\ phase = "interrupted"
        /\ \/ /\ UNCHANGED dedup
              /\ results' = Append(results, [id |-> call.id, out |-> "unexecuted"])
           \/ UNCHANGED <<dedup, results>>
           \/ \E i \in EntryOf(call) :
                /\ EntryFinal(entries[i])
                /\ dedup' = finalizeResult(dedup, call, EntryOutcome(entries[i], "unexecuted"))
                /\ results' = Append(results,
                     [id |-> call.id,
                      out |-> FinalOutcome(dedup, call, EntryOutcome(entries[i], "unexecuted"))])
    BY <1>8, <2>1, <2>2, Zenon DEF closeInterrupted
  <2>4. j \in DOMAIN response
    BY <2>1, <2>3, Elements
  <2>5. call \in CallType /\ call.key \in Key
    BY <2>2, <2>4, Elements DEF CallType
  <2>6. CASE UNCHANGED dedup /\ results' = Append(results, [id |-> call.id, out |-> "unexecuted"])
    <3>1. "unexecuted" \in DeferredStates
      BY DEF DeferredStates, Outcomes
    <3>2. \A i \in DOMAIN results' : results'[i].out = "ok" => RanTo(response[i].key)
      BY <1>4, <2>1, <2>2, <2>4, <2>6, <3>1
    <3> QED
      BY <1>1, <2>6, <3>2 DEF OkIsTrue, ResolvedRan
  <2>7. ASSUME NEW i \in EntryOf(call), NEW out, out = EntryOutcome(entries[i], "unexecuted"),
               EntryFinal(entries[i]),
               dedup' = finalizeResult(dedup, call, out),
               results' = Append(results, [id |-> call.id, out |-> FinalOutcome(dedup, call, out)])
        PROVE  OkIsTrue
    <3>1. i \in DOMAIN entries /\ entries[i].call = call
      BY <2>2, <2>3, <2>4 DEF EntryOf, Typed, IdsOK
    <3>2. out \in Outcomes /\ (out = "ok" => RanTo(call.key))
      BY <1>1, <2>7, <3>1, EntryOutcomes, EntryRan
    <3>3. /\ \A k \in Key : dedup'.deferreds[k] = "ok" => RanTo(k)
          /\ FinalOutcome(dedup, call, out) = "ok" => RanTo(call.key)
      BY <1>1, <2>5, <2>7, <3>2, FinalizeRan
    <3>4. FinalOutcome(dedup, call, out) \in DeferredStates
      BY <1>1, <2>5, <3>2, FinalizeFacts
    <3>5. PICK o \in DeferredStates : o = FinalOutcome(dedup, call, out)
      BY <3>4
    <3> QED
      BY <1>4, <2>1, <2>2, <2>4, <2>7, <3>3, <3>5 DEF OkIsTrue
  <2> QED
    BY <1>2, <2>3, <2>6, <2>7
<1>9. ASSUME LeftoverPrepares PROVE OkIsTrue
  BY <1>2, <1>3, <1>9 DEF LeftoverPrepares
<1>10. ASSUME NEW c \in DOMAIN response,
              \/ materialize(response[c]) \/ skipCall(response[c])
              \/ \E answer : batchAuthorized(response[c], answer)
       PROVE  UNCHANGED <<dedup, results>>
  BY <1>10 DEF materialize, skipCall, batchAuthorized, Record
<1>11. ASSUME NEW c \in DOMAIN response, prepareToolCall(response[c]) PROVE OkIsTrue
  <2>1. UNCHANGED results /\ dedup' \in {dedup, checkSameStep(dedup, response[c])}
    BY <1>11 DEF prepareToolCall, Record
  <2> QED
    BY <1>2, <1>3, <2>1
<1>12. ASSUME \/ Over \/ UNCHANGED allVars \/ Abort \/ AttemptFails \/ RequestEnds \/ seal
              \/ \E t \in Tasks : ToolSettles(t) \/ TaskFinishes(t) \/ Progress(t)
              \/ \E answer : chainAuthorized(answer)
       PROVE  UNCHANGED <<dedup, results>>
  BY <1>12 DEF Over, allVars, Abort, AttemptFails, RequestEnds, seal, ToolSettles, TaskFinishes,
               Progress, chainAuthorized
<1>13. ASSUME NEW key, NEW n, StreamCall(key, n) PROVE UNCHANGED <<dedup, results>>
  BY <1>13 DEF StreamCall
<1>14. ASSUME NEW tail, NEW reason, StreamEnd(tail, reason) PROVE UNCHANGED <<dedup, results>>
  BY <1>14 DEF StreamEnd
<1> QED
  BY <1>2, <1>5, <1>6, <1>7, <1>8, <1>9, <1>10, <1>11, <1>12, <1>13, <1>14
  DEF StepNext, Stream, Chain, Batch

\* A call is recorded with no task, or with one of its own key.
LEMMA RecordTask ==
  ASSUME Typed, PendingTasks, TasksGrow, NEW call, NEW out \in Known, NEW task \in Nat,
         AtCall(call), Record(call, out, task), UNCHANGED response,
         task # 0 => task \in Tasks' /\ taskCall'[task].key = call.key
  PROVE  PendingTasks'
<1>1. /\ Len(pending) + 1 \in DOMAIN response /\ call = response[Len(pending) + 1]
      /\ call \in CallType
  BY AtCallFacts
<1>2. /\ pending' \in Seq([out : Known, task : Nat]) /\ Len(pending') = Len(pending) + 1
      /\ \A i \in 1..Len(pending) : pending'[i] = pending[i]
      /\ pending'[Len(pending) + 1] = [out |-> out, task |-> task]
  BY <1>1, RecordTyped
<1>3. PICK m \in Nat : m = Len(pending) /\ DOMAIN pending = 1..m
  BY Elements
<1>4. DOMAIN pending' = 1..(m + 1)
  BY <1>2, <1>3, LenProperties
<1>5. \A i \in 1..(m + 1) : i \in 1..m \/ i = m + 1
  OBVIOUS
<1>6. pending'[m + 1].task = task /\ m + 1 \in DOMAIN response /\ call = response[m + 1]
  BY <1>1, <1>2, <1>3
<1>7. \A i \in 1..m :
        /\ i \in DOMAIN response
        /\ pending'[i].task # 0 =>
             pending'[i].task \in Tasks' /\ taskCall'[pending'[i].task].key = response[i].key
  BY <1>2, <1>3 DEF PendingTasks, TasksGrow, KeyOfTask
<1>8. \A i \in DOMAIN pending' :
        /\ i \in DOMAIN response
        /\ pending'[i].task # 0 =>
             pending'[i].task \in Tasks' /\ taskCall'[pending'[i].task].key = response[i].key
  BY <1>4, <1>5, <1>6, <1>7
<1> QED
  BY <1>8 DEF PendingTasks, KeyOfTask

\* Every step keeps the tasks of the pending results.
LEMMA PendingStep ==
  ASSUME Typed, LogOK, DoneOK, [StepNext]_allVars
  PROVE  PendingTasks'
<1> USE DEF vars, runnerVars, streamVars, batchVars, logVars, taskVars, gateVars
<1>1. IInv /\ RecordsOK /\ RunnerOK /\ EntryTasks /\ PendingTasks
  BY DEF Typed, DoneOK
<1>2. ASSUME NextStep PROVE PendingTasks'
  <2>1. pending' = << >> /\ DOMAIN << >> = {}
    BY <1>2, NextStepFacts
  <2> QED
    BY <2>1 DEF PendingTasks
<1>3. ASSUME ~NextStep PROVE TasksGrow
  BY <1>3, TasksStep
<1>4. ASSUME UNCHANGED <<pending, response>> PROVE PendingTasks'
  <2>1. CASE ~NextStep
    BY <1>1, <1>3, <1>4, <2>1 DEF PendingTasks, TasksGrow, KeyOfTask
  <2> QED
    BY <1>2, <2>1
<1>5. ASSUME NEW c \in DOMAIN response, NEW out \in Known, NEW task \in Nat,
             ~NextStep, AtCall(response[c]), Record(response[c], out, task), UNCHANGED response,
             task # 0 => task \in Tasks' /\ taskCall'[task].key = response[c].key
      PROVE  PendingTasks'
  BY <1>1, <1>3, <1>5, RecordTask
<1>6. ASSUME phase = "batch" \/ phase = "skipping" PROVE ~NextStep
  BY <1>6 DEF NextStep
<1>7. ASSUME NEW c \in DOMAIN response, materialize(response[c]) PROVE PendingTasks'
  <2>1. PICK i \in EntryOf(response[c]) :
          \/ UNCHANGED <<pending, response>>
          \/ Record(response[c], IF entries[i].st = "skipped" THEN "skipped" ELSE entries[i].out,
                    entries[i].task)
    BY <1>7 DEF materialize
  <2>2. /\ phase = "batch" /\ AtCall(response[c]) /\ UNCHANGED <<response, taskCall, Tasks>>
    BY <1>7 DEF materialize, Tasks
  <2>3. i \in DOMAIN entries /\ entries[i].call = response[c]
    BY <2>2 DEF EntryOf, Typed, IdsOK
  <2>4. PICK out, task : /\ out = IF entries[i].st = "skipped" THEN "skipped" ELSE entries[i].out
                         /\ task = entries[i].task
    OBVIOUS
  <2>5. out \in Known /\ task \in Nat
    BY <2>3, <2>4, Elements DEF EntryType, Known
  <2>6. task # 0 => task \in Tasks' /\ taskCall'[task].key = response[c].key
    BY <1>1, <2>2, <2>3, <2>4 DEF EntryTasks, KeyOfTask
  <2>7. CASE Record(response[c], out, task)
    BY <1>5, <1>6, <2>2, <2>5, <2>6, <2>7
  <2> QED
    BY <1>4, <2>1, <2>4, <2>7
<1>8. ASSUME NEW c \in DOMAIN response, prepareToolCall(response[c]) PROVE PendingTasks'
  <2>1. PICK out \in Known \cup {"runnable"} :
          \/ Record(response[c], "blocked", 0)
          \/ out # "runnable" /\ Record(response[c], out, 0)
          \/ UNCHANGED pending
    <3>1. PrepareOutcome(checkSameStep(dedup, response[c]), response[c]) \in Known \cup {"runnable"}
      BY DEF PrepareOutcome, Known
    <3> QED
      BY <1>8, <3>1 DEF prepareToolCall
  <2>2. phase = "batch" /\ AtCall(response[c]) /\ UNCHANGED response
    BY <1>8 DEF prepareToolCall
  <2>3. ASSUME NEW o \in Known, Record(response[c], o, 0) PROVE PendingTasks'
    BY <1>5, <1>6, <2>2, <2>3
  <2>4. "blocked" \in Known
    BY DEF Known
  <2> QED
    BY <1>4, <2>1, <2>2, <2>3, <2>4
<1>9. ASSUME NEW c \in DOMAIN response, NEW answer \in Answers, batchAuthorized(response[c], answer)
      PROVE  PendingTasks'
  <2>1. /\ phase = "batch" /\ AtCall(response[c]) /\ UNCHANGED response
        /\ \/ AddTask(response[c]) /\ Record(response[c], "placeholder", added')
           \/ answer # "allow" /\ Record(response[c], answer, 0)
    BY <1>9 DEF batchAuthorized
  <2>2. CASE AddTask(response[c]) /\ Record(response[c], "placeholder", added')
    <3>1. added' \in Nat /\ added' \in Tasks' /\ taskCall'[added'] = response[c]
      BY <1>1, <2>2, Elements, AddFacts
    <3>2. PICK n \in Nat : n = added'
      BY <3>1
    <3>3. /\ Record(response[c], "placeholder", n) /\ "placeholder" \in Known
          /\ n \in Tasks' /\ taskCall'[n].key = response[c].key
      BY <2>2, <3>1, <3>2 DEF Known
    <3> QED
      BY <1>5, <1>6, <2>1, <3>3
  <2>3. CASE answer # "allow" /\ Record(response[c], answer, 0)
    <3>1. answer \in Known
      BY <2>3 DEF Answers, Known
    <3> QED
      BY <1>5, <1>6, <2>1, <2>3, <3>1
  <2> QED
    BY <2>1, <2>2, <2>3
<1>10. ASSUME NEW c \in DOMAIN response, skipCall(response[c]) PROVE PendingTasks'
  <2>1. /\ phase = "skipping" /\ AtCall(response[c]) /\ Record(response[c], "skipped", 0)
        /\ UNCHANGED response /\ "skipped" \in Known
    BY <1>10 DEF skipCall, Known
  <2> QED
    BY <1>5, <1>6, <2>1
<1>11. ASSUME NEW tail, NEW reason, StreamEnd(tail, reason) PROVE PendingTasks'
  <2>1. pending' = << >> /\ DOMAIN << >> = {}
    BY <1>11 DEF StreamEnd, LogOK
  <2> QED
    BY <2>1 DEF PendingTasks
<1>12. ASSUME \/ Over \/ UNCHANGED allVars \/ Abort \/ AttemptFails \/ RequestEnds \/ seal
              \/ drainOrphan \/ finalizeNext \/ closeInterrupted \/ LeftoverPrepares \/ Chain
              \/ \E t \in Tasks : ToolSettles(t) \/ TaskFinishes(t) \/ Progress(t)
       PROVE  UNCHANGED <<pending, response>>
  BY <1>12 DEF Over, allVars, Abort, AttemptFails, RequestEnds, seal, ToolSettles, TaskFinishes,
               Progress, chainAuthorized, prepareOne, Chain, LeftoverPrepares, closeInterrupted,
               finalizeNext, finalizePending, drainOrphan
<1>13. ASSUME NEW key, NEW n, StreamCall(key, n) PROVE UNCHANGED <<pending, response>>
  BY <1>13 DEF StreamCall
<1> QED
  BY <1>2, <1>4, <1>7, <1>8, <1>9, <1>10, <1>11, <1>12, <1>13 DEF StepNext, Stream, Batch

\* Every step keeps results and resolved deferreds true to what ran.
LEMMA DoneStep ==
  ASSUME Typed, LogOK, DoneOK, [StepNext]_allVars
  PROVE  DoneOK'
<1>1. EntryTasks /\ IInv /\ RecordsOK
  BY DEF DoneOK, Typed
<1>2. PendingTasks'
  BY PendingStep
<1>3. CASE NextStep
  <2>1. dedup' = NoDedup /\ entries' = << >> /\ results' = << >> /\ DOMAIN << >> = {}
    BY <1>3, NextStepFacts
  <2>2. \A k \in Key : NoDedup.deferreds[k] # "ok"
    BY DEF NoDedup
  <2> QED
    BY <1>2, <2>1, <2>2 DEF DoneOK, ResolvedRan, EntryTasks, ResultsRan
<1>4. CASE ~NextStep
  <2>1. TasksGrow /\ OkIsTrue
    BY <1>4, TasksStep, OkStep
  <2>2. ResolvedRan'
    <3> SUFFICES ASSUME NEW k \in Key, dedup'.deferreds[k] = "ok" PROVE RanTo(k)'
      BY DEF ResolvedRan
    <3> QED
      BY <2>1, RanStays DEF OkIsTrue
  <2>3. ResultsRan'
    <3> SUFFICES ASSUME NEW i \in DOMAIN results', results'[i].out = "ok"
                 PROVE  \E t \in executed' : taskCall'[t].key = response'[i].key /\ TaskDone(t)'
      BY DEF ResultsRan, RanTo, KeyOfTask
    <3>1. PICK k : k = response[i].key
      OBVIOUS
    <3>2. RanTo(k)
      BY <2>1, <3>1 DEF OkIsTrue
    <3>3. RanTo(k)'
      BY <2>1, <3>2, RanStays
    <3>4. response'[i] = response[i]
      <4>1. CASE phase = "streaming"
        <5>1. results' = results
          BY <1>4, <4>1
          DEF StepNext, Stream, Chain, Batch, StreamCall, StreamEnd, AttemptFails, RequestEnds,
              prepareOne, chainAuthorized, LeftoverPrepares, drainOrphan, materialize,
              prepareToolCall, batchAuthorized, skipCall, finalizeNext, finalizePending,
              closeInterrupted, seal, ToolSettles, TaskFinishes, Progress, Abort, Over, allVars,
              logVars
        <5>2. Len(results) = 0
          BY <4>1, Elements, EmptySeq DEF LogOK
        <5> QED
          BY <5>1, <5>2, Elements
      <4> QED
        BY <1>4, <4>1, PhaseShape
    <3> QED
      BY <3>1, <3>3, <3>4 DEF RanTo, KeyOfTask
  <2>4. EntryTasks'
    <3>1. CASE OldTasks
      BY <1>1, <2>1, <3>1 DEF OldTasks, EntryTasks, TasksGrow, KeyOfTask
    <3>2. CASE ChainAdds
      <4>1. PICK i, e : HookAnswers(i, e) /\ e.st = "started" /\ AddTask(e.call)
        BY <3>2 DEF ChainAdds
      <4>2. e.call \in CallType
        BY <4>1 DEF HookAnswers, Becomes, EntryType
      <4>3. added' \in Tasks' /\ taskCall'[added'] = e.call
        BY <1>1, <4>1, <4>2, AddFacts
      <4>4. e.task = added' \/ (Idles /\ e.st = "settled")
        BY <4>1 DEF HookAnswers
      <4> QED
        BY <1>1, <2>1, <4>1, <4>3, <4>4 DEF HookAnswers, Becomes, EntryTasks, TasksGrow, KeyOfTask
    <3> QED
      BY <3>1, <3>2, EntriesShape
  <2> QED
    BY <1>2, <2>2, <2>3, <2>4 DEF DoneOK
<1> QED
  BY <1>3, <1>4

---------------------------------------------------------------------------
(* The invariant holds *)

\* Nothing has been streamed, announced or started in the first state.
LEMMA InitStepInv ==
  ASSUME StepInit
  PROVE  StepInv
<1> USE DEF StepInit, Init
<1>1. DOMAIN << >> = {} /\ Len(<< >>) = 0 /\ 0 <= MaxCalls
  BY StepAssumption
<1>2. Tasks = {}
  BY DEF Tasks
<1>3. IInv /\ RunnerOK /\ RecordsOK
  BY EmptyTyped
<1>4. LogOK
  BY <1>1 DEF LogOK, Distinct
<1>5. WritesOK /\ IdsOK
  BY <1>1, <1>2 DEF WritesOK, IdsOK
<1>6. ClaimsOK
  BY <1>1, <1>2 DEF ClaimsOK, TasksOnce, EntriesOnce, BatchOnce
<1>7. DoneOK
  BY <1>1 DEF DoneOK, ResolvedRan, EntryTasks, PendingTasks, ResultsRan, NoDedup
<1> QED
  BY <1>3, <1>4, <1>5, <1>6, <1>7 DEF StepInv

\* Every step of the specification preserves it.
LEMMA NextStepInv ==
  ASSUME StepInv, [StepNext]_allVars
  PROVE  StepInv'
<1>1. Typed /\ LogOK /\ WritesOK /\ ClaimsOK /\ DoneOK
  BY DEF StepInv, Typed
<1>2. IInv' /\ RunnerOK' /\ RecordsOK'
  BY <1>1, TypesStep
<1>3. LogOK' /\ IdsOK'
  BY <1>1, LogStep, IdsStep
<1>4. WritesOK' /\ DoneOK'
  BY <1>1, WritesStep, DoneStep
<1>5. TasksOnce' /\ EntriesOnce' /\ BatchOnce'
  BY <1>1, <1>3, OnceStep, BatchStep
<1>6. ClaimsOK'
  BY <1>5 DEF ClaimsOK
<1> QED
  BY <1>2, <1>3, <1>4, <1>6 DEF StepInv

\* So it holds in every state of the step.
LEMMA AlwaysStepInv == StepSpec => []StepInv
<1>1. StepInit => StepInv
  BY InitStepInv
<1>2. StepInv /\ [StepNext]_allVars => StepInv'
  BY NextStepInv
<1> QED
  BY <1>1, <1>2, PTL DEF StepSpec

\* checkSameStep: whatever attempts, early starts and renamed ids there are, no
\* tool is entered twice with the same arguments in one step.
THEOREM StepExecutedOnce == StepSpec => []ExecutedOnce
<1>1. StepInv => ExecutedOnce
  BY DEF StepInv, RecordsOK, ClaimsOK, TasksOnce, ExecutedOnce
<1> QED
  BY <1>1, AlwaysStepInv, PTL

\* isStreamingEligible: a tool that may write is entered only once the response
\* is final, and for one of its calls.
THEOREM StepWritesOnlyForFinalCalls == StepSpec => []WritesOnlyForFinalCalls
<1>1. StepInv => WritesOnlyForFinalCalls
  BY DEF StepInv, RecordsOK, WritesOK, WritesOnlyForFinalCalls
<1> QED
  BY <1>1, AlwaysStepInv, PTL

\* finalizeResult: a result that says the tool ran is backed by a finished
\* execution of that tool with those arguments in this step.
THEOREM StepOkMeansExecuted == StepSpec => []OkMeansExecuted
<1>1. ASSUME StepInv PROVE OkMeansExecuted
  <2> SUFFICES ASSUME NEW i \in DOMAIN results, results[i].out = "ok"
               PROVE  \E t \in executed : /\ KeyOfTask(t) = CallWith(results[i].id).key
                                          /\ TaskDone(t)
    BY DEF OkMeansExecuted
  <2>1. LogOK /\ Typed /\ ResultsRan
    BY <1>1 DEF StepInv, Typed, DoneOK
  <2>2. results[i].id = response[i].id /\ RanTo(response[i].key)
    BY <2>1 DEF LogOK, ResultsRan
  <2>3. i \in DOMAIN response
    <3>1. Len(results) <= Len(calls) /\ Len(calls) <= Len(response)
      BY <2>1 DEF LogOK
    <3>2. \A l, m, n \in Nat : l <= m /\ m <= n => \A k \in 1..l : k \in 1..n
      OBVIOUS
    <3>3. /\ Len(results) \in Nat /\ Len(calls) \in Nat /\ Len(response) \in Nat
          /\ DOMAIN results = 1..Len(results) /\ DOMAIN response = 1..Len(response)
      BY <2>1, Elements
    <3> QED
      BY <3>1, <3>2, <3>3
  <2>4. \A c \in {response[k] : k \in DOMAIN response} :
          c.id = response[i].id => c = response[i]
    BY <2>1, <2>3 DEF LogOK, Distinct, NoneRan
  <2>5. CallWith(response[i].id) = response[i]
    BY <2>3, <2>4 DEF CallWith
  <2> QED
    BY <2>2, <2>5 DEF RanTo
<1> QED
  BY <1>1, AlwaysStepInv, PTL

\* runRunnableToolCall, start: once the turn is aborted no tool is entered,
\* whether its task is new or leaves the queue.
THEOREM StepNoEntryAfterAbort == StepSpec => NoEntryAfterAbort
<1>1. ASSUME StepInv, [StepNext]_allVars
      PROVE  [aborted => executed' = executed]_allVars
  <2>1. Typed /\ LogOK
    BY <1>1 DEF StepInv, Typed
  <2>2. NextStep => ~aborted
    BY <2>1, NextStepFacts DEF LogOK
  <2> QED
    BY <1>1, <2>1, <2>2, TasksStep
<1> QED
  BY <1>1, AlwaysStepInv, PTL DEF StepSpec, NoEntryAfterAbort

\* runToolCallBatch, startStreamingTask: the scheduler that the stream and the
\* batch both feed runs a task exactly when no earlier pending one conflicts.
THEOREM StepSchedulerExact == StepSpec => []RunsExactlyUnblocked
<1>1. StepInv => RunsExactlyUnblocked
  BY DEF StepInv, IInv
<1> QED
  BY <1>1, AlwaysStepInv, PTL

---------------------------------------------------------------------------
(* The step implements its transcript *)

\* The ids of a sequence of calls or results are a sequence of the same length.
LEMMA IdsFacts ==
  ASSUME NEW S, \A x \in S : x.id \in IdType, NEW s \in Seq(S)
  PROVE  /\ Ids(s) \in Seq(IdType) /\ Len(Ids(s)) = Len(s) /\ DOMAIN Ids(s) = DOMAIN s
         /\ \A i \in DOMAIN s : Ids(s)[i] = s[i].id
<1>1. PICK n \in Nat : n = Len(s) /\ DOMAIN s = 1..n /\ \A i \in 1..n : s[i] \in S
  BY LenProperties, ElementOfSeq
<1>2. Ids(s) \in [1..n -> IdType] /\ \A i \in 1..n : Ids(s)[i] = s[i].id
  BY <1>1 DEF Ids
<1>3. Ids(s) \in Seq(IdType)
  BY <1>2, SeqDef
<1>4. DOMAIN Ids(s) = 1..Len(Ids(s)) /\ Len(Ids(s)) \in Nat
  BY <1>3, LenProperties
<1>5. Len(Ids(s)) = n
  BY <1>2, <1>4, <1>1
<1> QED
  BY <1>1, <1>2, <1>3, <1>5

\* One more element brings one more id.
LEMMA IdsAppend ==
  ASSUME NEW S, \A x \in S : x.id \in IdType, NEW s \in Seq(S), NEW x \in S
  PROVE  Ids(Append(s, x)) = Append(Ids(s), x.id)
<1>1. PICK t \in Seq(S) : t = Append(s, x)
  BY AppendProperties
<1>2. PICK n \in Nat : n = Len(s) /\ DOMAIN s = 1..n
  BY LenProperties
<1>3. Len(t) = n + 1 /\ (\A i \in 1..n : t[i] = s[i]) /\ t[n + 1] = x /\ DOMAIN t = 1..(n + 1)
  BY <1>1, <1>2, AppendProperties, LenProperties
<1>4. PICK u \in Seq(IdType) : u = Ids(s)
  BY IdsFacts
<1>5. Len(u) = n /\ \A i \in 1..n : u[i] = s[i].id
  BY <1>2, <1>4, IdsFacts
<1>6. PICK y \in IdType : y = x.id
  OBVIOUS
<1>7. PICK v \in Seq(IdType) : v = Append(u, y)
  BY AppendProperties
<1>8. Len(v) = n + 1 /\ (\A i \in 1..n : v[i] = u[i]) /\ v[n + 1] = y /\ DOMAIN v = 1..(n + 1)
  BY <1>5, <1>7, AppendProperties, LenProperties
<1>9. PICK w \in Seq(IdType) : w = Ids(t)
  BY IdsFacts
<1>10. DOMAIN w = 1..(n + 1) /\ \A i \in 1..(n + 1) : w[i] = t[i].id
  BY <1>3, <1>9, IdsFacts
<1>11. \A i \in 1..(n + 1) : i \in 1..n \/ i = n + 1
  OBVIOUS
<1>12. \A i \in 1..(n + 1) : w[i] = v[i]
  BY <1>3, <1>5, <1>6, <1>8, <1>10, <1>11, SMTT(30)
<1>13. Len(w) = Len(v)
  BY <1>3, <1>8, <1>9, IdsFacts
<1>14. w = v
  BY <1>8, <1>12, <1>13, SeqEqual
<1> QED
  BY <1>1, <1>4, <1>6, <1>7, <1>9, <1>14

\* The ids of an empty sequence.
LEMMA IdsEmpty == Ids(<< >>) = << >>
<1>1. << >> \in Seq(CallType) /\ \A x \in CallType : x.id \in IdType
  BY EmptySeq DEF CallType
<1>2. Ids(<< >>) \in Seq(IdType) /\ Len(Ids(<< >>)) = 0
  BY <1>1, IdsFacts, EmptySeq
<1> QED
  BY <1>2, EmptySeq

\* What the mapped variables are.
LEMMA MappedFacts ==
  ASSUME Typed
  PROVE  /\ Ids(response) \in Seq(IdType) /\ Len(Ids(response)) = Len(response)
         /\ \A i \in DOMAIN response : Ids(response)[i] = response[i].id
         /\ Ids(results) \in Seq(IdType) /\ Len(Ids(results)) = Len(results)
         /\ calls \in Seq(IdType)
<1>1. response \in Seq(CallType) /\ results \in Seq([id : IdType, out : DeferredStates])
      /\ calls \in Seq(IdType)
  BY DEF Typed, RunnerOK, RecordsOK
<1>2. /\ \A x \in CallType : x.id \in IdType
      /\ \A x \in [id : IdType, out : DeferredStates] : x.id \in IdType
  BY DEF CallType
<1> QED
  BY <1>1, <1>2, IdsFacts

\* Nothing a reader of the transcript sees.
LEMMA Unseen ==
  ASSUME UNCHANGED <<response, calls, results>>, phase' = phase \/ (phase \notin Ended /\ phase' \notin Ended)
  PROVE  UNCHANGED Transcript!transcript
<1>1. UNCHANGED <<Ids(response), Ids(results), phase \in Ended>>
  <2>1. UNCHANGED <<Ids(response), Ids(results)>>
    BY DEF Ids
  <2>2. CASE phase' = phase
    BY <2>1, <2>2 DEF Ended
  <2>3. CASE phase \notin Ended /\ phase' \notin Ended
    BY <2>1, <2>3 DEF Ended
  <2> QED
    BY <2>2, <2>3
<1> QED
  BY <1>1 DEF Transcript!transcript

\* A call of the response is announced.
LEMMA Announcing ==
  ASSUME Typed, Distinct, phase \notin Ended, phase' \notin Ended,
         UNCHANGED <<response, results>>,
         Len(calls) < Len(response), calls' = Append(calls, response[Len(calls) + 1].id)
  PROVE  Transcript!TNext
<1>1. Len(calls) \in Nat /\ Len(response) \in Nat /\ DOMAIN response = 1..Len(response)
  BY Elements
<1>2. Len(calls) + 1 \in DOMAIN response
  <2>1. \A m, n \in Nat : m < n => m + 1 \in 1..n
    OBVIOUS
  <2> QED
    BY <1>1, <2>1
<1>3. /\ Len(calls) < Len(Ids(response))
      /\ calls' = Append(calls, Ids(response)[Len(calls) + 1])
  BY <1>2, MappedFacts
<1>4. UNCHANGED <<Ids(response), Ids(results), phase \in Ended>>
  BY DEF Ids, Ended
<1>5. Transcript!IsInjective(Ids(response))
  <2>1. DOMAIN Ids(response) = DOMAIN response
    BY MappedFacts, LenProperties, <1>1
  <2>2. \A i \in DOMAIN response : Ids(response)[i] = response[i].id
    BY MappedFacts
  <2> QED BY <2>1, <2>2 DEF Distinct, Transcript!IsInjective
<1>6. Transcript!Announce
  BY <1>3, <1>4, <1>5 DEF Transcript!Announce, Transcript!Announces
<1> QED
  BY <1>6 DEF Transcript!TNext

\* The next call without a result gets one.
LEMMA Answering ==
  ASSUME Typed, LogOK, phase \notin Ended, UNCHANGED <<response, calls, phase>>,
         Len(results) < Len(calls), NEW o \in DeferredStates,
         results' = Append(results, [id |-> response[Len(results) + 1].id, out |-> o])
  PROVE  Transcript!TNext
<1>1. /\ Len(calls) \in Nat /\ Len(results) \in Nat /\ Len(response) \in Nat
      /\ DOMAIN calls = 1..Len(calls) /\ Len(calls) <= Len(response)
      /\ DOMAIN response = 1..Len(response)
  BY Elements DEF LogOK
<1>2. Len(results) + 1 \in DOMAIN calls /\ Len(results) + 1 \in DOMAIN response
  <2>1. \A l, m, n \in Nat : l < m /\ m <= n => l + 1 \in 1..m /\ l + 1 \in 1..n
    OBVIOUS
  <2> QED
    BY <1>1, <2>1
<1>3. PICK j : j = Len(results) + 1
  OBVIOUS
<1>4. calls[j] = response[j].id /\ response[j] \in CallType
  BY <1>2, <1>3, Elements DEF LogOK
<1>5. PICK x \in [id : IdType, out : DeferredStates] : x = [id |-> response[j].id, out |-> o]
  BY <1>4 DEF CallType
<1>6. results' = Append(results, x) /\ x.id = calls[j]
  BY <1>3, <1>4, <1>5
<1>7. results \in Seq([id : IdType, out : DeferredStates])
  BY DEF Typed, RecordsOK
<1>8. \A y \in [id : IdType, out : DeferredStates] : y.id \in IdType
  OBVIOUS
<1>9. Ids(results)' = Append(Ids(results), x.id)
  <2>1. Ids(Append(results, x)) = Append(Ids(results), x.id)
    BY <1>5, <1>7, <1>8, IdsAppend
  <2> QED
    BY <1>6, <2>1 DEF Ids
<1>10. /\ Len(Ids(results)) < Len(calls)
       /\ Ids(results)' = Append(Ids(results), calls[Len(Ids(results)) + 1])
  BY <1>3, <1>6, <1>9, MappedFacts
<1>11. UNCHANGED <<Ids(response), calls, phase \in Ended>>
  BY DEF Ids, Ended
<1>12. Transcript!Answer
  BY <1>10, <1>11 DEF Transcript!Answer
<1> QED
  BY <1>12 DEF Transcript!TNext

\* A call is announced and closed at once.
LEMMA Closing ==
  ASSUME Typed, LogOK, phase \notin Ended, UNCHANGED <<response, phase>>,
         Len(calls) = Len(results), Len(calls) < Len(response), NEW o \in DeferredStates,
         calls' = Append(calls, response[Len(calls) + 1].id),
         results' = Append(results, [id |-> response[Len(calls) + 1].id, out |-> o])
  PROVE  Transcript!TNext
<1>1. PICK m \in Nat : m = Len(calls) /\ DOMAIN calls = 1..m /\ DOMAIN results = 1..m
  BY Elements
<1>2. m + 1 \in DOMAIN response /\ \A i \in 1..m : i \in DOMAIN response
  <2>1. \A k, n \in Nat : k < n => k + 1 \in 1..n /\ \A i \in 1..k : i \in 1..n
    OBVIOUS
  <2> QED
    BY <1>1, <2>1, Elements
<1>3. PICK j : j = m + 1
  OBVIOUS
<1>4. response[j] \in CallType /\ response[j].id \in IdType
  BY <1>2, <1>3, Elements DEF CallType
<1>5. PICK x \in [id : IdType, out : DeferredStates] : x = [id |-> response[j].id, out |-> o]
  BY <1>4
<1>6. results' = Append(results, x) /\ x.id = response[j].id /\ calls' = Append(calls, x.id)
  BY <1>1, <1>3, <1>5
<1>7. results \in Seq([id : IdType, out : DeferredStates]) /\ calls \in Seq(IdType)
  BY DEF Typed, RecordsOK
<1>8. \A y \in [id : IdType, out : DeferredStates] : y.id \in IdType
  OBVIOUS
<1>9. Ids(results)' = Append(Ids(results), x.id)
  <2>1. Ids(Append(results, x)) = Append(Ids(results), x.id)
    BY <1>5, <1>7, <1>8, IdsAppend
  <2> QED
    BY <1>6, <2>1 DEF Ids
<1>10. Ids(results) = calls
  <2>1. \A i \in 1..m : Ids(results)[i] = calls[i]
    <3>1. \A i \in DOMAIN results : Ids(results)[i] = results[i].id
      BY <1>7, <1>8, IdsFacts
    <3>2. /\ \A i \in DOMAIN results : results[i].id = response[i].id
          /\ \A i \in DOMAIN calls : calls[i] = response[i].id
      BY DEF LogOK
    <3> QED
      BY <1>1, <3>1, <3>2
  <2>2. Len(Ids(results)) = Len(calls) /\ Ids(results) \in Seq(IdType)
    BY MappedFacts
  <2> QED
    BY <1>1, <1>7, <2>1, <2>2, SeqEqual
<1>11. /\ Len(Ids(results)) = Len(calls) /\ Len(calls) < Len(Ids(response))
       /\ calls' = Append(calls, Ids(response)[Len(calls) + 1]) /\ Ids(results)' = calls'
  <2>1. Ids(response)[j] = response[j].id
    BY <1>2, <1>3, MappedFacts
  <2>2. Len(calls) + 1 = j
    BY <1>1, <1>3
  <2>3. calls' = Append(calls, Ids(response)[Len(calls) + 1])
    BY <1>6, <2>1, <2>2
  <2> QED
    BY <1>6, <1>9, <1>10, <2>3, MappedFacts
<1>12. UNCHANGED <<Ids(response), phase \in Ended>>
  BY DEF Ids, Ended
<1>13. Transcript!AnnounceAndAnswer
  BY <1>11, <1>12 DEF Transcript!AnnounceAndAnswer, Transcript!Announces
<1> QED
  BY <1>13 DEF Transcript!TNext

\* The step ends with every announced call closed.
LEMMA Ending ==
  ASSUME Typed, phase \notin Ended, phase' \in Ended, UNCHANGED <<response, calls, results>>,
         Len(results) = Len(calls), Len(calls) \in {0, Len(response)}
  PROVE  Transcript!TNext
<1>1. Len(Ids(results)) = Len(calls) /\ Len(calls) \in {0, Len(Ids(response))}
  BY MappedFacts
<1>2. UNCHANGED <<Ids(response), calls, Ids(results)>>
  BY DEF Ids
<1>3. Transcript!End
  BY <1>1, <1>2 DEF Transcript!End, Ended
<1> QED
  BY <1>3 DEF Transcript!TNext

\* The response arrives: its calls are dropped, or it is now known.
LEMMA Receiving ==
  ASSUME Typed, LogOK, NEW tail \in Tails, NEW reason \in {"tool_calls", "paused", "filtered"},
         StreamEnd(tail, reason), Typed', LogOK'
  PROVE  Transcript!TNext
<1> USE DEF vars, runnerVars, streamVars, batchVars, logVars, taskVars, gateVars
<1>1. /\ phase = "streaming" /\ response = << >> /\ UNCHANGED <<calls, results>>
      /\ phase' = "sealed" \/ (phase' \in {"batch", "interrupted"} /\ Received(tail) # << >>)
  BY DEF StreamEnd, LogOK, Received
<1>2. Received(tail) \in Seq(CallType)
  BY ReceivedFacts DEF Typed
<1>3. Len(response') = Len(Received(tail))
  BY EndShape DEF Typed
<1>4. Ids(response) = << >>
  BY <1>1, IdsEmpty
<1>5. response' \in Seq(CallType)
  BY DEF Typed, RunnerOK
<1>6. PICK r \in Seq(CallType) : r = response'
  BY <1>5
<1>7. /\ Ids(response)' = Ids(r) /\ Ids(r) \in Seq(IdType) /\ Len(Ids(r)) = Len(r)
      /\ DOMAIN Ids(r) = DOMAIN r
      /\ \A i \in DOMAIN r : Ids(r)[i] = r[i].id
  <2>1. \A x \in CallType : x.id \in IdType
    BY DEF CallType
  <2> QED
    BY <1>6, <2>1, IdsFacts DEF Ids
<1>8. Len(r) <= MaxCalls /\ Len(r) \in Nat
  BY <1>6, LenProperties DEF LogOK
<1>10. Len(r) # 0 => Transcript!IsResponse(Ids(r))
  <2>1. \A m, n \in Nat : m # 0 /\ m <= n => m \in 1..n
    OBVIOUS
  <2> QED
    BY <1>7, <1>8, <2>1, StepAssumption DEF Transcript!IsResponse
<1>11. Len(r) = 0 => Ids(r) = << >>
  BY <1>7, EmptySeq
<1>12. UNCHANGED <<calls, Ids(results)>>
  BY <1>1 DEF Ids
<1>13. CASE phase' = "sealed"
  <2>1. Transcript!ReceiveAndEnd
    BY <1>1, <1>4, <1>7, <1>10, <1>11, <1>12, <1>13 DEF Transcript!ReceiveAndEnd, Ended,
       Transcript!IsResponse
  <2> QED
    BY <2>1 DEF Transcript!TNext
<1>14. CASE phase' \in {"batch", "interrupted"} /\ Received(tail) # << >>
  <2>1. Len(r) # 0
    BY <1>2, <1>3, <1>6, <1>14, EmptySeq
  <2>2. Transcript!IsResponse(Ids(r))
    BY <1>10, <2>1
  <2>3. Transcript!IsResponse(Ids(response)')
    BY <1>7, <2>2
  <2>4. UNCHANGED (phase \in Ended) /\ phase \notin Ended
    BY <1>1, <1>14 DEF Ended
  <2>5. Transcript!Receive
    BY <1>4, <1>12, <2>3, <2>4 DEF Transcript!Receive, Transcript!IsResponse
  <2> QED
    BY <2>5 DEF Transcript!TNext
<1> QED
  BY <1>1, <1>13, <1>14

\* Every step of the model is a step of the transcript, or is not seen in it.
LEMMA TranscriptStep ==
  ASSUME StepInv, [StepNext]_allVars
  PROVE  [Transcript!TNext]_(Transcript!transcript)
<1> USE DEF vars, runnerVars, streamVars, batchVars, logVars, taskVars, gateVars
<1>1. Typed /\ LogOK
  BY DEF StepInv, Typed
<1>2. StepInv'
  BY NextStepInv
<1>3. Typed' /\ LogOK'
  BY <1>2 DEF StepInv, Typed
<1>4. /\ Len(calls) \in Nat /\ Len(pending) \in Nat /\ Len(response) \in Nat
      /\ Len(results) \in Nat /\ Len(calls) <= Len(response) /\ Len(results) <= Len(calls)
  BY <1>1, Elements DEF LogOK
<1>5. \A p : p \in {"streaming", "batch", "skipping", "interrupted"} => p \notin Ended
  BY DEF Ended
<1>6. ASSUME NEW key, NEW n, StreamCall(key, n) PROVE UNCHANGED Transcript!transcript
  BY <1>6, Unseen DEF StreamCall
<1>7. ASSUME NEW tail \in Tails, NEW reason \in {"tool_calls", "paused", "filtered"},
             StreamEnd(tail, reason)
      PROVE  Transcript!TNext
  BY <1>1, <1>3, <1>7, Receiving
<1>8. ASSUME \/ AttemptFails \/ Chain \/ LeftoverPrepares \/ drainOrphan \/ Abort \/ Over
             \/ UNCHANGED allVars
             \/ \E t \in Tasks : ToolSettles(t) \/ TaskFinishes(t) \/ Progress(t)
      PROVE  UNCHANGED Transcript!transcript
  <2>1. UNCHANGED <<response, calls, results, phase>>
    BY <1>8 DEF AttemptFails, Chain, prepareOne, chainAuthorized, LeftoverPrepares, drainOrphan,
                Abort, Over, allVars, ToolSettles, TaskFinishes, Progress
  <2> QED
    BY <2>1, Unseen
<1>9. ASSUME RequestEnds PROVE Transcript!TNext
  <2>1. /\ phase = "streaming" /\ phase' \in Ended /\ UNCHANGED <<response, calls, results>>
    BY <1>9 DEF RequestEnds, Ended
  <2>2. Len(response) = 0
    BY <1>1, <2>1, EmptySeq DEF LogOK
  <2>3. Len(calls) = 0 /\ Len(results) = 0
    BY <1>4, <2>2
  <2> QED
    BY <1>1, <1>5, <2>1, <2>3, Ending
<1>10. ASSUME seal PROVE Transcript!TNext
  <2>1. /\ phase \notin Ended /\ phase' \in Ended /\ UNCHANGED <<response, calls, results>>
        /\ Len(results) = Len(response)
    BY <1>10 DEF seal, Ended
  <2>2. \A l, m, n \in Nat : l = n /\ m <= n /\ l <= m => l = m /\ m = n
    OBVIOUS
  <2>3. Len(results) = Len(calls) /\ Len(calls) = Len(response)
    BY <1>4, <2>1, <2>2
  <2> QED
    BY <1>1, <2>1, <2>3, Ending
<1>11. ASSUME NextStep PROVE Transcript!TNext
  <2>1. /\ phase = "sealed" \/ (phase = "streaming" /\ response = << >>)
        /\ phase' = "streaming" /\ response' = << >> /\ calls' = << >> /\ results' = << >>
    BY <1>1, <1>11, NextStepFacts DEF LogOK
  <2>2. phase = "sealed" => phase \in Ended
    BY DEF Ended
  <2>3. phase' \notin Ended
    BY <2>1 DEF Ended
  <2>4. Ids(response)' = << >> /\ Ids(results)' = << >>
    BY <2>1, IdsEmpty DEF Ids
  <2>5. phase = "streaming" => Ids(response) = << >>
    BY <2>1, <2>2, IdsEmpty
  <2>6. Transcript!NextStep
    BY <2>1, <2>2, <2>3, <2>4, <2>5 DEF Transcript!NextStep
  <2> QED
    BY <2>6 DEF Transcript!TNext
<1>12. ASSUME NEW c \in DOMAIN response,
              \/ materialize(response[c]) \/ prepareToolCall(response[c])
              \/ skipCall(response[c]) \/ \E answer : batchAuthorized(response[c], answer)
       PROVE  [Transcript!TNext]_(Transcript!transcript)
  <2>1. /\ phase \in {"batch", "skipping"} /\ phase' \in {"batch", "skipping"}
        /\ AtCall(response[c]) /\ UNCHANGED <<response, results>>
        /\ UNCHANGED calls \/ calls' = Append(calls, response[c].id)
    BY <1>12 DEF materialize, prepareToolCall, skipCall, batchAuthorized, StopBatchIf, Record
  <2>2. Len(calls) = Len(pending) /\ Len(calls) < Len(response)
        /\ response[c] = response[Len(calls) + 1]
    BY <1>1, <2>1 DEF LogOK, AtCall
  <2>3. phase \notin Ended /\ phase' \notin Ended
    BY <1>5, <2>1
  <2>4. CASE UNCHANGED calls
    BY <2>1, <2>3, <2>4, Unseen
  <2>5. CASE calls' = Append(calls, response[c].id)
    <3>1. calls' = Append(calls, response[Len(calls) + 1].id)
      BY <2>2, <2>5
    <3>2. Distinct
      BY <1>1, <2>1 DEF LogOK, Raw, Ended
    <3> QED
      BY <1>1, <2>1, <2>2, <2>3, <3>1, <3>2, Announcing
  <2> QED
    BY <2>1, <2>4, <2>5
<1>13. ASSUME finalizeNext PROVE Transcript!TNext
  <2>1. PICK j : j = Len(results) + 1
    OBVIOUS
  <2>2. PICK call, out : call = response[j] /\ out = PendingOutcome(j)
    OBVIOUS
  <2>3. /\ j <= Len(response) /\ Len(pending) = Len(response) /\ phase \in {"batch", "skipping"}
        /\ UNCHANGED <<response, calls, phase>>
        /\ results' = Append(results, [id |-> call.id, out |-> FinalOutcome(dedup, call, out)])
    BY <1>13, <2>1, <2>2 DEF finalizeNext, finalizePending, PendingOutcome
  <2>4. Len(calls) = Len(response)
    BY <1>1, <2>3 DEF LogOK
  <2>5. Len(results) < Len(calls) /\ j \in DOMAIN response /\ j \in DOMAIN pending
    BY <1>1, <1>4, <2>1, <2>3, <2>4, Elements
  <2>6. call.key \in Key /\ out \in Outcomes /\ IsDedup(dedup)
    BY <1>1, <2>2, <2>5, Elements
    DEF PendingOutcome, TaskOutcome, Outcomes, Known, CallType, Typed, RunnerOK
  <2>7. FinalOutcome(dedup, call, out) \in DeferredStates
    BY <2>6, FinalizeFacts
  <2>8. PICK o \in DeferredStates : o = FinalOutcome(dedup, call, out)
    BY <2>7
  <2>9. results' = Append(results, [id |-> response[Len(results) + 1].id, out |-> o])
    BY <2>1, <2>2, <2>3, <2>8
  <2> QED
    BY <1>1, <1>5, <2>3, <2>5, <2>9, Answering
<1>14. ASSUME closeInterrupted PROVE Transcript!TNext
  <2>1. PICK j : j = Len(results) + 1
    OBVIOUS
  <2>2. PICK call : call = response[j]
    OBVIOUS
  <2>3. /\ j <= Len(response) /\ phase = "interrupted" /\ UNCHANGED <<response, phase>>
        /\ \/ /\ ~(\E i \in EntryOf(call) : entries[i].st # "skipped")
              /\ calls' = Append(calls, call.id)
              /\ results' = Append(results, [id |-> call.id, out |-> "unexecuted"])
           \/ /\ Len(calls) < j /\ calls' = Append(calls, call.id) /\ UNCHANGED results
              /\ \E i : i \in EntryOf(call)
           \/ /\ Len(calls) = j /\ UNCHANGED calls
              /\ \E i \in EntryOf(call) :
                   results' = Append(results,
                     [id |-> call.id,
                      out |-> FinalOutcome(dedup, call, EntryOutcome(entries[i], "unexecuted"))])
    BY <1>14, <2>1, <2>2, Zenon DEF closeInterrupted
  <2>4. j \in DOMAIN response /\ Len(results) < Len(response) /\ Len(results) < j
    <3>1. \A m, n \in Nat : m + 1 <= n => m + 1 \in 1..n /\ m < n /\ m < m + 1
      OBVIOUS
    <3>2. DOMAIN response = 1..Len(response)
      BY <1>1, Elements
    <3> QED
      BY <1>4, <2>1, <2>3, <3>1, <3>2
  <2>5. Len(calls) = Len(results) \/ (Len(calls) = j /\ Announced)
    BY <1>1, <2>1, <2>3 DEF LogOK, Announced
  <2>6. phase \notin Ended /\ phase' \notin Ended
    BY <1>5, <2>3
  <2>7. CASE /\ ~(\E i \in EntryOf(call) : entries[i].st # "skipped")
             /\ calls' = Append(calls, call.id)
             /\ results' = Append(results, [id |-> call.id, out |-> "unexecuted"])
    <3>1. Len(calls) = Len(results)
      BY <2>2, <2>5, <2>7 DEF Announced
    <3>2. /\ calls' = Append(calls, response[Len(calls) + 1].id)
          /\ results' = Append(results, [id |-> response[Len(calls) + 1].id, out |-> "unexecuted"])
          /\ Len(calls) < Len(response)
      BY <2>1, <2>2, <2>4, <2>7, <3>1
    <3>3. "unexecuted" \in DeferredStates
      BY DEF DeferredStates, Outcomes
    <3> QED
      BY <1>1, <2>3, <2>6, <3>1, <3>2, <3>3, Closing
  <2>8. CASE /\ Len(calls) < j /\ calls' = Append(calls, call.id) /\ UNCHANGED results
             /\ \E i : i \in EntryOf(call)
    <3>1. Len(calls) = Len(results)
      BY <1>4, <2>4, <2>5, <2>8
    <3>3. Distinct
      BY <1>1, <2>8, EmptySeq DEF LogOK, Raw, EntryOf
    <3>2. calls' = Append(calls, response[Len(calls) + 1].id) /\ Len(calls) < Len(response)
      BY <2>1, <2>2, <2>4, <2>8, <3>1
    <3> QED
      BY <1>1, <2>3, <2>6, <2>8, <3>2, <3>3, Announcing
  <2>9. ASSUME Len(calls) = j, UNCHANGED calls, NEW i \in EntryOf(call),
               results' = Append(results,
                 [id |-> call.id,
                  out |-> FinalOutcome(dedup, call, EntryOutcome(entries[i], "unexecuted"))])
        PROVE  Transcript!TNext
    <3>1. PICK out : out = EntryOutcome(entries[i], "unexecuted")
      OBVIOUS
    <3>2. call.key \in Key /\ out \in Outcomes /\ IsDedup(dedup)
      BY <1>1, <2>2, <2>4, <3>1, Elements, EntryOutcomes DEF EntryOf, CallType, Typed, RunnerOK
    <3>3. FinalOutcome(dedup, call, out) \in DeferredStates
      BY <3>2, FinalizeFacts
    <3>4. PICK o \in DeferredStates : o = FinalOutcome(dedup, call, out)
      BY <3>3
    <3>5. results' = Append(results, [id |-> response[Len(results) + 1].id, out |-> o])
      BY <2>1, <2>2, <2>9, <3>1, <3>4
    <3>6. Len(results) < Len(calls)
      BY <2>4, <2>9
    <3> QED
      BY <1>1, <2>3, <2>6, <2>9, <3>5, <3>6, Answering
  <2> QED
    BY <2>3, <2>7, <2>8, <2>9
<1> QED
  BY <1>6, <1>7, <1>8, <1>9, <1>10, <1>11, <1>12, <1>13, <1>14 DEF StepNext, Stream, Batch

\* dispatchToolCall, dispatchToolResult, runToolCallBatch,
\* drainInterruptedToolCalls: whatever finishes first, and whether the response
\* breaks off or the turn is aborted, the tool.call and tool.result events
\* follow the final response, and a step ends with no call left open.
THEOREM StepKeepsTranscript == StepSpec => KeepsTranscript
<1>1. StepInit => Transcript!TInit
  <2> SUFFICES ASSUME StepInit PROVE Transcript!TInit
    OBVIOUS
  <2>1. /\ response = << >> /\ calls = << >> /\ results = << >> /\ phase = "streaming"
    BY DEF StepInit
  <2>2. Ids(response) = << >> /\ Ids(results) = << >>
    BY <2>1, IdsEmpty
  <2>3. phase \notin Ended
    BY <2>1 DEF Ended
  <2> QED
    BY <2>1, <2>2, <2>3 DEF Transcript!TInit
<1>2. StepInv /\ [StepNext]_allVars => [Transcript!TNext]_(Transcript!transcript)
  BY TranscriptStep
<1> QED
  BY <1>1, <1>2, AlwaysStepInv, PTL DEF StepSpec, KeepsTranscript, Transcript!TSpec

---------------------------------------------------------------------------
(* Progress *)

\* The id of a preparation that an abandoned step left behind belongs to no
\* call of this step.
LeftoverOK ==
  /\ leftover \in Seq(CallType)
  /\ \A l \in DOMAIN leftover :
       /\ leftover[l].id[1] < nextId
       /\ \A i \in DOMAIN stream : stream[i].id[1] # leftover[l].id[1]
       /\ \A i \in DOMAIN entries : entries[i].call.id[1] # leftover[l].id[1]
       /\ \A i \in DOMAIN response : response[i].id[1] # leftover[l].id[1]

\* The deduplicator knows the call and not as a duplicate.
HeldIn(d, id) == id \in d.registered /\ id \notin d.synthetic

\* An announced call has no entry, but for the one an interrupted step is at.
AnnouncedOK ==
  \A k \in DOMAIN entries, j \in DOMAIN calls :
    entries[k].call.id = calls[j] =>
      Ready(entries[k]) /\ phase = "interrupted" /\ j > Len(results)

\* An id whose tool has a task is that of a started entry, of an announced call, or of a
\* preparation no call of the response answers to.
Drained(id) == phase # "streaming" /\ \A i \in DOMAIN response : response[i].id # id
HomeOK ==
  \A t \in Tasks :
    /\ \/ \E k \in DOMAIN entries : entries[k].call.id = taskCall[t].id
       \/ \E j \in DOMAIN calls : calls[j] = taskCall[t].id
       \/ Drained(taskCall[t].id)
    /\ \A k \in DOMAIN entries :
         entries[k].call.id = taskCall[t].id => entries[k].st = "started"

\* Until its call has a result, the deduplicator holds the id of whoever may
\* execute it.
Answered(id) == \E j \in DOMAIN results : results[j].id = id
Waiting(entry) == entry.st \in {"authorizing", "deferred", "started"}
HeldOK ==
  /\ \A k \in DOMAIN entries : Waiting(entries[k]) => HeldIn(dedup, entries[k].call.id)
  /\ authorizing => HeldIn(dedup, BatchCall.id)
  /\ \A t \in Tasks : \/ Answered(taskCall[t].id) \/ Drained(taskCall[t].id)
                     \/ HeldIn(dedup, taskCall[t].id)

\* Only announced calls have an open gate, nothing is held back behind it, and
\* what is held back was reported by a tool.
GatesOK ==
  /\ \A id \in opened : \E j \in DOMAIN calls : calls[j] = id
  /\ shown \subseteq opened /\ buffered \cap opened = {}
  /\ \A id \in buffered : \E t \in Tasks : taskCall[t].id = id

\* An announced call whose gate is closed although its tool has a task is one
\* the batch skips: its outcome is known, and it is not that the tool ran.
UnopenedOK ==
  \A t \in Tasks, j \in DOMAIN calls :
    calls[j] = taskCall[t].id /\ taskCall[t].id \notin opened =>
      /\ j \in DOMAIN results => results[j].out # "ok"
      /\ j \notin DOMAIN results => phase = "skipping" /\ pending[j].task = 0

GateInv == LeftoverOK /\ AnnouncedOK /\ HomeOK /\ HeldOK /\ GatesOK /\ UnopenedOK

\* The deduplicator changes what it knows of one id at a time.
LEMMA DedupHeld ==
  ASSUME NEW d, IsDedup(d), NEW call, NEW out, NEW e,
         e \in {d, checkSameStep(d, call), finalizeResult(d, call, out)}
  PROVE  /\ \A id : id # call.id => (HeldIn(e, id) <=> HeldIn(d, id))
         /\ e = checkSameStep(d, call) /\ ~IsDuplicate(e, call) => HeldIn(e, call.id)
<1>1. ASSUME NEW c, c = checkSameStep(d, call)
      PROVE  /\ \A id : id # call.id => /\ id \in c.registered <=> id \in d.registered
                                        /\ id \in c.synthetic <=> id \in d.synthetic
             /\ call.id \in c.registered
  <2>1. CASE d.deferreds[call.key] # "none"
    <3>1. c = [d EXCEPT !.registered = @ \cup {call.id}, !.synthetic = @ \cup {call.id}]
      BY <1>1, <2>1 DEF checkSameStep
    <3> QED BY <3>1 DEF IsDedup
  <2>2. CASE ~(d.deferreds[call.key] # "none")
    <3>1. c = [d EXCEPT !.registered = @ \cup {call.id}, !.original = @ \cup {call.id},
                        !.deferreds[call.key] = "open"]
      BY <1>1, <2>2 DEF checkSameStep
    <3> QED BY <3>1 DEF IsDedup
  <2> QED BY <2>1, <2>2
<1>2. CASE e = d
  BY <1>1, <1>2 DEF HeldIn, IsDuplicate
<1>3. CASE e = checkSameStep(d, call)
  BY <1>1, <1>3 DEF HeldIn, IsDuplicate
<1>4. CASE e = finalizeResult(d, call, out)
  <2>1. PICK c : c = registerSkipped(d, call)
    OBVIOUS
  <2>2. c = d \/ c = checkSameStep(d, call)
    BY <2>1 DEF registerSkipped
  <2>3. e.registered = c.registered \ {call.id} /\ e.synthetic = c.synthetic \ {call.id}
    BY <1>4, <2>1 DEF finalizeResult
  <2>4. \A id : id # call.id => (HeldIn(e, id) <=> HeldIn(d, id))
    BY <1>1, <2>2, <2>3 DEF HeldIn
  <2>5. call.id \notin e.registered
    BY <2>3
  <2>6. e # checkSameStep(d, call)
    BY <1>1, <2>5
  <2> QED BY <2>4, <2>6
<1> QED BY <1>2, <1>3, <1>4

\* checkSameStep: no other id is touched.
LEMMA CheckHeld ==
  ASSUME NEW d, IsDedup(d), NEW call
  PROVE  /\ \A id : id # call.id => (HeldIn(checkSameStep(d, call), id) <=> HeldIn(d, id))
         /\ ~IsDuplicate(checkSameStep(d, call), call) => HeldIn(checkSameStep(d, call), call.id)
<1>1. PICK e : e = checkSameStep(d, call)
  OBVIOUS
<1>2. /\ \A id : id # call.id => (HeldIn(e, id) <=> HeldIn(d, id))
      /\ e = checkSameStep(d, call) /\ ~IsDuplicate(e, call) => HeldIn(e, call.id)
  BY <1>1, DedupHeld
<1> QED BY <1>1, <1>2

\* finalizeResult: nor is one when a result is known.
LEMMA FinalizeHeld ==
  ASSUME NEW d, IsDedup(d), NEW call, NEW out
  PROVE  \A id : id # call.id => (HeldIn(finalizeResult(d, call, out), id) <=> HeldIn(d, id))
<1>1. PICK e : e = finalizeResult(d, call, out)
  OBVIOUS
<1>2. \A id : id # call.id => (HeldIn(e, id) <=> HeldIn(d, id))
  BY <1>1, DedupHeld
<1> QED BY <1>1, <1>2

\* The call it holds gets its own result.
LEMMA FinalHeld ==
  ASSUME NEW d, NEW call, NEW out, HeldIn(d, call.id)
  PROVE  FinalOutcome(d, call, out) = out
<1>1. registerSkipped(d, call) = d
  BY DEF registerSkipped, HeldIn
<1> QED BY <1>1 DEF FinalOutcome, IsDuplicate, HeldIn

\* Only the stream brings calls that had no entry.
OldCalls == \A j \in DOMAIN entries' : \E i \in DOMAIN entries : entries'[j].call = entries[i].call
Streams == \E key \in Key : \E n \in ProviderIds : StreamCall(key, n)

\* Entries are made of streamed calls only; the batch, the chain and the orphans
\* keep or drop them.
LEMMA CallsShape ==
  ASSUME Typed, [StepNext]_allVars
  PROVE  OldCalls \/ Streams
<1> USE DEF vars, runnerVars, streamVars, batchVars, logVars, taskVars, gateVars
<1>1. RunnerOK /\ RecordsOK /\ IInv /\ IdsOK
  BY DEF Typed
<1>2. ASSUME UNCHANGED entries PROVE OldCalls
  BY <1>2 DEF OldCalls
<1>3. ASSUME NEW call, entries' = Without(call) PROVE OldCalls
  BY <1>1, <1>3, WithoutFacts DEF OldCalls
<1>4. ASSUME NextStep PROVE OldCalls
  <2>1. entries' = << >> /\ DOMAIN << >> = {}
    BY <1>4, NextStepFacts
  <2> QED BY <2>1 DEF OldCalls
<1>5. ASSUME prepareOne \/ \E answer \in Answers : chainAuthorized(answer) PROVE OldCalls
  <2>1. \E i, e : Becomes(i, e)
    BY <1>1, <1>5, PrepareShape, AuthorizedShape DEF Prepares, HookAnswers
  <2> QED BY <2>1 DEF Becomes, OldCalls
<1>6. ASSUME drainOrphan PROVE OldCalls
  BY <1>3, <1>6 DEF drainOrphan
<1>7. ASSUME NEW c \in DOMAIN response,
             \/ materialize(response[c]) \/ skipCall(response[c]) \/ prepareToolCall(response[c])
             \/ \E answer : batchAuthorized(response[c], answer)
      PROVE  OldCalls
  BY <1>2, <1>3, <1>7 DEF materialize, skipCall, prepareToolCall, batchAuthorized
<1>8. ASSUME closeInterrupted PROVE OldCalls
  <2>1. \E call : entries' = Without(call) \/ UNCHANGED entries
    BY <1>8, Zenon DEF closeInterrupted
  <2> QED BY <1>2, <1>3, <2>1
<1>9. ASSUME \/ LeftoverPrepares \/ Over \/ UNCHANGED allVars \/ finalizeNext \/ Abort
             \/ AttemptFails \/ RequestEnds \/ seal
             \/ \E t \in Tasks : ToolSettles(t) \/ TaskFinishes(t) \/ Progress(t)
       PROVE  UNCHANGED entries
  BY <1>9 DEF LeftoverPrepares, Over, allVars, finalizeNext, finalizePending, Abort,
              AttemptFails, RequestEnds, seal, ToolSettles, TaskFinishes, Progress
<1>10. ASSUME NEW tail \in Tails, NEW reason \in {"tool_calls", "paused", "filtered"},
              StreamEnd(tail, reason)
       PROVE  UNCHANGED entries
  BY <1>10 DEF StreamEnd
<1> QED
  BY <1>2, <1>4, <1>5, <1>6, <1>7, <1>8, <1>9, <1>10
  DEF StepNext, Stream, Chain, Batch, Streams

---------------------------------------------------------------------------
(* What abandoned steps leave behind *)

Left == {leftover[l] : l \in DOMAIN leftover} \cup {entries[i].call : i \in DOMAIN entries}

\* The preparations that have not begun are entries of the abandoned step.
LEMMA LeftBehind ==
  ASSUME Typed, leftover \in Seq(CallType)
  PROVE  FoldLeft(LeaveBehind, leftover, entries) \in Seq(Left)
<1> DEFINE n == Len(entries)
           D == SUBSET (1..n)
           B == Seq(Left)
           G == [i \in 1..n |-> [a \in B |-> LeaveBehind(a, entries[i])]]
           Body(f, t) == IF t = {} THEN leftover ELSE LeaveBehind(f[t \ {Max(t)}], entries[Max(t)])
           c == CHOOSE f : f = [t \in D |-> Body(f, t)]
           S == {j \in Nat : j <= n => c[1..j] \in B}
<1>0. /\ n \in Nat /\ DOMAIN entries = 1..n
      /\ \A i \in 1..n : entries[i].call \in Left
  BY Elements DEF Left
<1>1. leftover \in B
  <2>1. \A l \in 1..Len(leftover) : leftover[l] \in Left
    BY LenProperties DEF Left
  <2>2. leftover \in [1..Len(leftover) -> Left] /\ Len(leftover) \in Nat
    BY <2>1, LenProperties
  <2> HIDE DEF B
  <2>3. leftover \in Seq(Left)
    BY <2>2, SeqDef
  <2> QED BY <2>3 DEF B
<1>2. \A a \in B, i \in 1..n : LeaveBehind(a, entries[i]) \in B
  BY <1>0 DEF LeaveBehind
<1>3. FoldLeft(LeaveBehind, leftover, entries) = c[1..n]
  BY <1>0 DEF FoldLeft, MapThenFoldSet
<1>4. G \in [1..n -> [B -> B]]
  BY <1>2
<1>5. PICK it \in [D -> B] : Iterates(it, n, leftover, G)
  <2> HIDE DEF n, B, G
  <2> QED BY <1>0, <1>1, <1>4, IterationExists
<1>6. \A t \in D : t # {} => Max(t) \in 1..n /\ t \ {Max(t)} \in D
  BY <1>0, MaxFacts
<1>7. it = [t \in D |-> Body(it, t)]
  <2>1. \A t \in D : it[t] = Body(it, t)
    BY <1>5, <1>6 DEF Iterates, FoldStep
  <2> QED BY <1>5, <2>1
<1>8. c = [t \in D |-> Body(c, t)]
  BY <1>7
<1> HIDE DEF c
<1>9. 0 \in S
  <2>1. 1..0 = {} /\ {} \in D
    OBVIOUS
  <2>2. c[{}] = leftover
    BY <1>8, <2>1
  <2> QED BY <1>1, <2>1, <2>2
<1>10. ASSUME NEW j \in Nat, j \in S PROVE j + 1 \in S
  <2> SUFFICES ASSUME j + 1 <= n PROVE c[1..(j + 1)] \in B
    BY <1>10
  <2>1. j + 1 \in 1..n /\ 1..(j + 1) \in D /\ c[1..j] \in B
    BY <1>0, <1>10
  <2>2. c[1..(j + 1)] = LeaveBehind(c[(1..(j + 1)) \ {Max(1..(j + 1))}], entries[Max(1..(j + 1))])
    BY <1>8, <2>1, RangeStep
  <2>3. c[1..(j + 1)] = LeaveBehind(c[1..j], entries[j + 1])
    BY <2>1, <2>2, RangeStep
  <2> QED BY <1>2, <2>1, <2>3
<1> HIDE DEF S
<1>11. n \in S
  BY <1>0, <1>9, <1>10, InductionOnNat
<1> QED BY <1>0, <1>3, <1>11 DEF S

\* The calls of the response have the fresh parts of their ids from the stream
\* or are new.
LEMMA ResponseIds ==
  ASSUME Typed, NEW tail \in Tails, NEW reason, StreamEnd(tail, reason)
  PROVE  \A i \in DOMAIN response' :
           /\ response'[i].id[1] \in Nat
           /\ response'[i].id[1] < nextId =>
                \E j \in DOMAIN stream : response'[i].id[1] = stream[j].id[1]
<1> DEFINE s == Received(tail)
<1>1. /\ s \in Seq(CallType)
      /\ \A i \in DOMAIN s : s[i].id[1] < nextId => \E j \in DOMAIN stream : stream[j].id = s[i].id
  BY ReceivedFacts DEF Typed
<1>2. /\ DOMAIN response' = DOMAIN s
      /\ \A i \in DOMAIN s : response'[i].id[1] = s[i].id[1]
  BY EndShape DEF Typed
<1>3. \A i \in DOMAIN s : s[i] \in CallType
  BY <1>1, LenProperties, ElementOfSeq
<1> HIDE DEF s
<1>4. \A i \in DOMAIN s : s[i].id[1] \in Nat
  BY <1>3 DEF CallType, IdType
<1> QED BY <1>1, <1>2, <1>4

\* The old chain goes on or not.
ChainTail == leftover' = leftover \/ (leftover # << >> /\ leftover' = Tail(leftover))

\* No step gives the ids it left behind to new calls.
LEMMA LeftoverStep ==
  ASSUME Typed, LogOK, LeftoverOK, [StepNext]_allVars
  PROVE  LeftoverOK'
<1> USE DEF vars, runnerVars, streamVars, batchVars, logVars, taskVars, gateVars
<1>1. /\ leftover \in Seq(CallType) /\ nextId \in Nat /\ IdsOK
      /\ \A l \in DOMAIN leftover : leftover[l].id[1] \in Nat
  <2>1. leftover \in Seq(CallType)
    BY DEF LeftoverOK
  <2>2. \A l \in DOMAIN leftover : leftover[l] \in CallType
    BY <2>1, LenProperties, ElementOfSeq
  <2> QED BY <2>1, <2>2 DEF Typed, RunnerOK, CallType, IdType
<1>2. ASSUME OldCalls, stream' = stream \/ stream' = << >>,
             UNCHANGED <<response, nextId>>, ChainTail
      PROVE  LeftoverOK'
  <2>1. /\ leftover' \in Seq(CallType)
        /\ \A l \in DOMAIN leftover' : \E m \in DOMAIN leftover : leftover'[l] = leftover[m]
    <3>1. CASE leftover' = leftover
      BY <1>1, <3>1
    <3>2. CASE leftover # << >> /\ leftover' = Tail(leftover)
      <4>1. /\ Tail(leftover) \in Seq(CallType) /\ Len(leftover) \in Nat \ {0}
            /\ DOMAIN leftover = 1..Len(leftover) /\ DOMAIN Tail(leftover) = 1..(Len(leftover) - 1)
            /\ \A i \in 1..(Len(leftover) - 1) : Tail(leftover)[i] = leftover[i + 1]
        BY <1>1, <3>2, HeadTailProperties, LenProperties, EmptySeq
      <4> QED BY <3>2, <4>1
    <3> QED BY <1>2, <3>1, <3>2 DEF ChainTail
  <2>2. \A i \in DOMAIN stream' : i \in DOMAIN stream /\ stream'[i] = stream[i]
    <3>1. DOMAIN << >> = {}
      OBVIOUS
    <3> QED BY <1>2, <3>1
  <2>3. \A l \in DOMAIN leftover' :
          /\ leftover'[l].id[1] < nextId'
          /\ \A i \in DOMAIN stream' : stream'[i].id[1] # leftover'[l].id[1]
          /\ \A i \in DOMAIN response' : response'[i].id[1] # leftover'[l].id[1]
    BY <1>2, <2>1, <2>2 DEF LeftoverOK
  <2>4. \A l \in DOMAIN leftover' : \A i \in DOMAIN entries' : entries'[i].call.id[1] # leftover'[l].id[1]
    BY <1>2, <2>1 DEF LeftoverOK, OldCalls
  <2>5. leftover' \in Seq(CallType)
    BY <2>1
  <2> QED BY <2>3, <2>4, <2>5 DEF LeftoverOK
<1>3. ASSUME Streams PROVE LeftoverOK'
  <2>1. PICK key \in Key, n \in ProviderIds : StreamCall(key, n)
    BY <1>3 DEF Streams
  <2>2. PICK call : call = [id |-> <<n, 1>>, key |-> key]
    OBVIOUS
  <2>3. /\ addReady(call) /\ stream' = Append(stream, call)
        /\ nextId' = IF n = nextId THEN nextId + 1 ELSE nextId
        /\ UNCHANGED <<leftover, response>>
    BY <2>1, <2>2 DEF StreamCall
  <2>4. n \in Nat /\ n <= nextId /\ (n # nextId => \E i \in DOMAIN stream : stream[i].id[1] = n)
    BY ProviderIdsTyped
  <2>5. call \in CallType /\ call.id[1] = n
    BY <2>2, <2>4 DEF CallType, IdType
  <2>6. \A l \in DOMAIN leftover : leftover[l].id[1] # n /\ leftover[l].id[1] < nextId'
    <3>1. \A l \in DOMAIN leftover : leftover[l].id[1] < nextId
      BY DEF LeftoverOK
    <3>2. nextId' \in Nat /\ nextId <= nextId'
      BY <1>1, <2>3
    <3>3. \A l \in DOMAIN leftover : leftover[l].id[1] # nextId /\ leftover[l].id[1] < nextId'
      BY <1>1, <3>1, <3>2
    <3> QED BY <2>4, <3>3 DEF LeftoverOK
  <2>7. \A i \in DOMAIN stream' : (\E j \in DOMAIN stream : stream'[i] = stream[j]) \/ stream'[i] = call
    <3>1. /\ DOMAIN stream' = 1..(Len(stream) + 1) /\ DOMAIN stream = 1..Len(stream)
          /\ \A i \in 1..Len(stream) : stream'[i] = stream[i]
          /\ stream'[Len(stream) + 1] = call /\ Len(stream) \in Nat
      BY <2>3, <2>5, AppendProperties, LenProperties DEF Typed, RunnerOK
    <3>2. \A m \in Nat : \A i \in 1..(m + 1) : i \in 1..m \/ i = m + 1
      OBVIOUS
    <3> QED BY <3>1, <3>2
  <2>8. \A i \in DOMAIN entries' :
          (\E j \in DOMAIN entries : entries'[i] = entries[j]) \/ entries'[i].call = call
    <3>1. Adds(call) /\ DOMAIN entries = 1..Len(entries) /\ Len(entries) \in Nat
      BY <2>3, <2>5, AddReadyShape, Elements
    <3>2. \A m \in Nat : \A i \in 1..(m + 1) : i \in 1..m \/ i = m + 1
      OBVIOUS
    <3> QED BY <3>1, <3>2 DEF Adds
  <2>9. \A l \in DOMAIN leftover, i \in DOMAIN stream' : stream'[i].id[1] # leftover[l].id[1]
    BY <2>5, <2>6, <2>7 DEF LeftoverOK
  <2>10. \A l \in DOMAIN leftover, i \in DOMAIN entries' : entries'[i].call.id[1] # leftover[l].id[1]
    BY <2>5, <2>6, <2>8 DEF LeftoverOK
  <2>11. leftover' = leftover /\ response' = response
    BY <2>3
  <2> QED BY <1>1, <2>6, <2>9, <2>10, <2>11 DEF LeftoverOK
<1>4. ASSUME NEW tail \in Tails, NEW reason \in {"tool_calls", "paused", "filtered"},
             StreamEnd(tail, reason)
      PROVE  LeftoverOK'
  <2>1. UNCHANGED <<leftover, stream, entries>>
    BY <1>4 DEF StreamEnd
  <2>2. nextId' \in Nat /\ nextId <= nextId'
    <3>1. Len(tail) \in Nat /\ nextId' = nextId + Len(tail)
      BY <1>4, ReceivedFacts, LenProperties DEF StreamEnd, Typed
    <3> QED BY <1>1, <3>1
  <2>3. \A l \in DOMAIN leftover : leftover[l].id[1] < nextId'
    <3>1. \A l \in DOMAIN leftover : leftover[l].id[1] < nextId
      BY DEF LeftoverOK
    <3> QED BY <1>1, <2>2, <3>1
  <2>4. \A l \in DOMAIN leftover, i \in DOMAIN response' : response'[i].id[1] # leftover[l].id[1]
    <3> SUFFICES ASSUME NEW l \in DOMAIN leftover, NEW i \in DOMAIN response',
                        response'[i].id[1] = leftover[l].id[1]
                 PROVE  FALSE
      OBVIOUS
    <3>1. leftover[l].id[1] < nextId /\ \A j \in DOMAIN stream : stream[j].id[1] # leftover[l].id[1]
      BY DEF LeftoverOK
    <3> QED BY <1>4, <3>1, ResponseIds
  <2> QED BY <1>1, <2>1, <2>3, <2>4 DEF LeftoverOK
<1>5. ASSUME NextStep PROVE LeftoverOK'
  <2>1. leftover' = FoldLeft(LeaveBehind, leftover, entries) /\ leftover' \in Seq(Left)
    BY <1>1, <1>5, LeftBehind DEF NextStep
  <2>2. \A l \in DOMAIN leftover' : leftover'[l] \in Left
    BY <2>1, LenProperties, ElementOfSeq
  <2>3. \A c \in Left : c \in CallType /\ c.id[1] < nextId
    <3>1. \A l \in DOMAIN leftover : leftover[l] \in CallType
      BY <1>1, LenProperties, ElementOfSeq
    <3> QED BY <3>1, Elements DEF Left, LeftoverOK, Typed, IdsOK
  <2>4. leftover' \in Seq(CallType)
    <3>1. Left \subseteq CallType
      BY <2>3
    <3>2. \A l \in 1..Len(leftover') : leftover'[l] \in CallType
      BY <2>1, <2>2, <3>1, LenProperties
    <3>3. leftover' \in [1..Len(leftover') -> CallType] /\ Len(leftover') \in Nat
      BY <2>1, <3>2, LenProperties
    <3> QED BY <3>3, SeqDef
  <2>5. DOMAIN stream' = {} /\ DOMAIN entries' = {} /\ DOMAIN response' = {} /\ nextId' = nextId
    BY <1>5, NextStepFacts
  <2> QED BY <2>2, <2>3, <2>4, <2>5 DEF LeftoverOK
<1>6. ASSUME ~Streams, ~NextStep,
             ~\E tail \in Tails, reason \in {"tool_calls", "paused", "filtered"} :
                StreamEnd(tail, reason)
      PROVE  LeftoverOK'
  <2>1. OldCalls
    BY <1>6, CallsShape
  <2>2. UNCHANGED <<response, nextId>> /\ (stream' = stream \/ stream' = << >>) /\ ChainTail
    <3>1. ASSUME \/ LeftoverPrepares \/ Over \/ UNCHANGED allVars \/ finalizeNext \/ Abort
                 \/ AttemptFails \/ RequestEnds \/ seal \/ prepareOne \/ drainOrphan
                 \/ \E t \in Tasks : ToolSettles(t) \/ TaskFinishes(t) \/ Progress(t)
          PROVE  UNCHANGED <<response, nextId>> /\ (stream' = stream \/ stream' = << >>) /\ ChainTail
      BY <3>1 DEF ChainTail, LeftoverPrepares, Over, allVars, finalizeNext, finalizePending, Abort, prepareOne,
           drainOrphan, AttemptFails, RequestEnds, seal, ToolSettles, TaskFinishes, Progress
    <3>2. ASSUME \/ closeInterrupted \/ \E answer \in Answers : chainAuthorized(answer)
          PROVE  UNCHANGED <<response, nextId>> /\ (stream' = stream \/ stream' = << >>) /\ ChainTail
      BY <3>2 DEF ChainTail, closeInterrupted, chainAuthorized
    <3>3. ASSUME NEW c \in DOMAIN response,
                 \/ materialize(response[c]) \/ skipCall(response[c]) \/ prepareToolCall(response[c])
                 \/ \E answer : batchAuthorized(response[c], answer)
          PROVE  UNCHANGED <<response, nextId>> /\ (stream' = stream \/ stream' = << >>) /\ ChainTail
      BY <3>3 DEF ChainTail, materialize, skipCall, prepareToolCall, batchAuthorized
    <3> QED BY <1>6, <3>1, <3>2, <3>3 DEF StepNext, Stream, Chain, Batch, Streams
  <2> QED BY <1>2, <2>1, <2>2
<1> QED BY <1>3, <1>4, <1>5, <1>6

---------------------------------------------------------------------------
(* The batch and the interrupted step, call by call *)

\* The call the batch is at has not been announced.
LEMMA AtNext ==
  ASSUME Typed, LogOK, NEW call, AtCall(call), phase \in {"batch", "skipping"}
  PROVE  /\ call \in CallType /\ call = response[Len(calls) + 1] /\ Orphans = {}
         /\ Len(calls) + 1 \in DOMAIN response /\ Len(pending) = Len(calls)
         /\ Len(results) = 0
         /\ \A j \in DOMAIN calls : calls[j] # call.id
<1>1. /\ Len(pending) + 1 \in DOMAIN response /\ call = response[Len(pending) + 1]
      /\ call \in CallType /\ Orphans = {} /\ Len(pending) < Len(response)
  BY AtCallFacts DEF AtCall
<1>2. /\ Len(pending) = Len(calls) /\ (Len(results) # 0 => Len(calls) = Len(response))
      /\ \A j \in DOMAIN calls : calls[j] = response[j].id
      /\ \A i, j \in DOMAIN response : response[i].id = response[j].id => i = j
  BY DEF LogOK, Distinct, Raw, Ended
<1>3. /\ DOMAIN calls = 1..Len(calls) /\ DOMAIN response = 1..Len(response)
      /\ Len(calls) \in Nat /\ Len(response) \in Nat
  BY Elements
<1>4. Len(results) = 0
  BY <1>1, <1>2, <1>3
<1>5. \A m, n \in Nat : m < n => \A j \in 1..m : j \in 1..n /\ j # m + 1
  OBVIOUS
<1>6. \A j \in DOMAIN calls : j \in DOMAIN response /\ j # Len(calls) + 1
  BY <1>1, <1>2, <1>3, <1>5
<1> QED BY <1>1, <1>2, <1>4, <1>6

\* The logs are one longer after Record().
LEMMA Recorded ==
  ASSUME Typed, NEW call \in CallType, NEW out \in Known, NEW task \in Nat,
         Record(call, out, task)
  PROVE  /\ DOMAIN calls' = 1..(Len(calls) + 1) /\ DOMAIN calls = 1..Len(calls)
         /\ DOMAIN pending' = 1..(Len(pending) + 1) /\ DOMAIN pending = 1..Len(pending)
         /\ \A j \in DOMAIN calls' : calls'[j] = IF j \in DOMAIN calls THEN calls[j] ELSE call.id
         /\ \A j \in DOMAIN pending' :
              pending'[j] = IF j \in DOMAIN pending THEN pending[j] ELSE [out |-> out, task |-> task]
         /\ \A j \in DOMAIN calls : j \in DOMAIN calls'
         /\ \A j \in DOMAIN calls' : j \notin DOMAIN calls => j = Len(calls) + 1
         /\ \A j \in DOMAIN pending' : j \notin DOMAIN pending => j = Len(pending) + 1
         /\ Len(calls) + 1 \in DOMAIN calls' /\ calls'[Len(calls) + 1] = call.id
         /\ UNCHANGED results
<1>1. /\ calls' \in Seq(IdType) /\ pending' \in Seq([out : Known, task : Nat])
      /\ results' = results
      /\ Len(calls') = Len(calls) + 1 /\ Len(pending') = Len(pending) + 1
      /\ \A i \in 1..Len(calls) : calls'[i] = calls[i]
      /\ calls'[Len(calls) + 1] = call.id
      /\ \A i \in 1..Len(pending) : pending'[i] = pending[i]
      /\ pending'[Len(pending) + 1] = [out |-> out, task |-> task]
  BY RecordTyped
<1>2. /\ DOMAIN calls = 1..Len(calls) /\ DOMAIN pending = 1..Len(pending)
      /\ Len(calls) \in Nat /\ Len(pending) \in Nat
      /\ DOMAIN calls' = 1..(Len(calls) + 1) /\ DOMAIN pending' = 1..(Len(pending) + 1)
  BY <1>1, Elements, LenProperties
<1>3. \A m \in Nat : /\ \A i \in 1..(m + 1) : i \in 1..m \/ i = m + 1
                     /\ \A i \in 1..m : i \in 1..(m + 1)
                     /\ m + 1 \in 1..(m + 1) /\ m + 1 \notin 1..m
  OBVIOUS
<1> QED BY <1>1, <1>2, <1>3

\* The next call an interrupted step closes, and the three ways to go about it.
NextCall == response[Len(results) + 1]
Closes ==
  /\ Len(calls) = Len(results) /\ \A i \in EntryOf(NextCall) : entries[i].st = "skipped"
  /\ calls' = Append(calls, NextCall.id) /\ entries' = Without(NextCall)
  /\ results' = Append(results, [id |-> NextCall.id, out |-> "unexecuted"])
  /\ UNCHANGED <<dedup, gateVars>>
Announces ==
  /\ Len(calls) = Len(results) /\ calls' = Append(calls, NextCall.id)
  /\ \E i \in EntryOf(NextCall) :
       /\ entries[i].st # "skipped"
       /\ IF entries[i].st = "deferred" THEN UNCHANGED gateVars ELSE OpenGate(NextCall.id)
  /\ UNCHANGED <<results, entries, dedup>>
Answer(i) ==
  LET out == EntryOutcome(entries[i], "unexecuted")
  IN  /\ Len(calls) = Len(results) + 1
      /\ i \in EntryOf(NextCall) /\ entries[i].st # "skipped" /\ EntryFinal(entries[i])
      /\ dedup' = finalizeResult(dedup, NextCall, out)
      /\ results' = Append(results, [id |-> NextCall.id, out |-> FinalOutcome(dedup, NextCall, out)])
      /\ entries' = Without(NextCall) /\ UNCHANGED <<calls, gateVars>>

\* drainInterruptedToolCalls: one of three things happens to the next call.
LEMMA CloseShape ==
  ASSUME Typed, LogOK, closeInterrupted
  PROVE  /\ phase = "interrupted" /\ Orphans = {} /\ Len(results) + 1 \in DOMAIN response
         /\ NextCall \in CallType
         /\ \A i \in EntryOf(NextCall) : Ready(entries[i])
         /\ Idles /\ UNCHANGED <<phase, response, pending, authorizing, stopped, stream>>
         /\ Closes \/ Announces \/ \E i : Answer(i)
<1> DEFINE prepared == {i \in EntryOf(NextCall) : entries[i].st # "skipped"}
<1>1. /\ phase = "interrupted" /\ Orphans = {} /\ Len(results) + 1 <= Len(response)
      /\ \A i \in EntryOf(NextCall) : Ready(entries[i])
      /\ Idles /\ UNCHANGED <<phase, response, pending, authorizing, stopped, stream>>
      /\ \/ /\ prepared = {}
            /\ calls' = Append(calls, NextCall.id)
            /\ results' = Append(results, [id |-> NextCall.id, out |-> "unexecuted"])
            /\ entries' = Without(NextCall)
            /\ UNCHANGED <<dedup, gateVars>>
         \/ /\ Len(calls) < Len(results) + 1
            /\ calls' = Append(calls, NextCall.id)
            /\ \E i \in prepared :
                 IF entries[i].st = "deferred" THEN UNCHANGED gateVars ELSE OpenGate(NextCall.id)
            /\ UNCHANGED <<results, entries, dedup>>
         \/ /\ Len(calls) = Len(results) + 1
            /\ \E i \in prepared :
                 LET out == EntryOutcome(entries[i], "unexecuted")
                 IN  /\ EntryFinal(entries[i])
                     /\ dedup' = finalizeResult(dedup, NextCall, out)
                     /\ results' = Append(results,
                                     [id |-> NextCall.id, out |-> FinalOutcome(dedup, NextCall, out)])
            /\ entries' = Without(NextCall)
            /\ UNCHANGED <<calls, gateVars>>
  BY DEF closeInterrupted, NextCall, Idles, streamVars, batchVars
<1>2. /\ Len(calls) \in Nat /\ Len(results) \in Nat /\ Len(response) \in Nat
      /\ DOMAIN response = 1..Len(response)
  BY Elements
<1>3. Len(results) + 1 \in DOMAIN response /\ NextCall \in CallType
  <2>1. Len(results) + 1 \in 1..Len(response)
    BY <1>1, <1>2
  <2> QED BY <1>2, <2>1, Elements DEF NextCall
<1>4. Len(calls) = Len(results) \/ (Len(calls) = Len(results) + 1 /\ prepared # {})
  <2>1. CASE Announced
    <3>1. /\ Len(calls) = Len(results) + 1
          /\ \E i \in EntryOf(response[Len(calls)]) : Ready(entries[i]) /\ entries[i].st # "skipped"
      BY <2>1 DEF Announced
    <3>2. NextCall = response[Len(calls)]
      BY <3>1 DEF NextCall
    <3> QED BY <3>1, <3>2
  <2> QED BY <1>1, <2>1 DEF LogOK
<1>5. Len(results) <= Len(calls)
  BY DEF LogOK
<1>6. prepared = {} => \A i \in EntryOf(NextCall) : entries[i].st = "skipped"
  OBVIOUS
<1>7. \A m, n \in Nat : m < n + 1 /\ (m = n \/ m = n + 1) => m = n
  OBVIOUS
<1>8. Len(calls) < Len(results) + 1 => Len(calls) = Len(results)
  BY <1>2, <1>4, <1>7
<1> QED BY <1>1, <1>3, <1>4, <1>6, <1>8 DEF Closes, Announces, Answer

---------------------------------------------------------------------------
(* What a step does to the entries, the deduplicator, the logs and the gates *)

Still == UNCHANGED <<phase, response, calls, results, pending, authorizing, gateVars>>

\* The stream is over.
Ends ==
  /\ phase = "streaming" /\ phase' # "streaming"
  /\ Idles /\ UNCHANGED <<entries, dedup, calls, results, pending, authorizing, gateVars>>

\* The chain goes on, the one of this step or the one that was left behind.
Readies == \E i, e : Prepares(i, e) /\ Idles /\ Still
HookMoves(i, e) == HookAnswers(i, e) /\ UNCHANGED dedup /\ Still
Hooks == \E i, e : HookMoves(i, e)
LeftPrepares ==
  /\ leftover # << >> /\ dedup' \in {dedup, checkSameStep(dedup, Head(leftover))}
  /\ Idles /\ UNCHANGED entries /\ Still

\* A preparation of a failed attempt is dropped.
Drops ==
  \E i \in Orphans :
    /\ phase \in {"batch", "interrupted"} /\ entries' = Without(entries[i].call)
    /\ \E out \in Outcomes : dedup' \in {dedup, finalizeResult(dedup, entries[i].call, out)}
    /\ Idles /\ Still

\* The batch records a call and opens its gate, or leaves the gate of a call
\* without a task alone.
Opens(call, out) ==
  /\ phase = "batch" /\ OpenGate(call.id) /\ UNCHANGED dedup
  /\ out = "skipped" => \E i \in EntryOf(call) : entries[i].out = "skipped"
  /\ Idles \/ (authorizing /\ AddTask(call))
Leaves(call, task) ==
  /\ UNCHANGED gateVars /\ Idles
  /\ \/ UNCHANGED dedup
     \/ EntryOf(call) = {} /\ dedup' = checkSameStep(dedup, call)
  /\ \/ phase = "batch" /\ \A i \in EntryOf(call) : entries[i].st # "started"
     \/ phase = "skipping" /\ phase' = "skipping" /\ task = 0
Takes(call, out, task) ==
  /\ AtCall(call) /\ Record(call, out, task) /\ out \in Known /\ task \in Nat
  /\ phase \in {"batch", "skipping"} /\ phase' \in {phase, "skipping"}
  /\ authorizing' = FALSE /\ entries' = Without(call) /\ UNCHANGED response
  /\ Opens(call, out) \/ Leaves(call, task)

\* The batch waits for an authorization.
Waits ==
  \E call :
    /\ phase = "batch" /\ AtCall(call) /\ authorizing' = TRUE
    /\ Idles /\ UNCHANGED <<entries, phase, response, calls, results, pending, gateVars>>
    /\ \/ UNCHANGED dedup /\ \E i \in EntryOf(call) : entries[i].st = "deferred"
       \/ /\ EntryOf(call) = {} /\ dedup' = checkSameStep(dedup, call)
          /\ ~IsDuplicate(dedup', call)

\* A result is dispatched.
PendingOut(j) == IF pending[j].task = 0 THEN pending[j].out ELSE TaskOutcome(pending[j].task)
Finalizes ==
  LET j == Len(results) + 1
  IN  /\ phase \in {"batch", "skipping"} /\ j \in DOMAIN response /\ Len(pending) = Len(response)
      /\ dedup' = finalizeResult(dedup, NextCall, PendingOut(j))
      /\ results' = Append(results,
                      [id |-> NextCall.id, out |-> FinalOutcome(dedup, NextCall, PendingOut(j))])
      /\ Idles /\ UNCHANGED <<entries, phase, response, calls, pending, authorizing, gateVars>>

\* The step ends, or none of this changes.
Finishes ==
  /\ phase \in {"batch", "skipping", "interrupted"} /\ phase' \in Ended
  /\ Len(results) = Len(response)
  /\ Idles /\ UNCHANGED <<entries, dedup, response, calls, results, pending, authorizing, gateVars>>
Rests == (Idles \/ Works) /\ UNCHANGED <<entries, dedup>> /\ Still

\* A call is recorded by one of four actions.
LEMMA TakesShape ==
  ASSUME Typed, BatchOnce, NEW call \in CallType,
         \/ materialize(call) \/ prepareToolCall(call) \/ skipCall(call)
         \/ \E answer \in Answers : batchAuthorized(call, answer)
  PROVE  Waits \/ \E out, task : Takes(call, out, task)
<1> USE DEF vars, runnerVars, streamVars, batchVars, logVars, taskVars, gateVars
<1>1. authorizing \in BOOLEAN
  BY DEF Typed, RecordsOK
<1>2. CASE materialize(call)
  <2>1. PICK i \in EntryOf(call) :
          \/ entries[i].st = "deferred" /\ authorizing' = TRUE
             /\ UNCHANGED <<entries, logVars, pending, phase, gateVars>>
          \/ /\ Record(call, IF entries[i].st = "skipped" THEN "skipped" ELSE entries[i].out,
                       entries[i].task)
             /\ phase' \in {phase, "skipping"} /\ entries' = Without(call)
             /\ IF entries[i].st = "skipped" THEN UNCHANGED gateVars ELSE OpenGate(call.id)
             /\ UNCHANGED authorizing
    BY <1>2 DEF materialize, StopBatchIf
  <2>2. /\ phase = "batch" /\ ~authorizing /\ AtCall(call)
        /\ UNCHANGED <<vars, response, taskVars, dedup>>
    BY <1>2 DEF materialize
  <2>3. /\ entries[i].out \in Known /\ entries[i].task \in Nat
        /\ \A k \in EntryOf(call) : k = i
    BY Elements DEF EntryOf, EntryType, Typed, IdsOK
  <2>4. CASE entries[i].st = "deferred" /\ authorizing' = TRUE
             /\ UNCHANGED <<entries, logVars, pending, phase, gateVars>>
    BY <2>2, <2>4 DEF Waits, Idles
  <2>5. ASSUME NEW out, out = (IF entries[i].st = "skipped" THEN "skipped" ELSE entries[i].out),
               Record(call, out, entries[i].task),
               phase' \in {phase, "skipping"}, entries' = Without(call),
               IF entries[i].st = "skipped" THEN UNCHANGED gateVars ELSE OpenGate(call.id),
               UNCHANGED authorizing
        PROVE  Takes(call, out, entries[i].task)
    <3>1. out \in Known
      BY <2>3, <2>5 DEF Known
    <3>2. Opens(call, out) \/ Leaves(call, entries[i].task)
      BY <2>2, <2>3, <2>5 DEF Opens, Leaves, Idles
    <3> QED BY <1>1, <2>2, <2>3, <2>5, <3>1, <3>2 DEF Takes
  <2> QED BY <2>1, <2>4, <2>5
<1>3. CASE prepareToolCall(call)
  <2> DEFINE d == checkSameStep(dedup, call)
             out == PrepareOutcome(d, call)
  <2>1. /\ \/ Record(call, "blocked", 0) /\ UNCHANGED <<dedup, authorizing>>
           \/ out # "runnable" /\ Record(call, out, 0) /\ dedup' = d /\ UNCHANGED authorizing
           \/ out = "runnable" /\ authorizing' = TRUE /\ dedup' = d
              /\ UNCHANGED <<pending, logVars>>
        /\ phase = "batch" /\ ~authorizing /\ AtCall(call) /\ EntryOf(call) = {}
        /\ UNCHANGED <<vars, runnerVars, streamVars, taskVars, phase, gateVars>>
    BY <1>3 DEF prepareToolCall
  <2>2. /\ out \in Known \cup {"runnable"} /\ "blocked" \in Known
        /\ (out = "runnable" => ~IsDuplicate(d, call))
    BY DEF PrepareOutcome, Known
  <2>3. entries' = Without(call)
    BY <2>1 DEF Without
  <2> HIDE DEF d, out
  <2>4. CASE out = "runnable" /\ authorizing' = TRUE /\ dedup' = d
              /\ UNCHANGED <<pending, logVars>>
    BY <2>1, <2>2, <2>4 DEF Waits, Idles, d
  <2>5. ASSUME NEW o \in Known, Record(call, o, 0), UNCHANGED dedup \/ dedup' = d,
               UNCHANGED authorizing
        PROVE  Takes(call, o, 0)
    BY <1>1, <2>1, <2>3, <2>5 DEF Takes, Leaves, Idles, d
  <2> QED BY <2>1, <2>2, <2>4, <2>5
<1>4. CASE skipCall(call)
  <2>1. "skipped" \in Known /\ (authorizing => phase = "batch")
    BY DEF Known, BatchOnce
  <2> QED BY <1>1, <1>4, <2>1 DEF skipCall, Takes, Leaves, Idles
<1>5. ASSUME NEW answer \in Answers, batchAuthorized(call, answer)
      PROVE  \E out, task : Takes(call, out, task)
  <2>1. /\ authorizing /\ authorizing' = FALSE /\ entries' = Without(call)
        /\ phase = "batch" /\ phase' \in {phase, "skipping"} /\ AtCall(call)
        /\ UNCHANGED <<response, dedup>>
        /\ \/ AddTask(call) /\ Record(call, "placeholder", added') /\ OpenGate(call.id)
           \/ answer # "allow" /\ Record(call, answer, 0) /\ UNCHANGED <<vars, taskVars, gateVars>>
    BY <1>5 DEF batchAuthorized, StopBatchIf
  <2>2. CASE AddTask(call) /\ Record(call, "placeholder", added') /\ OpenGate(call.id)
    <3>1. added' \in Nat /\ "placeholder" \in Known
      BY <2>2, AddFacts DEF Typed, Known
    <3> QED BY <2>1, <2>2, <3>1 DEF Takes, Opens
  <2>3. CASE answer # "allow" /\ Record(call, answer, 0) /\ UNCHANGED <<vars, taskVars, gateVars>>
    <3>1. answer \in Known
      BY <2>3 DEF Answers, Known
    <3>2. \A i \in EntryOf(call) : entries[i].st # "started"
      BY <2>1 DEF BatchOnce, BatchCall, AtCall
    <3> QED BY <2>1, <2>3, <3>1, <3>2 DEF Takes, Leaves, Idles
  <2> QED BY <2>1, <2>2, <2>3
<1> QED BY <1>2, <1>3, <1>4, <1>5

\* Every step is one of these.
LEMMA MoveShape ==
  ASSUME Typed, LogOK, BatchOnce, [StepNext]_allVars
  PROVE  \/ NextStep \/ Streams \/ Ends \/ Readies \/ Hooks \/ LeftPrepares \/ Drops \/ Waits
         \/ \E c \in DOMAIN response : \E out, task : Takes(response[c], out, task)
         \/ Finalizes \/ closeInterrupted \/ Finishes \/ Rests
         \/ \E t \in Tasks : Progress(t)
<1> USE DEF vars, runnerVars, streamVars, batchVars, logVars, taskVars, gateVars
<1>1. RunnerOK /\ IInv /\ RecordsOK
  BY DEF Typed
<1>2. ASSUME NEW tail \in Tails, NEW reason \in {"tool_calls", "paused", "filtered"},
             StreamEnd(tail, reason)
      PROVE  Ends
  BY <1>2 DEF StreamEnd, Ends, Idles
<1>3. ASSUME RequestEnds PROVE Ends
  BY <1>3 DEF RequestEnds, Ends, Idles
<1>4. ASSUME prepareOne PROVE Readies
  BY <1>1, <1>4, PrepareShape DEF prepareOne, Readies, Idles, Still
<1>5. ASSUME NEW answer \in Answers, chainAuthorized(answer) PROVE Hooks
  <2>1. \E i, e : HookAnswers(i, e)
    BY <1>1, <1>5, AuthorizedShape
  <2> QED BY <1>5, <2>1 DEF chainAuthorized, Hooks, HookMoves, Still
<1>6. ASSUME LeftoverPrepares PROVE LeftPrepares
  BY <1>6 DEF LeftoverPrepares, LeftPrepares, Idles, Still
<1>7. ASSUME drainOrphan PROVE Drops
  <2>1. PICK i \in Orphans :
          /\ phase \in {"batch", "interrupted"}
          /\ dedup' = IF entries[i].st = "skipped" THEN dedup
                      ELSE finalizeResult(dedup, entries[i].call,
                                          EntryOutcome(entries[i], "discarded"))
          /\ entries' = Without(entries[i].call)
    BY <1>7 DEF drainOrphan, FirstOf
  <2>2. EntryOutcome(entries[i], "discarded") \in Outcomes
    BY EntryOutcomes DEF Orphans
  <2>3. Idles /\ Still
    BY <1>7 DEF drainOrphan, Idles, Still
  <2> QED BY <2>1, <2>2, <2>3 DEF Drops
<1>8. ASSUME NEW c \in DOMAIN response,
             \/ materialize(response[c]) \/ prepareToolCall(response[c]) \/ skipCall(response[c])
             \/ \E answer \in Answers : batchAuthorized(response[c], answer)
      PROVE  Waits \/ \E out, task : Takes(response[c], out, task)
  BY <1>8, Elements, TakesShape
<1>9. ASSUME finalizeNext PROVE Finalizes
  <2>1. Len(results) + 1 <= Len(response)
    BY <1>9 DEF finalizeNext
  <2>2. Len(results) + 1 \in DOMAIN response
    BY <2>1, Elements
  <2> QED BY <1>9, <2>2 DEF finalizeNext, finalizePending, Finalizes, NextCall, PendingOut, Idles
<1>10. ASSUME seal PROVE Finishes
  BY <1>10 DEF seal, Finishes, Idles, Ended
<1>11. ASSUME NEW t \in Tasks, ToolSettles(t) \/ TaskFinishes(t) PROVE Rests
  BY <1>11 DEF ToolSettles, TaskFinishes, Rests, Works, Still
<1>12. ASSUME AttemptFails \/ Abort \/ Over \/ UNCHANGED allVars PROVE Rests
  BY <1>12 DEF AttemptFails, Abort, Over, allVars, Rests, Idles, Still
<1> QED
  BY <1>2, <1>3, <1>4, <1>5, <1>6, <1>7, <1>8, <1>9, <1>10, <1>11, <1>12
  DEF StepNext, Stream, Chain, Batch, Streams

\* Map.delete keeps the entries of other ids.
LEMMA WithoutKeeps ==
  ASSUME RunnerOK, IdsOK, NEW call, NEW i \in DOMAIN entries, entries[i].call.id # call.id
  PROVE  \E j \in DOMAIN Without(call) : Without(call)[j] = entries[i]
<1>1. /\ entries \in Seq(EntryType) /\ DOMAIN entries = 1..Len(entries)
      /\ \A m, n \in DOMAIN entries : entries[m].call.id = entries[n].call.id => m = n
  BY LenProperties DEF RunnerOK, IdsOK
<1>2. CASE EntryOf(call) = {}
  BY <1>2 DEF Without
<1>3. CASE EntryOf(call) # {}
  <2>1. PICK k \in EntryOf(call) : k = CHOOSE m \in EntryOf(call) : TRUE
    BY <1>3
  <2>2. k \in DOMAIN entries /\ entries[k].call.id = call.id
    BY <2>1 DEF EntryOf
  <2>3. Without(call) = RemoveAt(entries, k)
    BY <1>3, <2>1 DEF Without
  <2>4. IsInjective(entries)
    BY <1>1 DEF IsInjective
  <2> DEFINE r == RemoveAt(entries, k)
  <2>5. r \in Seq(EntryType) /\ ToSet(r) = ToSet(entries) \ {entries[k]}
    BY <1>1, <2>2, <2>4, RemoveAtMembers
  <2> HIDE DEF r
  <2>6. /\ \A x : x \in ToSet(r) <=> \E m \in 1..Len(r) : r[m] = x
        /\ \A x : x \in ToSet(entries) <=> \E m \in 1..Len(entries) : entries[m] = x
    BY <1>1, <2>5, MemberFacts
  <2>7. entries[i] \in ToSet(r)
    BY <1>1, <2>2, <2>5, <2>6
  <2>8. DOMAIN r = 1..Len(r)
    BY <2>5, LenProperties
  <2> QED BY <2>3, <2>6, <2>7, <2>8 DEF r
<1> QED BY <1>2, <1>3

\* The events of a step that closes a call of an interrupted response.
LEMMA ClosesFacts ==
  ASSUME Typed, LogOK, closeInterrupted
  PROVE  /\ Len(calls) \in Nat /\ Len(results) \in Nat
         /\ DOMAIN calls = 1..Len(calls) /\ DOMAIN results = 1..Len(results)
         /\ Closes \/ Announces =>
              /\ DOMAIN calls' = 1..(Len(calls) + 1) /\ calls'[Len(calls) + 1] = NextCall.id
              /\ \A j \in DOMAIN calls : calls'[j] = calls[j]
         /\ Closes \/ (\E i : Answer(i)) =>
              /\ Len(results') = Len(results) + 1 /\ DOMAIN results' = 1..(Len(results) + 1)
              /\ \A j \in DOMAIN results : results'[j] = results[j]
         /\ Closes => results'[Len(results) + 1].out = "unexecuted"
         /\ \A i : Answer(i) => calls[Len(results) + 1] = NextCall.id
                              /\ Len(results) + 1 \in DOMAIN calls
         /\ (Closes \/ \E i : Answer(i)) => results'[Len(results) + 1].id = NextCall.id
<1>1. /\ Len(results) + 1 \in DOMAIN response /\ NextCall \in CallType
      /\ NextCall = response[Len(results) + 1]
  BY CloseShape DEF NextCall
<1>2. /\ Len(calls) \in Nat /\ Len(results) \in Nat
      /\ DOMAIN calls = 1..Len(calls) /\ DOMAIN results = 1..Len(results)
  BY Elements
<1>3. NextCall.id \in IdType /\ calls \in Seq(IdType)
      /\ results \in Seq([id : IdType, out : DeferredStates])
  BY <1>1 DEF CallType, Typed, RecordsOK
<1>4. calls' \in Seq(IdType) /\ results' \in Seq([id : IdType, out : DeferredStates])
  BY TypesStep DEF RecordsOK, StepNext, Batch
<1>5. PICK x \in IdType : x = NextCall.id
  BY <1>3
<1>6. Closes \/ Announces =>
        /\ DOMAIN calls' = 1..(Len(calls) + 1) /\ calls'[Len(calls) + 1] = NextCall.id
        /\ \A j \in DOMAIN calls : calls'[j] = calls[j]
  <2> SUFFICES ASSUME calls' = Append(calls, x)
               PROVE  /\ DOMAIN calls' = 1..(Len(calls) + 1) /\ calls'[Len(calls) + 1] = NextCall.id
                      /\ \A j \in DOMAIN calls : calls'[j] = calls[j]
    BY <1>5 DEF Closes, Announces
  <2>1. Len(calls') = Len(calls) + 1 /\ calls'[Len(calls) + 1] = x
        /\ \A i \in 1..Len(calls) : calls'[i] = calls[i]
    BY <1>3, <1>5, AppendProperties
  <2> QED BY <1>2, <1>4, <1>5, <2>1, LenProperties
<1>7. ASSUME NEW o, results' = Append(results, [id |-> NextCall.id, out |-> o])
      PROVE  /\ Len(results') = Len(results) + 1 /\ DOMAIN results' = 1..(Len(results) + 1)
             /\ \A j \in DOMAIN results : results'[j] = results[j]
             /\ results'[Len(results) + 1] = [id |-> NextCall.id, out |-> o]
  BY <1>2, <1>3, <1>4, <1>7, LenProperties
<1>8. Closes => results' = Append(results, [id |-> NextCall.id, out |-> "unexecuted"])
  BY DEF Closes
<1>9. \A i : Answer(i) => \E o : results' = Append(results, [id |-> NextCall.id, out |-> o])
  BY DEF Answer
<1>11. Closes => results'[Len(results) + 1] = [id |-> NextCall.id, out |-> "unexecuted"]
  BY <1>7, <1>8
<1>12. \A i : Answer(i) => \E o : results'[Len(results) + 1] = [id |-> NextCall.id, out |-> o]
  BY <1>7, <1>9
<1>13. Closes \/ (\E i : Answer(i)) =>
         /\ Len(results') = Len(results) + 1 /\ DOMAIN results' = 1..(Len(results) + 1)
         /\ \A j \in DOMAIN results : results'[j] = results[j]
  BY <1>7, <1>8, <1>9
<1>14. Closes \/ (\E i : Answer(i)) => results'[Len(results) + 1].id = NextCall.id
  <2>1. ASSUME Closes PROVE results'[Len(results) + 1].id = NextCall.id
    BY <1>11, <2>1
  <2>2. ASSUME NEW i, Answer(i) PROVE results'[Len(results) + 1].id = NextCall.id
    <3>1. PICK o : results'[Len(results) + 1] = [id |-> NextCall.id, out |-> o]
      BY <1>12, <2>2
    <3> QED BY <3>1
  <2> QED BY <2>1, <2>2, Zenon
<1>10. \A i : Answer(i) => calls[Len(results) + 1] = NextCall.id /\ Len(results) + 1 \in DOMAIN calls
  <2>1. \A m, n \in Nat : m = n + 1 => n + 1 \in 1..m
    OBVIOUS
  <2>2. \A j \in DOMAIN calls : calls[j] = response[j].id
    BY DEF LogOK
  <2> QED BY <1>1, <1>2, <2>1, <2>2 DEF Answer
<1> QED BY <1>2, <1>6, <1>10, <1>11, <1>13, <1>14

\* An announced call has no entry but in an interrupted step.
LEMMA AnnouncedStep ==
  ASSUME Typed, LogOK, BatchOnce, AnnouncedOK, [StepNext]_allVars
  PROVE  AnnouncedOK'
<1>1. RunnerOK /\ IdsOK
  BY DEF Typed
<1>2. /\ DOMAIN calls = 1..Len(calls) /\ Len(calls) \in Nat /\ Len(results) \in Nat
      /\ Len(results) <= Len(calls) /\ Len(calls) <= Len(response) /\ Len(response) \in Nat
  BY Elements DEF LogOK
<1>3. phase = "streaming" => DOMAIN calls = {}
  <2>1. phase = "streaming" => Len(calls) = 0
    BY <1>2, EmptySeq DEF LogOK
  <2> QED BY <1>2, <2>1
<1>4. CASE NextStep
  BY <1>4, NextStepFacts DEF AnnouncedOK
<1>5. CASE Streams \/ Ends
  <2>1. phase = "streaming" /\ calls' = calls
    BY <1>5 DEF Streams, StreamCall, Ends, logVars
  <2> QED BY <1>3, <2>1 DEF AnnouncedOK
<1>6. CASE Readies \/ Hooks
  <2>1. PICK i, e : Becomes(i, e) /\ entries[i].st \in {"queued", "authorizing"} /\ Still
    BY <1>6 DEF Readies, Hooks, HookMoves, Prepares, HookAnswers
  <2>2. ~Ready(entries[i])
    BY <2>1 DEF Ready
  <2>3. /\ DOMAIN entries' = DOMAIN entries
        /\ \A j \in DOMAIN entries : entries'[j].call = entries[j].call
                                     /\ (j # i => entries'[j] = entries[j])
    BY <2>1 DEF Becomes
  <2> QED BY <2>1, <2>2, <2>3 DEF AnnouncedOK, Still, Ready
<1>7. CASE LeftPrepares \/ Rests \/ Waits \/ \E t \in Tasks : Progress(t)
  <2>1. UNCHANGED <<entries, calls, results, phase>>
    BY <1>7 DEF LeftPrepares, Rests, Waits, Progress, Still, runnerVars, logVars
  <2> QED BY <2>1 DEF AnnouncedOK, Ready
<1>8. CASE Drops
  <2>1. PICK call : entries' = Without(call) /\ Still
    BY <1>8 DEF Drops
  <2>2. \A k \in DOMAIN entries' : \E n \in DOMAIN entries : entries'[k] = entries[n]
    BY <1>1, <2>1, WithoutFacts
  <2>3. UNCHANGED <<phase, calls, results>>
    BY <2>1 DEF Still
  <2> QED BY <2>2, <2>3 DEF AnnouncedOK, Ready
<1>9. ASSUME NEW c \in DOMAIN response, NEW out, NEW task, Takes(response[c], out, task)
      PROVE  AnnouncedOK'
  <2> DEFINE call == response[c]
  <2>1. /\ phase \in {"batch", "skipping"} /\ entries' = Without(call)
        /\ AtCall(call) /\ Record(call, out, task) /\ out \in Known /\ task \in Nat
    BY <1>9 DEF Takes
  <2>2. call \in CallType
    BY Elements
  <2> HIDE DEF call
  <2>3. \A j \in DOMAIN calls' : (j \in DOMAIN calls /\ calls'[j] = calls[j]) \/ calls'[j] = call.id
    BY <2>1, <2>2, Recorded
  <2>4. \A k \in DOMAIN entries' : \E i \in DOMAIN entries :
          entries'[k] = entries[i] /\ entries[i].call.id # call.id
    BY <1>1, <2>1, WithoutFacts
  <2> QED BY <2>1, <2>3, <2>4 DEF AnnouncedOK
<1>10. CASE Finalizes
  <2>1. UNCHANGED <<entries, calls>> /\ phase \in {"batch", "skipping"}
    BY <1>10 DEF Finalizes
  <2> QED BY <2>1 DEF AnnouncedOK
<1>11. CASE closeInterrupted
  <2>1. /\ phase = "interrupted" /\ phase' = phase
        /\ \A i \in EntryOf(NextCall) : Ready(entries[i])
        /\ Closes \/ Announces \/ \E i : Answer(i)
    BY <1>11, CloseShape
  <2>2. \A m, n \in Nat : m = n => \A j \in 1..m : ~(j > n)
    OBVIOUS
  <2>3. CASE Closes
    <3>1. Len(calls) = Len(results) /\ entries' = Without(NextCall)
      BY <2>3 DEF Closes
    <3>2. \A j \in DOMAIN calls' : (j \in DOMAIN calls /\ calls'[j] = calls[j]) \/ calls'[j] = NextCall.id
      <4>1. \A m \in Nat : \A j \in 1..(m + 1) : j \in 1..m \/ j = m + 1
        OBVIOUS
      <4> QED BY <1>2, <1>11, <2>3, <4>1, ClosesFacts
    <3>3. \A k \in DOMAIN entries' : \E i \in DOMAIN entries :
            entries'[k] = entries[i] /\ entries[i].call.id # NextCall.id
      BY <1>1, <3>1, WithoutFacts
    <3>4. \A j \in DOMAIN calls : ~(j > Len(results))
      BY <1>2, <2>2, <3>1
    <3> QED BY <3>2, <3>3, <3>4 DEF AnnouncedOK
  <2>4. CASE Announces
    <3>1. Len(calls) = Len(results) /\ UNCHANGED <<results, entries>>
      BY <2>4 DEF Announces
    <3>2. /\ \A j \in DOMAIN calls : ~(j > Len(results))
          /\ Len(calls) + 1 > Len(results)
      BY <1>2, <2>2, <3>1
    <3>3. \A j \in DOMAIN calls' : (j \in DOMAIN calls /\ calls'[j] = calls[j])
                                   \/ (j = Len(calls) + 1 /\ calls'[j] = NextCall.id)
      <4>1. \A m \in Nat : \A j \in 1..(m + 1) : j \in 1..m \/ j = m + 1
        OBVIOUS
      <4> QED BY <1>2, <1>11, <2>4, <4>1, ClosesFacts
    <3> QED BY <2>1, <3>1, <3>2, <3>3 DEF AnnouncedOK, EntryOf, Ready
  <2>5. ASSUME NEW i, Answer(i) PROVE AnnouncedOK'
    <3>1. /\ Len(calls) = Len(results) + 1 /\ UNCHANGED calls /\ entries' = Without(NextCall)
      BY <2>5 DEF Answer
    <3>2. calls[Len(results) + 1] = NextCall.id
      BY <1>11, <2>5, ClosesFacts
    <3>3. \A j \in DOMAIN calls : j > Len(results) => j = Len(results) + 1
      <4>1. \A m, n \in Nat : m = n + 1 => \A j \in 1..m : j > n => j = n + 1
        OBVIOUS
      <4> QED BY <1>2, <3>1, <4>1
    <3>4. \A k \in DOMAIN entries' : \E n \in DOMAIN entries :
            entries'[k] = entries[n] /\ entries[n].call.id # NextCall.id
      BY <1>1, <3>1, WithoutFacts
    <3> QED BY <3>1, <3>2, <3>3, <3>4 DEF AnnouncedOK
  <2> QED BY <2>1, <2>3, <2>4, <2>5
<1>12. CASE Finishes
  <2>1. UNCHANGED <<entries, calls, results>> /\ Len(results) = Len(response)
    BY <1>12 DEF Finishes
  <2>2. \A l, m, n \in Nat : l <= m /\ m <= n /\ l = n => \A j \in 1..m : ~(j > l)
    OBVIOUS
  <2>3. \A j \in DOMAIN calls : ~(j > Len(results))
    BY <1>2, <2>1, <2>2
  <2> QED BY <2>1, <2>3 DEF AnnouncedOK
<1> QED BY <1>4, <1>5, <1>6, <1>7, <1>8, <1>9, <1>10, <1>11, <1>12, MoveShape

\* The task of a step that goes on belongs to an old entry or to the batch.
LEMMA HomeStep ==
  ASSUME Typed, LogOK, BatchOnce, AnnouncedOK, HomeOK, [StepNext]_allVars
  PROVE  HomeOK'
<1> DEFINE At(id) == \/ \E k \in DOMAIN entries : entries[k].call.id = id
                     \/ \E j \in DOMAIN calls : calls[j] = id
                     \/ Drained(id)
           Housed(id) == \/ \E k \in DOMAIN entries' : entries'[k].call.id = id
                         \/ \E j \in DOMAIN calls' : calls'[j] = id
                         \/ /\ phase' # "streaming"
                            /\ \A i \in DOMAIN response' : response'[i].id # id
           Only(id) == \A k \in DOMAIN entries' :
                         entries'[k].call.id = id => entries'[k].st = "started"
<1>1. RunnerOK /\ IdsOK /\ IInv /\ RecordsOK
  BY DEF Typed
<1>2. \A t \in Tasks : At(taskCall[t].id) /\ \A k \in DOMAIN entries :
        entries[k].call.id = taskCall[t].id => entries[k].st = "started"
  BY DEF HomeOK
<1>3. phase = "streaming" => DOMAIN calls = {}
  <2>1. phase = "streaming" => Len(calls) = 0
    BY Elements, EmptySeq DEF LogOK
  <2> QED BY <2>1, Elements
<1>4. SUFFICES ASSUME NEW t \in Tasks'
               PROVE  Housed(taskCall'[t].id) /\ Only(taskCall'[t].id)
  BY DEF HomeOK, Drained
<1>5. ASSUME Idles \/ Works PROVE t \in Tasks /\ taskCall'[t] = taskCall[t]
  BY <1>1, <1>5, WorkFacts DEF RecordsOK, TasksGrow
<1>6. CASE NextStep
  BY <1>6, NextStepFacts DEF Tasks
<1>7. CASE Streams
  <2>1. PICK key \in Key, n \in ProviderIds : StreamCall(key, n)
    BY <1>7 DEF Streams
  <2>2. PICK call : call = [id |-> <<n, 1>>, key |-> key]
    OBVIOUS
  <2>3. call \in CallType /\ addReady(call) /\ phase = "streaming"
    BY <2>1, <2>2, ProviderIdsTyped DEF StreamCall, CallType, IdType
  <2>4. t \in Tasks /\ taskCall'[t] = taskCall[t]
    BY <1>5, <2>1 DEF StreamCall, Idles, taskVars
  <2>5. PICK k \in DOMAIN entries : entries[k].call.id = taskCall[t].id /\ entries[k].st = "started"
    BY <1>2, <1>3, <2>3, <2>4 DEF Drained
  <2>6. PICK m \in Nat : m = Len(entries) /\ DOMAIN entries = 1..m
    BY Elements
  <2>7. Adds(call)
    BY <2>3, AddReadyShape
  <2>8. \A j \in 1..(m + 1) : j \in 1..m \/ j = m + 1
    OBVIOUS
  <2>9. \A j \in 1..m : j \in 1..(m + 1)
    OBVIOUS
  <2>10. CASE UNCHANGED entries
    BY <1>2, <2>4, <2>5, <2>10
  <2>11. ASSUME EntryOf(call) = {}, NEW e \in EntryType, e.call = call,
                DOMAIN entries' = 1..(m + 1), \A i \in 1..m : entries'[i] = entries[i],
                entries'[m + 1] = e
         PROVE  Housed(taskCall'[t].id) /\ Only(taskCall'[t].id)
    <3>1. call.id # taskCall[t].id
      BY <2>5, <2>11 DEF EntryOf
    <3> QED BY <1>2, <2>4, <2>5, <2>6, <2>8, <2>9, <2>11, <3>1
  <2> QED BY <2>6, <2>7, <2>10, <2>11 DEF Adds
<1>8. CASE Ends
  <2>1. /\ phase = "streaming" /\ UNCHANGED <<entries, calls>>
        /\ t \in Tasks /\ taskCall'[t] = taskCall[t]
    BY <1>5, <1>8 DEF Ends
  <2> QED BY <1>2, <1>3, <2>1 DEF Drained
<1>9. ASSUME NEW i, NEW e, Becomes(i, e), entries[i].st # "started", Still,
             t \in Tasks, taskCall'[t] = taskCall[t]
      PROVE  Housed(taskCall'[t].id) /\ Only(taskCall'[t].id)
  <2>1. /\ DOMAIN entries' = DOMAIN entries /\ i \in DOMAIN entries
        /\ \A j \in DOMAIN entries : entries'[j].call = entries[j].call
                                     /\ (j # i => entries'[j] = entries[j])
    BY <1>9 DEF Becomes
  <2>2. Housed(taskCall[t].id)
    BY <1>2, <1>9, <2>1 DEF Drained, Still
  <2>3. entries[i].call.id # taskCall[t].id
    BY <1>2, <1>9, <2>1
  <2> QED BY <1>2, <1>9, <2>1, <2>2, <2>3
<1>10. CASE Readies
  <2>1. PICK i, e : Prepares(i, e) /\ Idles /\ Still
    BY <1>10 DEF Readies
  <2> QED BY <1>5, <1>9, <2>1 DEF Prepares
<1>11. CASE Hooks
  <2>1. PICK i, e : HookAnswers(i, e) /\ Still
    BY <1>11 DEF Hooks, HookMoves
  <2>2. Becomes(i, e) /\ entries[i].st = "authorizing"
    BY <2>1 DEF HookAnswers
  <2>3. CASE Idles
    BY <1>5, <1>9, <2>1, <2>2, <2>3
  <2>4. CASE AddTask(e.call) /\ e.st = "started"
    <3>1. e.call \in CallType
      BY <2>2 DEF Becomes, EntryType
    <3>2. TasksGrow /\ Tasks' = Tasks \cup {added'} /\ taskCall'[added'] = e.call
      BY <1>1, <2>4, <3>1, AddFacts
    <3>3. CASE t \in Tasks
      BY <1>9, <2>1, <2>2, <3>2, <3>3 DEF TasksGrow
    <3>4. CASE t = added'
      <4>1. /\ DOMAIN entries' = DOMAIN entries /\ i \in DOMAIN entries /\ entries'[i] = e
            /\ \A j \in DOMAIN entries : entries'[j].call = entries[j].call
        BY <2>2 DEF Becomes
      <4>2. \A j \in DOMAIN entries : entries[j].call.id = entries[i].call.id => j = i
        BY <1>1, <4>1 DEF IdsOK
      <4> QED BY <2>4, <3>2, <3>4, <4>1, <4>2
    <3> QED BY <3>2, <3>3, <3>4
  <2> QED BY <2>1, <2>3, <2>4 DEF HookAnswers
<1>12. CASE LeftPrepares \/ Rests \/ Waits \/ Finalizes \/ Finishes \/ \E u \in Tasks : Progress(u)
  <2>1. /\ UNCHANGED <<entries, calls, response>>
        /\ (phase # "streaming" => phase' # "streaming")
        /\ Idles \/ Works
    BY <1>12 DEF LeftPrepares, Rests, Waits, Finalizes, Finishes, Progress, Still, runnerVars,
                 logVars, streamVars, Ended, Idles
  <2> QED BY <1>2, <1>5, <2>1 DEF Drained
<1>13. ASSUME NEW call, entries' = Without(call), phase # "streaming", phase' # "streaming",
              UNCHANGED response, t \in Tasks, taskCall'[t] = taskCall[t],
              \A j \in DOMAIN calls : j \in DOMAIN calls' /\ calls'[j] = calls[j],
              \/ \A i \in DOMAIN response : response[i].id # call.id
              \/ \E j \in DOMAIN calls' : calls'[j] = call.id
       PROVE  Housed(taskCall'[t].id) /\ Only(taskCall'[t].id)
  <2>1. Only(taskCall'[t].id)
    <3>1. \A j \in DOMAIN entries' : \E i \in DOMAIN entries : entries'[j] = entries[i]
      BY <1>1, <1>13, WithoutFacts
    <3> QED BY <1>2, <1>13, <3>1
  <2>2. Housed(taskCall[t].id)
    <3>1. CASE \E k \in DOMAIN entries : entries[k].call.id = taskCall[t].id
      <4>1. PICK k \in DOMAIN entries : entries[k].call.id = taskCall[t].id
        BY <3>1
      <4>2. entries[k].call.id # call.id => \E j \in DOMAIN entries' : entries'[j] = entries[k]
        BY <1>1, <1>13, WithoutKeeps
      <4> QED BY <1>13, <4>1, <4>2
    <3>2. CASE \E j \in DOMAIN calls : calls[j] = taskCall[t].id
      BY <1>13, <3>2
    <3>3. CASE Drained(taskCall[t].id)
      BY <1>13, <3>3 DEF Drained
    <3> QED BY <1>2, <1>13, <3>1, <3>2, <3>3
  <2> QED BY <1>13, <2>1, <2>2
<1>14. CASE Drops
  <2>1. PICK i \in Orphans : /\ phase \in {"batch", "interrupted"}
                             /\ entries' = Without(entries[i].call) /\ Idles /\ Still
    BY <1>14 DEF Drops
  <2>2. \A k \in DOMAIN response : response[k].id # entries[i].call.id
    BY DEF Orphans, IdsOf
  <2>3. UNCHANGED <<phase, response, calls>>
    BY <2>1 DEF Still
  <2> QED BY <1>5, <1>13, <2>1, <2>2, <2>3
<1>15. ASSUME NEW c \in DOMAIN response, NEW out, NEW task, Takes(response[c], out, task)
       PROVE  Housed(taskCall'[t].id) /\ Only(taskCall'[t].id)
  <2>1. PICK call \in CallType : call = response[c]
    BY Elements
  <2>2. /\ phase \in {"batch", "skipping"} /\ phase' \in {phase, "skipping"}
        /\ entries' = Without(call) /\ UNCHANGED response
        /\ AtCall(call) /\ Record(call, out, task) /\ out \in Known /\ task \in Nat
        /\ Idles \/ AddTask(call)
    BY <1>15, <2>1 DEF Takes, Opens, Leaves
  <2>3. /\ \A j \in DOMAIN calls : j \in DOMAIN calls' /\ calls'[j] = calls[j]
        /\ \E j \in DOMAIN calls' : calls'[j] = call.id
    BY <2>2, Recorded
  <2>4. CASE t \in Tasks /\ taskCall'[t] = taskCall[t]
    BY <1>13, <2>2, <2>3, <2>4
  <2>5. CASE taskCall'[t] = call
    <3>0. entries' = Without(call)
      BY <2>2
    <3>1. \A j \in DOMAIN entries' : \E i \in DOMAIN entries :
            entries'[j] = entries[i] /\ entries[i].call.id # call.id
      BY <1>1, <3>0, WithoutFacts
    <3>2. \A j \in DOMAIN entries' : entries'[j].call.id # call.id
      BY <3>1
    <3> QED BY <2>3, <2>5, <3>2
  <2>6. CASE AddTask(call)
    <3>1. TasksGrow /\ Tasks' = Tasks \cup {added'} /\ taskCall'[added'] = call
      BY <1>1, <2>6, AddFacts
    <3> QED BY <2>4, <2>5, <3>1 DEF TasksGrow
  <2> QED BY <1>5, <2>2, <2>4, <2>6
<1>16. CASE closeInterrupted
  <2>1. /\ phase = "interrupted" /\ UNCHANGED <<phase, response>> /\ Idles
        /\ Closes \/ Announces \/ \E i : Answer(i)
    BY <1>16, CloseShape
  <2>2. t \in Tasks /\ taskCall'[t] = taskCall[t]
    BY <1>5, <2>1
  <2>3. \A m \in Nat : \A j \in 1..m : j \in 1..(m + 1)
    OBVIOUS
  <2>4. \A m \in Nat : m + 1 \in 1..(m + 1)
    OBVIOUS
  <2>5. Closes \/ Announces => /\ \A j \in DOMAIN calls : j \in DOMAIN calls' /\ calls'[j] = calls[j]
                               /\ \E j \in DOMAIN calls' : calls'[j] = NextCall.id
    BY <1>16, <2>3, <2>4, ClosesFacts
  <2>6. CASE Closes
    <3>1. entries' = Without(NextCall)
      BY <2>6 DEF Closes
    <3> QED BY <1>13, <2>1, <2>2, <2>5, <2>6, <3>1
  <2>7. CASE Announces
    <3>1. UNCHANGED entries
      BY <2>7 DEF Announces
    <3> QED BY <1>2, <2>1, <2>2, <2>5, <2>7, <3>1 DEF Drained
  <2>8. ASSUME NEW i, Answer(i) PROVE Housed(taskCall'[t].id) /\ Only(taskCall'[t].id)
    <3>1. UNCHANGED calls /\ entries' = Without(NextCall)
      BY <2>8 DEF Answer
    <3>2. \E j \in DOMAIN calls : calls[j] = NextCall.id
      BY <1>16, <2>8, ClosesFacts
    <3> QED BY <1>13, <2>1, <2>2, <3>1, <3>2
  <2> QED BY <2>1, <2>6, <2>7, <2>8
<1> QED
  BY <1>6, <1>7, <1>8, <1>10, <1>11, <1>12, <1>14, <1>15, <1>16, MoveShape

---------------------------------------------------------------------------
(* What the deduplicator holds *)

\* What is held and what is done after the step.
Held(id) == HeldIn(dedup', id)
DoneWith(id) ==
  \/ \E j \in DOMAIN results' : results'[j].id = id
  \/ phase' # "streaming" /\ \A i \in DOMAIN response' : response'[i].id # id

\* The three parts of HeldOK after a step.
LEMMA HeldPrime ==
  ASSUME \A k \in DOMAIN entries' : Waiting(entries'[k]) => Held(entries'[k].call.id),
         authorizing' => Held(response'[Len(pending') + 1].id),
         \A t \in Tasks' : DoneWith(taskCall'[t].id) \/ Held(taskCall'[t].id)
  PROVE  HeldOK'
BY DEF HeldOK, Held, DoneWith, HeldIn, BatchCall, Answered, Drained, Waiting

\* A step that changes what is known of one id leaves the others held.
LEMMA HeldKept ==
  ASSUME HeldOK, NEW x, \A id : id # x => (Held(id) <=> HeldIn(dedup, id)),
         \A j \in DOMAIN results : j \in DOMAIN results' /\ results'[j] = results[j],
         phase # "streaming" => phase' # "streaming" /\ UNCHANGED response
  PROVE  /\ \A k \in DOMAIN entries :
              Waiting(entries[k]) /\ entries[k].call.id # x => Held(entries[k].call.id)
         /\ \A t \in Tasks : taskCall[t].id # x => DoneWith(taskCall[t].id) \/ Held(taskCall[t].id)
<1>1. \A k \in DOMAIN entries :
              Waiting(entries[k]) /\ entries[k].call.id # x => Held(entries[k].call.id)
  BY DEF HeldOK
<1>2. ASSUME NEW t \in Tasks, taskCall[t].id # x
      PROVE  DoneWith(taskCall[t].id) \/ Held(taskCall[t].id)
  <2>1. CASE Answered(taskCall[t].id)
    BY <2>1 DEF Answered, DoneWith
  <2>2. CASE Drained(taskCall[t].id)
    BY <2>2 DEF Drained, DoneWith
  <2>3. CASE HeldIn(dedup, taskCall[t].id)
    BY <1>2, <2>3
  <2> QED BY <2>1, <2>2, <2>3 DEF HeldOK
<1> QED BY <1>1, <1>2

\* Until its call has a result, the deduplicator holds who may execute it.
LEMMA HeldStep ==
  ASSUME Typed, LogOK, BatchOnce, LeftoverOK, AnnouncedOK, HomeOK, HeldOK, [StepNext]_allVars
  PROVE  HeldOK'
<1>1. /\ RunnerOK /\ IdsOK /\ IInv /\ RecordsOK /\ IsDedup(dedup)
      /\ DOMAIN results = 1..Len(results) /\ Len(results) \in Nat
  BY Elements DEF Typed, RunnerOK
<1>2. authorizing => Len(pending) + 1 \in DOMAIN response /\ Orphans = {} /\ phase = "batch"
                     /\ \A i \in EntryOf(BatchCall) : entries[i].st = "deferred"
  <2>1. \A m, n \in Nat : m < n => m + 1 \in 1..n
    OBVIOUS
  <2> QED BY <2>1, Elements DEF BatchOnce
<1>3. ASSUME Idles \/ Works PROVE Tasks' = Tasks /\ \A t \in Tasks : taskCall'[t] = taskCall[t]
  BY <1>1, <1>3, WorkFacts DEF RecordsOK, TasksGrow
<1>4. \A t \in Tasks : /\ \A k \in DOMAIN entries :
                            entries[k].call.id = taskCall[t].id => entries[k].st = "started"
                       /\ \/ \E k \in DOMAIN entries : entries[k].call.id = taskCall[t].id
                          \/ \E j \in DOMAIN calls : calls[j] = taskCall[t].id
                          \/ Drained(taskCall[t].id)
  BY DEF HomeOK
<1>5. /\ \A k \in DOMAIN entries : Waiting(entries[k]) => HeldIn(dedup, entries[k].call.id)
      /\ authorizing => HeldIn(dedup, BatchCall.id)
  BY DEF HeldOK
<1>6. CASE NextStep
  <2>1. DOMAIN entries' = {} /\ authorizing' = FALSE /\ Tasks' = {}
    BY <1>6, NextStepFacts DEF Tasks
  <2> QED BY <2>1, HeldPrime
<1>7. CASE Streams
  <2>1. PICK key \in Key, n \in ProviderIds : StreamCall(key, n)
    BY <1>7 DEF Streams
  <2>2. PICK call : call = [id |-> <<n, 1>>, key |-> key]
    OBVIOUS
  <2>3. /\ call \in CallType /\ addReady(call) /\ phase = "streaming"
        /\ UNCHANGED <<dedup, results, response, phase, pending, authorizing>> /\ Idles
    BY <2>1, <2>2, ProviderIdsTyped
    DEF StreamCall, CallType, IdType, batchVars, logVars, Idles, taskVars
  <2>4. PICK m \in Nat : m = Len(entries) /\ DOMAIN entries = 1..m
    BY Elements
  <2>5. Adds(call)
    BY <2>3, AddReadyShape
  <2>6. \A j \in 1..(m + 1) : j \in 1..m \/ j = m + 1
    OBVIOUS
  <2>7. \A k \in DOMAIN entries' : (k \in DOMAIN entries /\ entries'[k] = entries[k])
                                   \/ entries'[k].st \in {"queued", "skipped"}
    BY <2>4, <2>5, <2>6 DEF Adds
  <2>8. \A k \in DOMAIN entries' : Waiting(entries'[k]) => Held(entries'[k].call.id)
    BY <1>5, <2>3, <2>7 DEF Waiting, Held
  <2> QED BY <1>2, <1>3, <2>3, <2>8, HeldPrime DEF HeldOK, Held, Answered, Drained, DoneWith
<1>8. CASE Ends
  <2>1. /\ phase = "streaming" /\ UNCHANGED <<entries, dedup, results, calls, authorizing>>
        /\ Idles
    BY <1>8 DEF Ends
  <2>2. \A k \in DOMAIN entries' : Waiting(entries'[k]) => Held(entries'[k].call.id)
    BY <1>5, <2>1 DEF Held
  <2>3. \A t \in Tasks : DoneWith(taskCall[t].id) \/ Held(taskCall[t].id)
    BY <2>1 DEF HeldOK, Held, Answered, Drained, DoneWith
  <2> QED BY <1>2, <1>3, <2>1, <2>2, <2>3, HeldPrime
<1>9. \* The deduplicator learns something about one id, of an entry or of the old chain.
      ASSUME NEW x, \A id : id # x => (Held(id) <=> HeldIn(dedup, id)),
             UNCHANGED <<phase, response, results, pending, authorizing>>,
             authorizing => BatchCall.id # x,
             \A k \in DOMAIN entries' : Waiting(entries'[k]) =>
               \/ Held(entries'[k].call.id)
               \/ \E i \in DOMAIN entries : entries'[k] = entries[i] /\ entries[i].call.id # x,
             \A t \in Tasks : taskCall[t].id = x => Drained(x),
             \A t \in Tasks' : \/ t \in Tasks /\ taskCall'[t] = taskCall[t]
                               \/ Held(taskCall'[t].id)
      PROVE  HeldOK'
  <2>1. /\ \A k \in DOMAIN entries :
             Waiting(entries[k]) /\ entries[k].call.id # x => Held(entries[k].call.id)
        /\ \A t \in Tasks : taskCall[t].id # x =>
             DoneWith(taskCall[t].id) \/ Held(taskCall[t].id)
    BY <1>9, HeldKept
  <2>2. \A t \in Tasks : taskCall[t].id = x => DoneWith(taskCall[t].id)
    BY <1>9 DEF Drained, DoneWith
  <2>3. authorizing' => Held(response'[Len(pending') + 1].id)
    BY <1>5, <1>9 DEF BatchCall
  <2>4. \A k \in DOMAIN entries' : Waiting(entries'[k]) => Held(entries'[k].call.id)
    BY <1>9, <2>1
  <2> QED BY <1>9, <2>1, <2>2, <2>3, <2>4, HeldPrime
<1>10. CASE Readies
  <2>1. PICK i, e : Prepares(i, e) /\ Idles /\ Still
    BY <1>10 DEF Readies
  <2>2. /\ i \in DOMAIN entries /\ entries[i].st = "queued" /\ e.call = entries[i].call
        /\ \A j \in DOMAIN entries' : j \in DOMAIN entries
                                      /\ entries'[j] = IF j = i THEN e ELSE entries[j]
        /\ dedup' \in {dedup, checkSameStep(dedup, e.call)}
        /\ e.st \in {"skipped", "settled", "authorizing", "deferred"}
        /\ e.st \in {"authorizing", "deferred"} =>
             dedup' = checkSameStep(dedup, e.call) /\ ~IsDuplicate(dedup', e.call)
    BY <2>1 DEF Prepares, Becomes
  <2>3. \A id : id # e.call.id => (Held(id) <=> HeldIn(dedup, id))
    BY <1>1, <2>2, CheckHeld DEF Held
  <2>4. Waiting(e) => Held(e.call.id)
    BY <1>1, <2>2, CheckHeld DEF Held, Waiting
  <2>5. \A j \in DOMAIN entries : entries[j].call.id = e.call.id => j = i
    BY <1>1, <2>2 DEF IdsOK
  <2>6. authorizing => BatchCall.id # e.call.id
    BY <1>2, <2>2 DEF EntryOf
  <2>7. \A t \in Tasks : taskCall[t].id # e.call.id
    BY <1>4, <2>2
  <2> QED BY <1>3, <1>9, <2>1, <2>2, <2>3, <2>4, <2>5, <2>6, <2>7 DEF Still
<1>11. CASE Hooks
  <2>1. PICK i, e : HookAnswers(i, e) /\ UNCHANGED dedup /\ Still
    BY <1>11 DEF Hooks, HookMoves
  <2>2. /\ i \in DOMAIN entries /\ entries[i].st = "authorizing" /\ e.call = entries[i].call
        /\ e.call \in CallType
        /\ \A j \in DOMAIN entries' : j \in DOMAIN entries
                                      /\ entries'[j] = IF j = i THEN e ELSE entries[j]
    BY <2>1 DEF HookAnswers, Becomes, EntryType
  <2>3. Held(e.call.id) /\ \A id : Held(id) <=> HeldIn(dedup, id)
    BY <1>5, <2>1, <2>2 DEF Held, Waiting
  <2>4. \A k \in DOMAIN entries' : Waiting(entries'[k]) => Held(entries'[k].call.id)
    BY <1>5, <2>2, <2>3
  <2>5. \A t \in Tasks' : \/ t \in Tasks /\ taskCall'[t] = taskCall[t]
                          \/ Held(taskCall'[t].id)
    <3>1. CASE Idles
      BY <1>3, <3>1
    <3>2. CASE AddTask(e.call)
      <4>1. TasksGrow /\ Tasks' = Tasks \cup {added'} /\ taskCall'[added'] = e.call
        BY <1>1, <2>2, <3>2, AddFacts
      <4> QED BY <2>3, <4>1 DEF TasksGrow
    <3> QED BY <2>1, <3>1, <3>2 DEF HookAnswers
  <2>6. \A t \in Tasks : DoneWith(taskCall[t].id) \/ Held(taskCall[t].id)
    BY <2>1, <2>3 DEF HeldOK, Answered, Drained, DoneWith, Still
  <2>7. authorizing' => Held(response'[Len(pending') + 1].id)
    BY <1>5, <2>1, <2>3 DEF BatchCall, Still
  <2> QED BY <2>4, <2>5, <2>6, <2>7, HeldPrime
<1>12. CASE LeftPrepares
  <2>1. /\ leftover # << >> /\ dedup' \in {dedup, checkSameStep(dedup, Head(leftover))}
        /\ Idles /\ UNCHANGED entries /\ Still
    BY <1>12 DEF LeftPrepares
  <2>2. 1 \in DOMAIN leftover /\ Head(leftover) = leftover[1]
    <3>1. leftover \in Seq(CallType)
      BY DEF LeftoverOK
    <3>2. Len(leftover) \in Nat \ {0} /\ DOMAIN leftover = 1..Len(leftover)
      BY <2>1, <3>1, LenProperties, EmptySeq
    <3>3. Head(leftover) = leftover[1]
      BY <2>1, <3>1, HeadTailProperties
    <3> QED BY <3>2, <3>3
  <2>3. PICK x : x = Head(leftover).id
    OBVIOUS
  <2>4. \A id : id # x => (Held(id) <=> HeldIn(dedup, id))
    BY <1>1, <2>1, <2>3, CheckHeld DEF Held
  <2>5. /\ \A k \in DOMAIN entries : entries[k].call.id # x
        /\ \A k \in DOMAIN response : response[k].id # x
    BY <2>2, <2>3 DEF LeftoverOK
  <2>6. \A t \in Tasks : taskCall[t].id = x => Drained(x)
    <3>1. \A j \in DOMAIN calls : calls[j] # x
      <4>1. \A l, n \in Nat : l <= n => \A j \in 1..l : j \in 1..n
        OBVIOUS
      <4>2. \A j \in DOMAIN calls : j \in DOMAIN response /\ calls[j] = response[j].id
        BY <4>1, Elements DEF LogOK
      <4> QED BY <2>5, <4>2
    <3> QED BY <1>4, <2>5, <3>1
  <2>7. authorizing => BatchCall.id # x
    BY <1>2, <2>5 DEF BatchCall
  <2> QED BY <1>3, <1>9, <2>1, <2>4, <2>5, <2>6, <2>7 DEF Still
<1>13. CASE Drops
  <2>1. PICK i \in Orphans, out \in Outcomes :
          /\ phase \in {"batch", "interrupted"} /\ entries' = Without(entries[i].call)
          /\ dedup' \in {dedup, finalizeResult(dedup, entries[i].call, out)}
          /\ Idles /\ Still
    BY <1>13 DEF Drops
  <2>2. i \in DOMAIN entries /\ \A k \in DOMAIN response : response[k].id # entries[i].call.id
    BY DEF Orphans, IdsOf
  <2>3. \A id : id # entries[i].call.id => (Held(id) <=> HeldIn(dedup, id))
    BY <1>1, <2>1, FinalizeHeld DEF Held
  <2>4. \A k \in DOMAIN entries' : \E j \in DOMAIN entries :
          entries'[k] = entries[j] /\ entries[j].call.id # entries[i].call.id
    BY <1>1, <2>1, WithoutFacts
  <2>5. \A t \in Tasks : taskCall[t].id = entries[i].call.id => Drained(entries[i].call.id)
    BY <2>1, <2>2 DEF Drained
  <2>6. authorizing => BatchCall.id # entries[i].call.id
    BY <1>2, <2>2 DEF BatchCall
  <2> QED BY <1>3, <1>9, <2>1, <2>3, <2>4, <2>5, <2>6 DEF Still
<1>14. CASE Waits
  <2>1. PICK call :
          /\ phase = "batch" /\ AtCall(call) /\ authorizing' = TRUE /\ Idles
          /\ UNCHANGED <<entries, phase, response, calls, results, pending, gateVars>>
          /\ \/ UNCHANGED dedup /\ \E i \in EntryOf(call) : entries[i].st = "deferred"
             \/ /\ EntryOf(call) = {} /\ dedup' = checkSameStep(dedup, call)
                /\ ~IsDuplicate(dedup', call)
    BY <1>14 DEF Waits
  <2>2. /\ call = response[Len(pending) + 1] /\ Len(pending) + 1 \in DOMAIN response
        /\ \A j \in DOMAIN calls : calls[j] # call.id
    BY <2>1, AtNext DEF AtCall
  <2>3. Held(call.id)
    <3>1. CASE UNCHANGED dedup /\ \E i \in EntryOf(call) : entries[i].st = "deferred"
      BY <1>5, <3>1 DEF Held, Waiting, EntryOf
    <3>2. CASE EntryOf(call) = {} /\ dedup' = checkSameStep(dedup, call)
               /\ ~IsDuplicate(dedup', call)
      BY <1>1, <3>2, CheckHeld DEF Held
    <3> QED BY <2>1, <3>1, <3>2
  <2>4. \A id : id # call.id => (Held(id) <=> HeldIn(dedup, id))
    BY <1>1, <2>1, CheckHeld DEF Held
  <2>5. /\ \A k \in DOMAIN entries :
             Waiting(entries[k]) /\ entries[k].call.id # call.id => Held(entries[k].call.id)
        /\ \A t \in Tasks : taskCall[t].id # call.id =>
             DoneWith(taskCall[t].id) \/ Held(taskCall[t].id)
    BY <2>1, <2>4, HeldKept
  <2> QED BY <1>3, <2>1, <2>2, <2>3, <2>5, HeldPrime
<1>15. ASSUME NEW c \in DOMAIN response, NEW out, NEW task, Takes(response[c], out, task)
       PROVE  HeldOK'
  <2>1. PICK call \in CallType : call = response[c]
    BY Elements
  <2>2. /\ phase \in {"batch", "skipping"} /\ phase' \in {phase, "skipping"}
        /\ entries' = Without(call) /\ UNCHANGED response /\ authorizing' = FALSE
        /\ AtCall(call) /\ Record(call, out, task) /\ out \in Known /\ task \in Nat
        /\ \/ UNCHANGED dedup /\ (Idles \/ (authorizing /\ AddTask(call)))
           \/ EntryOf(call) = {} /\ dedup' = checkSameStep(dedup, call) /\ Idles
    BY <1>15, <2>1 DEF Takes, Opens, Leaves
  <2>3. /\ \A j \in DOMAIN calls : calls[j] # call.id
        /\ UNCHANGED results /\ call = response[Len(pending) + 1] /\ Orphans = {}
    BY <2>1, <2>2, AtNext, Recorded DEF AtCall
  <2>4. \A id : id # call.id => (Held(id) <=> HeldIn(dedup, id))
    BY <1>1, <2>2, CheckHeld DEF Held
  <2>5. /\ \A k \in DOMAIN entries :
             Waiting(entries[k]) /\ entries[k].call.id # call.id => Held(entries[k].call.id)
        /\ \A t \in Tasks : taskCall[t].id # call.id =>
             DoneWith(taskCall[t].id) \/ Held(taskCall[t].id)
    BY <2>2, <2>3, <2>4, HeldKept
  <2>6. \A k \in DOMAIN entries' : Waiting(entries'[k]) => Held(entries'[k].call.id)
    <3>1. \A k \in DOMAIN entries' : \E j \in DOMAIN entries :
            entries'[k] = entries[j] /\ entries[j].call.id # call.id
      <4>1. entries' = Without(call)
        BY <2>2
      <4> QED BY <1>1, <4>1, WithoutFacts
    <3> QED BY <2>5, <3>1
  <2>7. \A t \in Tasks : DoneWith(taskCall[t].id) \/ Held(taskCall[t].id)
    <3>1. CASE UNCHANGED dedup
      BY <2>2, <2>3, <3>1 DEF HeldOK, Held, Answered, Drained, DoneWith
    <3>2. CASE EntryOf(call) = {}
      <4>1. \A t \in Tasks : taskCall[t].id # call.id
        BY <1>4, <2>1, <2>3, <3>2 DEF EntryOf, Drained
      <4> QED BY <2>5, <4>1
    <3> QED BY <2>2, <3>1, <3>2
  <2>8. \A t \in Tasks' : \/ t \in Tasks /\ taskCall'[t] = taskCall[t]
                          \/ Held(taskCall'[t].id)
    <3>1. CASE Idles
      BY <1>3, <3>1
    <3>2. CASE authorizing /\ AddTask(call) /\ UNCHANGED dedup
      <4>1. TasksGrow /\ Tasks' = Tasks \cup {added'} /\ taskCall'[added'] = call
        BY <1>1, <3>2, AddFacts
      <4>2. Held(call.id)
        BY <1>5, <2>3, <3>2 DEF Held, BatchCall
      <4> QED BY <4>1, <4>2 DEF TasksGrow
    <3> QED BY <2>2, <3>1, <3>2
  <2> QED BY <2>2, <2>6, <2>7, <2>8, HeldPrime
<1>16. CASE Finalizes
  <2>1. PICK j : j = Len(results) + 1
    OBVIOUS
  <2>2. PICK out : out = PendingOut(j)
    OBVIOUS
  <2>3. PICK o : o = FinalOutcome(dedup, NextCall, out)
    OBVIOUS
  <2>4. /\ phase \in {"batch", "skipping"} /\ j \in DOMAIN response /\ Len(pending) = Len(response)
        /\ dedup' = finalizeResult(dedup, NextCall, out)
        /\ results' = Append(results, [id |-> NextCall.id, out |-> o])
        /\ Idles /\ UNCHANGED <<entries, phase, response, calls, pending, authorizing>>
    BY <1>16, <2>1, <2>2, <2>3 DEF Finalizes
  <2>5. /\ DOMAIN results' = 1..(Len(results) + 1)
        /\ \A i \in 1..Len(results) : results'[i] = results[i]
        /\ results'[Len(results) + 1] = [id |-> NextCall.id, out |-> o]
    <3>1. results \in Seq([id : IdType, out : DeferredStates])
          /\ results' \in Seq([id : IdType, out : DeferredStates])
      BY <1>1, TypesStep DEF RecordsOK
    <3> QED BY <1>1, <2>4, <3>1, LenProperties
  <2>6. /\ \A i \in DOMAIN results : i \in DOMAIN results' /\ results'[i] = results[i]
        /\ \E i \in DOMAIN results' : results'[i].id = NextCall.id
    <3>1. \A m \in Nat : m + 1 \in 1..(m + 1) /\ \A i \in 1..m : i \in 1..(m + 1)
      OBVIOUS
    <3> QED BY <1>1, <2>5, <3>1
  <2>7. \A id : id # NextCall.id => (Held(id) <=> HeldIn(dedup, id))
    BY <1>1, <2>4, FinalizeHeld DEF Held
  <2>8. /\ \A k \in DOMAIN entries :
             Waiting(entries[k]) /\ entries[k].call.id # NextCall.id => Held(entries[k].call.id)
        /\ \A t \in Tasks : taskCall[t].id # NextCall.id =>
             DoneWith(taskCall[t].id) \/ Held(taskCall[t].id)
    BY <2>4, <2>6, <2>7, HeldKept
  <2>9. \A k \in DOMAIN entries : entries[k].call.id # NextCall.id
    <3>1. j \in DOMAIN calls /\ calls[j] = NextCall.id
      <4>1. Len(calls) = Len(response) /\ DOMAIN calls = 1..Len(calls)
            /\ DOMAIN response = 1..Len(response)
        BY <2>4, Elements DEF LogOK
      <4> QED BY <2>1, <2>4, <4>1 DEF LogOK, NextCall
    <3> QED BY <2>4, <3>1 DEF AnnouncedOK
  <2>10. ~authorizing
    <3>1. Len(pending) \in Nat /\ Len(pending) = Len(response)
      BY <2>4, Elements
    <3> QED BY <3>1 DEF BatchOnce
  <2> QED BY <1>3, <2>4, <2>6, <2>8, <2>9, <2>10, HeldPrime DEF DoneWith
<1>17. CASE closeInterrupted
  <2>1. /\ phase = "interrupted" /\ Idles /\ UNCHANGED <<phase, response, authorizing>>
        /\ Closes \/ Announces \/ \E i : Answer(i)
    BY <1>17, CloseShape
  <2>2. ~authorizing
    BY <1>2, <2>1
  <2>3. \A k \in DOMAIN Without(NextCall) : \E j \in DOMAIN entries :
          Without(NextCall)[k] = entries[j] /\ entries[j].call.id # NextCall.id
    BY <1>1, WithoutFacts
  <2>4. Closes \/ (\E i : Answer(i)) =>
          \A i \in DOMAIN results : i \in DOMAIN results' /\ results'[i] = results[i]
    <3>1. \A m \in Nat : \A i \in 1..m : i \in 1..(m + 1)
      OBVIOUS
    <3> QED BY <1>1, <1>17, <3>1, ClosesFacts
  <2>5. CASE Closes \/ Announces
    <3>1. /\ UNCHANGED dedup /\ entries' \in {entries, Without(NextCall)}
          /\ \A i \in DOMAIN results : i \in DOMAIN results' /\ results'[i] = results[i]
      BY <2>4, <2>5 DEF Closes, Announces
    <3>2. \A id : Held(id) <=> HeldIn(dedup, id)
      BY <3>1 DEF Held
    <3>3. \A k \in DOMAIN entries' : \E j \in DOMAIN entries : entries'[k] = entries[j]
      BY <2>3, <3>1
    <3>4. \A k \in DOMAIN entries' : Waiting(entries'[k]) => Held(entries'[k].call.id)
      BY <1>5, <3>2, <3>3
    <3>5. \A t \in Tasks : DoneWith(taskCall[t].id) \/ Held(taskCall[t].id)
      BY <2>1, <3>1, <3>2 DEF HeldOK, Answered, Drained, DoneWith
    <3> QED BY <1>3, <2>1, <2>2, <3>4, <3>5, HeldPrime
  <2>6. ASSUME NEW i, Answer(i) PROVE HeldOK'
    <3>1. /\ dedup' = finalizeResult(dedup, NextCall, EntryOutcome(entries[i], "unexecuted"))
          /\ entries' = Without(NextCall)
      BY <2>6 DEF Answer
    <3>2. \A id : id # NextCall.id => (Held(id) <=> HeldIn(dedup, id))
      BY <1>1, <3>1, FinalizeHeld DEF Held
    <3>3. /\ \A k \in DOMAIN entries :
               Waiting(entries[k]) /\ entries[k].call.id # NextCall.id => Held(entries[k].call.id)
          /\ \A t \in Tasks : taskCall[t].id # NextCall.id =>
               DoneWith(taskCall[t].id) \/ Held(taskCall[t].id)
      BY <2>1, <2>4, <2>6, <3>2, HeldKept
    <3>4. DoneWith(NextCall.id)
      <4>1. \A m \in Nat : m + 1 \in 1..(m + 1)
        OBVIOUS
      <4>2. Len(results) + 1 \in DOMAIN results' /\ results'[Len(results) + 1].id = NextCall.id
        BY <1>17, <2>6, <4>1, ClosesFacts
      <4> QED BY <4>2 DEF DoneWith
    <3>5. \A k \in DOMAIN entries' : Waiting(entries'[k]) => Held(entries'[k].call.id)
      BY <2>3, <3>1, <3>3
    <3> QED BY <1>3, <2>1, <2>2, <3>3, <3>4, <3>5, HeldPrime
  <2> QED BY <2>1, <2>5, <2>6
<1>18. CASE Rests \/ Finishes \/ \E t \in Tasks : Progress(t)
  <2>1. /\ UNCHANGED <<entries, dedup, response, results, pending, authorizing>>
        /\ (phase # "streaming" => phase' # "streaming")
        /\ Idles \/ Works
    BY <1>18 DEF Rests, Finishes, Progress, Still, runnerVars, logVars, batchVars, streamVars,
                 Ended, Idles
  <2>2. \A id : Held(id) <=> HeldIn(dedup, id)
    BY <2>1 DEF Held
  <2>3. \A t \in Tasks : DoneWith(taskCall[t].id) \/ Held(taskCall[t].id)
    BY <2>1, <2>2 DEF HeldOK, Answered, Drained, DoneWith
  <2>4. \A k \in DOMAIN entries' : Waiting(entries'[k]) => Held(entries'[k].call.id)
    BY <1>5, <2>1, <2>2
  <2>5. authorizing' => Held(response'[Len(pending') + 1].id)
    BY <1>5, <2>1, <2>2 DEF BatchCall
  <2> QED BY <1>3, <2>1, <2>3, <2>4, <2>5, HeldPrime
<1> QED
  BY <1>6, <1>7, <1>8, <1>10, <1>11, <1>12, <1>13, <1>14, <1>15, <1>16, <1>17, <1>18, MoveShape

---------------------------------------------------------------------------
(* The gates *)

\* A gate is opened for a call that has been announced by then.
LEMMA GateOpens ==
  ASSUME GatesOK, NEW id, OpenGate(id), \E j \in DOMAIN calls' : calls'[j] = id,
         \A j \in DOMAIN calls : j \in DOMAIN calls' /\ calls'[j] = calls[j],
         \A t \in Tasks : t \in Tasks' /\ taskCall'[t] = taskCall[t]
  PROVE  GatesOK'
<1>1. /\ opened' = opened \cup {id} /\ shown' = shown \cup (buffered \cap {id})
      /\ buffered' = buffered \ {id}
  BY DEF OpenGate
<1>2. /\ \A i \in opened : \E j \in DOMAIN calls : calls[j] = i
      /\ shown \subseteq opened /\ buffered \cap opened = {}
      /\ \A i \in buffered : \E t \in Tasks : taskCall[t].id = i
  BY DEF GatesOK
<1>3. \A i \in opened' : \E j \in DOMAIN calls' : calls'[j] = i
  BY <1>1, <1>2
<1>4. shown' \subseteq opened' /\ buffered' \cap opened' = {}
  BY <1>1, <1>2
<1>5. \A i \in buffered' : \E t \in Tasks' : taskCall'[t].id = i
  BY <1>1, <1>2
<1> QED BY <1>3, <1>4, <1>5 DEF GatesOK

\* No step opens the gate of a call before its announcement.
LEMMA GatesStep ==
  ASSUME Typed, LogOK, BatchOnce, GatesOK, [StepNext]_allVars
  PROVE  GatesOK'
<1>1. IInv /\ RecordsOK
  BY DEF Typed
<1>2. NextStep \/ \A t \in Tasks : t \in Tasks' /\ taskCall'[t] = taskCall[t]
  BY TasksStep DEF TasksGrow
<1>3. CASE NextStep
  BY <1>3, NextStepFacts DEF GatesOK
<1>4. ASSUME ~NextStep, UNCHANGED gateVars,
             \A j \in DOMAIN calls : j \in DOMAIN calls' /\ calls'[j] = calls[j]
      PROVE  GatesOK'
  <2>1. UNCHANGED <<opened, shown, buffered>>
    BY <1>4 DEF gateVars
  <2> QED BY <1>2, <1>4, <2>1 DEF GatesOK
<1>5. ASSUME \/ Streams \/ Ends \/ Readies \/ Hooks \/ LeftPrepares \/ Drops \/ Waits
             \/ Finalizes \/ Finishes \/ Rests
      PROVE  UNCHANGED gateVars /\ calls' = calls
  BY <1>5 DEF Streams, StreamCall, Ends, Readies, Hooks, HookMoves, LeftPrepares, Drops, Waits,
              Finalizes, Finishes, Rests, Still, logVars
<1>6. ASSUME ~NextStep, NEW c \in DOMAIN response, NEW out, NEW task, Takes(response[c], out, task)
      PROVE  GatesOK'
  <2>1. PICK call \in CallType : call = response[c]
    BY Elements
  <2>2. /\ Record(call, out, task) /\ out \in Known /\ task \in Nat
        /\ OpenGate(call.id) \/ UNCHANGED gateVars
    BY <1>6, <2>1 DEF Takes, Opens, Leaves
  <2>3. /\ \A j \in DOMAIN calls : j \in DOMAIN calls' /\ calls'[j] = calls[j]
        /\ \E j \in DOMAIN calls' : calls'[j] = call.id
    BY <2>2, Recorded
  <2> QED BY <1>2, <1>4, <1>6, <2>2, <2>3, GateOpens
<1>7. ASSUME ~NextStep, closeInterrupted PROVE GatesOK'
  <2>1. Closes \/ Announces \/ \E i : Answer(i)
    BY <1>7, CloseShape
  <2>2. Closes \/ Announces => /\ \A j \in DOMAIN calls : j \in DOMAIN calls' /\ calls'[j] = calls[j]
                               /\ \E j \in DOMAIN calls' : calls'[j] = NextCall.id
    <3>1. \A m \in Nat : m + 1 \in 1..(m + 1) /\ \A j \in 1..m : j \in 1..(m + 1)
      OBVIOUS
    <3> QED BY <1>7, <3>1, ClosesFacts
  <2>3. Announces => OpenGate(NextCall.id) \/ UNCHANGED gateVars
    BY DEF Announces
  <2>4. Closes => UNCHANGED gateVars
    BY DEF Closes
  <2>5. (\E i : Answer(i)) => UNCHANGED gateVars /\ calls' = calls
    BY DEF Answer
  <2> QED BY <1>2, <1>4, <1>7, <2>1, <2>2, <2>3, <2>4, <2>5, GateOpens
<1>8. ASSUME ~NextStep, NEW t \in Tasks, Progress(t) PROVE GatesOK'
  <2>1. PICK id : id = taskCall[t].id
    OBVIOUS
  <2>2. /\ UNCHANGED <<opened, calls>>
        /\ IF id \in opened THEN shown' = shown \cup {id} /\ UNCHANGED buffered
           ELSE buffered' = buffered \cup {id} /\ UNCHANGED shown
    BY <1>8, <2>1 DEF Progress, logVars
  <2>3. /\ \A i \in opened : \E j \in DOMAIN calls : calls[j] = i
        /\ shown \subseteq opened /\ buffered \cap opened = {}
        /\ \A i \in buffered : \E u \in Tasks : taskCall[u].id = i
    BY DEF GatesOK
  <2>4. shown' \subseteq opened' /\ buffered' \cap opened' = {}
    BY <2>2, <2>3
  <2>5. \A i \in buffered' : i \in buffered \/ i = id
    BY <2>2
  <2>6. \A i \in buffered' : \E u \in Tasks' : taskCall'[u].id = i
    BY <1>2, <1>8, <2>1, <2>3, <2>5
  <2>7. \A i \in opened' : \E j \in DOMAIN calls' : calls'[j] = i
    BY <2>2, <2>3
  <2> QED BY <2>4, <2>6, <2>7 DEF GatesOK
<1> QED BY <1>3, <1>4, <1>5, <1>6, <1>7, <1>8, MoveShape

\* No gate stays closed before a result that says the tool ran.
LEMMA UnopenedStep ==
  ASSUME Typed, LogOK, BatchOnce, AnnouncedOK, HomeOK, HeldOK, UnopenedOK, [StepNext]_allVars
  PROVE  UnopenedOK'
<1>1. /\ IInv /\ RecordsOK /\ RunnerOK /\ IdsOK
      /\ DOMAIN calls = 1..Len(calls) /\ DOMAIN results = 1..Len(results)
      /\ Len(calls) \in Nat /\ Len(results) \in Nat /\ Len(response) \in Nat
      /\ DOMAIN response = 1..Len(response) /\ DOMAIN pending = 1..Len(pending)
  BY Elements DEF Typed
<1>2. /\ Len(results) <= Len(calls) /\ Len(calls) <= Len(response)
      /\ \A i \in DOMAIN calls : calls[i] = response[i].id
  BY DEF LogOK
<1>a. phase \in {"batch", "skipping"} =>
        \A i, j \in DOMAIN response : response[i].id = response[j].id => i = j
  BY DEF LogOK, Distinct, Raw, Ended
<1>3. ASSUME NEW t \in Tasks, NEW k \in DOMAIN entries, entries[k].call.id = taskCall[t].id
      PROVE  entries[k].st = "started"
  BY <1>3 DEF HomeOK
<1>4. phase = "streaming" => DOMAIN calls = {}
  <2>1. phase = "streaming" => Len(calls) = 0
    BY EmptySeq DEF LogOK
  <2> QED BY <1>1, <2>1
<1>5. ASSUME Idles \/ Works PROVE Tasks' = Tasks /\ \A t \in Tasks : taskCall'[t] = taskCall[t]
  BY <1>1, <1>5, WorkFacts DEF RecordsOK, TasksGrow
<1>6. CASE NextStep
  BY <1>6, NextStepFacts DEF UnopenedOK, Tasks
<1>7. CASE Streams \/ Ends
  <2>1. phase = "streaming" /\ calls' = calls
    BY <1>7 DEF Streams, StreamCall, Ends, logVars
  <2> QED BY <1>4, <2>1 DEF UnopenedOK
<1>8. ASSUME UNCHANGED <<phase, calls, results, pending, opened>>,
             \A t \in Tasks' : \/ t \in Tasks /\ taskCall'[t] = taskCall[t]
                               \/ \A j \in DOMAIN calls : calls[j] # taskCall'[t].id
      PROVE  UnopenedOK'
  BY <1>8 DEF UnopenedOK
<1>9. CASE \/ Readies \/ LeftPrepares \/ Drops \/ Waits \/ Rests
  <2>1. UNCHANGED <<phase, calls, results, pending, opened>> /\ (Idles \/ Works)
    BY <1>9 DEF Readies, LeftPrepares, Drops, Waits, Rests, Still, gateVars
  <2> QED BY <1>5, <1>8, <2>1
<1>10. ASSUME NEW t \in Tasks, Progress(t) PROVE UnopenedOK'
  <2>1. UNCHANGED <<phase, calls, results, pending, opened>> /\ Idles
    BY <1>10 DEF Progress, Idles, logVars, batchVars
  <2> QED BY <1>5, <1>8, <2>1
<1>11. CASE Hooks
  <2>1. PICK i, e : HookAnswers(i, e) /\ Still
    BY <1>11 DEF Hooks, HookMoves
  <2>2. i \in DOMAIN entries /\ entries[i].st = "authorizing" /\ e.call = entries[i].call
        /\ e.call \in CallType
    BY <2>1 DEF HookAnswers, Becomes, EntryType
  <2>3. \A j \in DOMAIN calls : calls[j] # e.call.id
    BY <2>2 DEF AnnouncedOK, Ready
  <2>4. UNCHANGED <<phase, calls, results, pending, opened>>
    BY <2>1 DEF Still, gateVars
  <2>5. CASE Idles
    BY <1>5, <1>8, <2>4, <2>5
  <2>6. CASE AddTask(e.call)
    <3>1. TasksGrow /\ Tasks' = Tasks \cup {added'} /\ taskCall'[added'] = e.call
      BY <1>1, <2>2, <2>6, AddFacts
    <3> QED BY <1>8, <2>3, <2>4, <3>1 DEF TasksGrow
  <2> QED BY <2>1, <2>5, <2>6 DEF HookAnswers
<1>12. ASSUME NEW c \in DOMAIN response, NEW out, NEW task, Takes(response[c], out, task)
       PROVE  UnopenedOK'
  <2>1. PICK call \in CallType : call = response[c]
    BY Elements
  <2>2. /\ phase \in {"batch", "skipping"} /\ AtCall(call) /\ Record(call, out, task)
        /\ out \in Known /\ task \in Nat
        /\ Opens(call, out) \/ Leaves(call, task)
    BY <1>12, <2>1 DEF Takes
  <2>3. /\ Len(pending) = Len(calls) /\ Len(results) = 0 /\ call = response[Len(calls) + 1]
        /\ Len(calls) + 1 \in DOMAIN response
        /\ \A j \in DOMAIN calls : calls[j] # call.id
    BY <2>2, AtNext
  <2>4. /\ DOMAIN calls = 1..Len(calls) /\ DOMAIN pending = 1..Len(pending)
        /\ \A j \in DOMAIN calls' : calls'[j] = IF j \in DOMAIN calls THEN calls[j] ELSE call.id
        /\ \A j \in DOMAIN calls' : j \notin DOMAIN calls => j = Len(calls) + 1
        /\ \A j \in DOMAIN pending : j \in DOMAIN pending' /\ pending'[j] = pending[j]
        /\ pending'[Len(pending) + 1].task = task
        /\ UNCHANGED results
    <3>1. \A m \in Nat : m + 1 \in 1..(m + 1) /\ \A j \in 1..m : j \in 1..(m + 1)
      OBVIOUS
    <3>2. \A m \in Nat : m + 1 \notin 1..m
      OBVIOUS
    <3>3. Len(pending) \in Nat
      BY <1>1, <2>3
    <3> QED BY <2>2, <3>1, <3>2, <3>3, Recorded
  <2>5. DOMAIN results = {}
    BY <1>1, <2>3
  <2>6. phase = "batch" => \A t \in Tasks, j \in DOMAIN calls :
                             calls[j] = taskCall[t].id => taskCall[t].id \in opened
    BY <2>5 DEF UnopenedOK
  <2>7. phase = "skipping" => \A t \in Tasks, j \in DOMAIN calls :
                             calls[j] = taskCall[t].id /\ taskCall[t].id \notin opened
                               => pending[j].task = 0
    BY <2>5 DEF UnopenedOK
  <2>8. CASE Opens(call, out)
    <3>1. /\ phase = "batch" /\ opened' = opened \cup {call.id}
          /\ Idles \/ AddTask(call)
      BY <2>8 DEF Opens, OpenGate
    <3>2. \A t \in Tasks' : \/ t \in Tasks /\ taskCall'[t] = taskCall[t]
                            \/ taskCall'[t].id = call.id
      <4>1. CASE AddTask(call)
        <5>1. TasksGrow /\ Tasks' = Tasks \cup {added'} /\ taskCall'[added'] = call
          BY <1>1, <4>1, AddFacts
        <5> QED BY <5>1 DEF TasksGrow
      <4> QED BY <1>5, <3>1, <4>1
    <3>3. \A t \in Tasks', j \in DOMAIN calls' :
            calls'[j] = taskCall'[t].id => taskCall'[t].id \in opened'
      BY <2>4, <2>6, <3>1, <3>2
    <3> QED BY <3>3 DEF UnopenedOK
  <2>9. CASE Leaves(call, task) /\ phase = "batch"
    <3>1. /\ UNCHANGED opened /\ Idles /\ \A i \in EntryOf(call) : entries[i].st # "started"
      BY <2>9 DEF Leaves, gateVars
    <3>2. \A t \in Tasks : taskCall[t].id # call.id
      <4>1. \A t \in Tasks : taskCall[t].id = call.id =>
              ~Drained(taskCall[t].id) /\ \A k \in DOMAIN entries : entries[k].call.id # call.id
        BY <1>3, <2>1, <3>1 DEF Drained, EntryOf
      <4> QED BY <2>3, <4>1 DEF HomeOK
    <3>3. \A t \in Tasks', j \in DOMAIN calls' :
            calls'[j] = taskCall'[t].id => taskCall'[t].id \in opened'
      BY <1>5, <2>4, <2>6, <2>9, <3>1, <3>2
    <3> QED BY <3>3 DEF UnopenedOK
  <2>10. CASE Leaves(call, task) /\ phase = "skipping"
    <3>1. /\ UNCHANGED opened /\ Idles /\ phase' = "skipping" /\ task = 0
      BY <2>10 DEF Leaves, gateVars
    <3>2. \A t \in Tasks', j \in DOMAIN calls' :
            calls'[j] = taskCall'[t].id /\ taskCall'[t].id \notin opened' => pending'[j].task = 0
      BY <1>5, <2>3, <2>4, <2>7, <2>10, <3>1
    <3> QED BY <2>4, <2>5, <3>1, <3>2 DEF UnopenedOK
  <2> QED BY <2>2, <2>8, <2>9, <2>10
<1>13. CASE Finalizes
  <2>1. PICK j \in Nat : j = Len(results) + 1
    BY <1>1
  <2>2. PICK out : out = PendingOut(j)
    OBVIOUS
  <2>3. PICK o : o = FinalOutcome(dedup, NextCall, out)
    OBVIOUS
  <2>4. /\ phase \in {"batch", "skipping"} /\ j \in DOMAIN response /\ Len(pending) = Len(response)
        /\ results' = Append(results, [id |-> NextCall.id, out |-> o])
        /\ Idles /\ UNCHANGED <<phase, calls, pending, opened>> /\ NextCall = response[j]
    BY <1>13, <2>1, <2>2, <2>3 DEF Finalizes, NextCall, gateVars
  <2>5. /\ DOMAIN results' = 1..(Len(results) + 1)
        /\ \A i \in 1..Len(results) : results'[i] = results[i]
        /\ results'[j].out = o
    <3>1. results \in Seq([id : IdType, out : DeferredStates])
          /\ results' \in Seq([id : IdType, out : DeferredStates])
      BY <1>1, TypesStep DEF RecordsOK
    <3> QED BY <1>1, <2>1, <2>4, <3>1, LenProperties
  <2>6. \A i \in DOMAIN results' : i \in DOMAIN results \/ i = j
    <3>1. \A m \in Nat : \A i \in 1..(m + 1) : i \in 1..m \/ i = m + 1
      OBVIOUS
    <3> QED BY <1>1, <2>1, <2>5, <3>1
  <2>7. \A i \in DOMAIN results : i \in DOMAIN results' /\ i # j
    <3>1. \A m \in Nat : \A i \in 1..m : i \in 1..(m + 1) /\ i # m + 1
      OBVIOUS
    <3> QED BY <1>1, <2>1, <2>5, <3>1
  <2>8. \* The result at which the step is does not say that the tool ran.
        ASSUME NEW t \in Tasks, j \in DOMAIN calls, calls[j] = taskCall[t].id,
               taskCall[t].id \notin opened
        PROVE  o # "ok"
    <3>1. j \notin DOMAIN results /\ taskCall[t].id = NextCall.id
      BY <1>2, <2>4, <2>7, <2>8
    <3>2. pending[j].task = 0
      BY <2>8, <3>1 DEF UnopenedOK
    <3>3. out \in Known
      <4>1. j \in DOMAIN pending
        BY <1>1, <2>4
      <4> QED BY <2>2, <3>2, <4>1, Elements DEF PendingOut
    <3>4. ~Answered(NextCall.id)
      <4>1. \A i \in DOMAIN results : i \in DOMAIN response /\ i # j
        <5>1. \A l, m, n \in Nat : l <= m /\ m <= n => \A i \in 1..l : i \in 1..n
          OBVIOUS
        <5> QED BY <1>1, <1>2, <2>7, <5>1
      <4>2. \A i \in DOMAIN results : results[i].id = response[i].id
        BY DEF LogOK
      <4> QED BY <1>a, <2>4, <4>1, <4>2 DEF Answered
    <3>5. ~Drained(NextCall.id)
      BY <2>4 DEF Drained
    <3>6. HeldIn(dedup, NextCall.id)
      BY <3>1, <3>4, <3>5 DEF HeldOK
    <3>7. o = out
      BY <2>3, <3>6, FinalHeld
    <3> QED BY <3>3, <3>7 DEF Known
  <2>9. ASSUME NEW t \in Tasks, NEW i \in DOMAIN calls, calls[i] = taskCall[t].id,
               taskCall[t].id \notin opened
        PROVE  /\ i \in DOMAIN results' => results'[i].out # "ok"
               /\ i \notin DOMAIN results' => phase = "skipping" /\ pending[i].task = 0
    <3>1. /\ i \in DOMAIN results => results[i].out # "ok"
          /\ i \notin DOMAIN results => phase = "skipping" /\ pending[i].task = 0
      BY <2>9 DEF UnopenedOK
    <3>2. CASE i \in DOMAIN results
      BY <1>1, <2>5, <2>7, <3>1, <3>2
    <3>3. CASE i = j
      <4>1. o # "ok"
        BY <2>8, <2>9, <3>3
      <4>2. j \in DOMAIN results'
        BY <1>1, <2>1, <2>5
      <4> QED BY <2>5, <3>3, <4>1, <4>2
    <3>4. CASE i \notin DOMAIN results'
      BY <2>7, <3>1, <3>4
    <3> QED BY <2>6, <3>2, <3>3, <3>4
  <2> QED BY <1>5, <2>4, <2>9 DEF UnopenedOK
<1>14. CASE closeInterrupted
  <2>1. /\ phase = "interrupted" /\ Idles /\ UNCHANGED <<phase, response, pending>>
        /\ Closes \/ Announces \/ \E i : Answer(i)
    BY <1>14, CloseShape
  <2>2. \* Before the step every announced call without a result has an open gate.
        \A t \in Tasks, j \in DOMAIN calls :
          calls[j] = taskCall[t].id /\ taskCall[t].id \notin opened =>
            j \in DOMAIN results /\ results[j].out # "ok"
    BY <2>1 DEF UnopenedOK
  <2>3. \A m \in Nat : \A i \in 1..(m + 1) : i \in 1..m \/ i = m + 1
    OBVIOUS
  <2>4. \A m \in Nat : m + 1 \in 1..(m + 1) /\ \A i \in 1..m : i \in 1..(m + 1)
    OBVIOUS
  <2>5. SUFFICES ASSUME NEW t \in Tasks, NEW j \in DOMAIN calls',
                        calls'[j] = taskCall[t].id, taskCall[t].id \notin opened'
                 PROVE  j \in DOMAIN results' /\ results'[j].out # "ok"
    BY <1>5, <2>1 DEF UnopenedOK
  <2>6. CASE Closes
    <3>1. Len(calls) = Len(results) /\ UNCHANGED opened
      BY <2>6 DEF Closes, gateVars
    <3>2. /\ DOMAIN calls' = 1..(Len(calls) + 1) /\ DOMAIN results' = 1..(Len(results) + 1)
          /\ \A i \in DOMAIN calls : calls'[i] = calls[i]
          /\ \A i \in DOMAIN results : results'[i] = results[i]
          /\ results'[Len(results) + 1].out = "unexecuted"
      BY <1>14, <2>6, ClosesFacts
    <3>3. CASE j \in DOMAIN calls
      BY <1>1, <2>2, <2>4, <2>5, <3>1, <3>2, <3>3
    <3>4. CASE j = Len(calls) + 1
      BY <1>1, <2>4, <3>1, <3>2, <3>4
    <3> QED BY <1>1, <2>3, <3>2, <3>3, <3>4
  <2>7. CASE Announces
    <3>1. PICK i \in EntryOf(NextCall) :
            IF entries[i].st = "deferred" THEN UNCHANGED gateVars ELSE OpenGate(NextCall.id)
      BY <2>7 DEF Announces
    <3>2. /\ DOMAIN calls' = 1..(Len(calls) + 1) /\ calls'[Len(calls) + 1] = NextCall.id
          /\ \A k \in DOMAIN calls : calls'[k] = calls[k]
          /\ UNCHANGED results
      BY <1>14, <2>7, ClosesFacts DEF Announces
    <3>3. opened' = opened \/ opened' = opened \cup {NextCall.id}
      BY <3>1 DEF gateVars, OpenGate
    <3>4. CASE j \in DOMAIN calls
      BY <2>2, <2>5, <3>2, <3>3, <3>4
    <3>5. CASE j = Len(calls) + 1
      <4>1. entries[i].st = "deferred"
        BY <2>5, <3>1, <3>2, <3>5 DEF OpenGate
      <4> QED BY <1>3, <2>5, <3>2, <3>5, <4>1 DEF EntryOf
    <3> QED BY <1>1, <2>3, <3>2, <3>4, <3>5
  <2>8. ASSUME NEW i, Answer(i) PROVE j \in DOMAIN results' /\ results'[j].out # "ok"
    <3>1. UNCHANGED <<calls, opened>>
      BY <2>8 DEF Answer, gateVars
    <3>2. j \in DOMAIN results /\ results[j].out # "ok"
      BY <2>2, <2>5, <3>1
    <3>3. DOMAIN results' = 1..(Len(results) + 1)
          /\ \A k \in DOMAIN results : results'[k] = results[k]
      BY <1>14, <2>8, ClosesFacts
    <3> QED BY <1>1, <2>4, <3>2, <3>3
  <2> QED BY <2>1, <2>6, <2>7, <2>8
<1>15. CASE Finishes
  <2>1. /\ UNCHANGED <<calls, results, opened>> /\ Len(results) = Len(response) /\ Idles
    BY <1>15 DEF Finishes, gateVars
  <2>2. \A l, m, n \in Nat : l <= m /\ m <= n /\ l = n => \A j \in 1..m : j \in 1..l
    OBVIOUS
  <2>3. \A j \in DOMAIN calls : j \in DOMAIN results
    BY <1>1, <1>2, <2>1, <2>2
  <2> QED BY <1>5, <2>1, <2>3 DEF UnopenedOK
<1> QED
  BY <1>6, <1>7, <1>9, <1>10, <1>11, <1>12, <1>13, <1>14, <1>15, MoveShape

\* Nothing is left over, announced or held at the start.
LEMMA InitGateInv ==
  ASSUME StepInit
  PROVE  GateInv
<1>1. /\ leftover = << >> /\ stream = << >> /\ entries = << >> /\ response = << >>
      /\ calls = << >> /\ Tasks = {} /\ authorizing = FALSE
      /\ opened = {} /\ shown = {} /\ buffered = {}
  BY DEF StepInit, Init, Tasks
<1>2. DOMAIN << >> = {} /\ << >> \in Seq(CallType)
  BY EmptySeq
<1> QED
  BY <1>1, <1>2 DEF GateInv, LeftoverOK, AnnouncedOK, HomeOK, HeldOK, GatesOK, UnopenedOK

\* Every step preserves the parts; each has its lemma.
LEMMA NextGateInv ==
  ASSUME StepInv, GateInv, [StepNext]_allVars
  PROVE  GateInv'
<1>1. Typed /\ LogOK /\ BatchOnce
  BY DEF StepInv, Typed, ClaimsOK
<1> QED
  BY <1>1, LeftoverStep, AnnouncedStep, HomeStep, HeldStep, GatesStep, UnopenedStep DEF GateInv

\* What the gates let through, and what they hold back, fits the events.
LEMMA AlwaysGateInv == StepSpec => [](StepInv /\ GateInv)
<1>1. StepInit => GateInv
  BY InitGateInv
<1>2. StepInv /\ GateInv /\ [StepNext]_allVars => GateInv'
  BY NextGateInv
<1> QED
  BY <1>1, <1>2, AlwaysStepInv, PTL DEF StepSpec

\* gateProgressDispatch, wrapAnnounce: progress of a tool is dispatched after
\* its tool.call only, and none is held back behind the result of a call that ran.
THEOREM StepProgressFollowsCall == StepSpec => []ProgressFollowsCall
<1>1. ASSUME StepInv, GateInv PROVE ProgressFollowsCall
  <2>1. Typed /\ LogOK /\ GatesOK /\ UnopenedOK
    BY <1>1 DEF StepInv, Typed, GateInv
  <2>2. \A id \in shown : \E i \in DOMAIN calls : calls[i] = id
    BY <2>1 DEF GatesOK
  <2>3. ASSUME NEW i \in DOMAIN results, results[i].out = "ok", results[i].id \in buffered
        PROVE  FALSE
    <3>1. PICK t \in Tasks : taskCall[t].id = results[i].id
      BY <2>1, <2>3 DEF GatesOK
    <3>2. taskCall[t].id \notin opened
      BY <2>1, <2>3, <3>1 DEF GatesOK
    <3>3. i \in DOMAIN calls /\ calls[i] = results[i].id
      <4>1. /\ DOMAIN results = 1..Len(results) /\ DOMAIN calls = 1..Len(calls)
            /\ Len(results) \in Nat /\ Len(calls) \in Nat
        BY <2>1, Elements
      <4>2. Len(results) <= Len(calls) /\ results[i].id = response[i].id
        BY <2>1, <2>3 DEF LogOK
      <4>3. \A m, n \in Nat : m <= n => \A j \in 1..m : j \in 1..n
        OBVIOUS
      <4>4. i \in DOMAIN calls
        BY <2>3, <4>1, <4>2, <4>3
      <4> QED BY <2>1, <4>2, <4>4 DEF LogOK
    <3> QED BY <2>1, <2>3, <3>1, <3>2, <3>3 DEF UnopenedOK
  <2> QED BY <2>2, <2>3 DEF ProgressFollowsCall
<1> QED
  BY <1>1, AlwaysGateInv, PTL

=============================================================================
