---------------------------- MODULE ToolCallStep ----------------------------
(***************************************************************************)
(* The tool calls of one model step (loop/tool-call.ts with its caller     *)
(* loop/turn-step.ts): the provider streams calls, the                     *)
(* StreamingToolCallRunner prepares them and starts the read-only ones     *)
(* while the stream is still open, a failed request is retried, and        *)
(* runToolCallBatch drains the final response in provider order.  Four     *)
(* activities interleave: the stream, the prepare chain, the batch and the *)
(* running tools; the user may abort at any time.                          *)
(*                                                                         *)
(* Tasks that are already resolved (settled preparations, skipped calls,   *)
(* wrappers around a task started mid-stream) have no accesses, so the     *)
(* scheduler starts them at once; they are not put into its state here.    *)
(* Hook results, wording and event payloads are reduced to an outcome:     *)
(*   "ok"          the tool ran (its result may be an error result)        *)
(*   "blocked"     refused by a hook, or the call failed validation        *)
(*   "stop"        an authorization answered with a stopTurn result        *)
(*   "skipped"     "... because a previous tool call stopped the turn"     *)
(*   "unexecuted"  the response broke off before the tool could start      *)
(*   "discarded"   preparation of a failed attempt, never executed         *)
(*   "aborted"     cancelled before the tool was entered                   *)
(*   "placeholder" a same-step duplicate, replaced when it is finalized    *)
(***************************************************************************)
EXTENDS ToolScheduler, SameStepDedup

CONSTANTS
  AccessOf,     \* AccessOf[k]: the access list a call with key k resolves to
  Invalid,      \* keys whose arguments fail validation (preflight)
  Reviewed,     \* keys whose authorization may answer with a stopTurn result
  StopsBatch,   \* keys whose execution declares stopBatchAfterThis
  Unresolvable, \* keys whose resolveExecution fails
  DuplicateIds, \* the provider may repeat an id within one response
  ReportsProgress, \* tools report progress
  MaxCalls,     \* bound: calls in one response
  MaxAttempts,  \* bound: requests in one step
  MaxSteps      \* bound: steps that share one deduplicator

ASSUME StepAssumption ==
  /\ AccessOf \in [Key -> AccessLists]
  /\ Invalid \subseteq Key /\ Reviewed \subseteq Key
  /\ StopsBatch \subseteq Key /\ Unresolvable \subseteq Key
  /\ DuplicateIds \in BOOLEAN /\ ReportsProgress \in BOOLEAN
  /\ MaxCalls \in Nat /\ MaxAttempts \in Nat /\ MaxSteps \in Nat

VARIABLES
  streaming,   \* the streamingToolExecution switch
  step,        \* number of the step within the turn
  attempt,     \* number of the request within the step
  phase,       \* where executeLoopStep is
  nextId,      \* the next fresh provider id
  stream,      \* calls of this attempt whose arguments are complete
  response,    \* the calls of the final response, as they are recorded
  entries,     \* the runner's Map of entries, in insertion order
  stopped,     \* the runner saw a batch-stopping call
  leftover,    \* preparations of an abandoned step that have not begun
  dedup,       \* the turn's deduplicator
  authorizing, \* the batch is inside an authorize hook
  pending,     \* pendingResults: outcome or task per drained call
  calls,       \* ids of the tool.call events, in order
  results,     \* the tool.result events, in order
  stopTurn,    \* the batch has to end the turn
  aborted,     \* the turn's signal
  taskCall,    \* taskCall[t]: the call scheduler task t executes
  executed,    \* tasks whose tool body was entered
  opened,      \* ids whose progress passes: announcedCallIds, or scheduled
               \* by the batch, whose dispatcher is not gated
  buffered,    \* ids with a tool.progress event in progressBuffers
  shown        \* ids with a dispatched tool.progress event

runnerVars == <<entries, stopped, leftover>>
streamVars == <<streaming, step, attempt, nextId, stream, response>>
batchVars  == <<authorizing, pending, stopTurn>>
logVars    == <<calls, results>>
taskVars   == <<taskCall, executed>>
gateVars   == <<opened, buffered, shown>>
allVars    == <<vars, runnerVars, streamVars, batchVars, logVars, taskVars,
                gateVars, phase, dedup, aborted>>

Ended == {"sealed", "aborted", "failed"}

---------------------------------------------------------------------------
(* Helpers *)

IdsOf(s) == {s[i].id : i \in DOMAIN s}
FirstOf(S) == {i \in S : \A j \in S : i <= j}
EntryOf(call) == {i \in DOMAIN entries : entries[i].call.id = call.id}

(* entries.delete(): the Map has at most one entry for an id. *)
Without(call) ==
  LET at == EntryOf(call)
  IN  IF at = {} THEN entries ELSE RemoveAt(entries, CHOOSE i \in at : TRUE)

(* The n-th occurrence of an id in the response becomes <id>_n (assuming   *)
(* that no id of the provider's has this form already).                    *)
uniquifyToolCallIds(s) ==
  [i \in DOMAIN s |->
     [s[i] EXCEPT !.id = <<@[1], 1 + Cardinality({j \in 1..(i - 1) : s[j].id = s[i].id})>>]]

\* Mutant: the declared accesses are not looked at.
isStreamingEligible_AnyAccess(key) == key \notin StopsBatch

(* May the call start while the stream is open? *)
isStreamingEligible(key) ==
  /\ key \notin StopsBatch
  /\ \A access \in AccessOf[key] :
       access.kind = "file" /\ access.operation \in {"read", "search"}

NewEntry(call, st, out, stops) ==
  [call |-> call, st |-> st, out |-> out, stops |-> stops, task |-> 0]
Ready(entry) == entry.st \notin {"queued", "authorizing"}

\* Mutant: a task that leaves the queue does not look at the signal.
EnterStartedTasks_IgnoresAbort ==
  executed' = executed \cup (activeTasks' \ activeTasks)

(* start(): a task whose turn comes enters its tool unless the turn has    *)
(* been aborted, in which case runRunnableToolCall returns at once.        *)
EnterStartedTasks ==
  executed' = IF aborted THEN executed
              ELSE executed \cup (activeTasks' \ activeTasks)

AddTask(call) ==
  /\ add(AccessOf[call.key])
  /\ taskCall' = Append(taskCall, call)
  /\ EnterStartedTasks

(* What authorizeToolCallPreparation can answer. *)
Authorizations(key) ==
  IF aborted THEN {"aborted"}
  ELSE {"allow", "blocked"} \cup (IF key \in Reviewed THEN {"stop"} ELSE {})

(* The result of a task: its tool ran, or the abort came first. *)
TaskDone(t) == t \notin Pending \/ t \in settled
TaskOutcome(t) == IF t \in executed THEN "ok" ELSE "aborted"

StepInit ==
  /\ Init
  /\ streaming \in BOOLEAN
  /\ step = 1 /\ attempt = 1 /\ nextId = 1
  /\ phase = "streaming"
  /\ stream = << >> /\ response = << >>
  /\ entries = << >> /\ stopped = FALSE /\ leftover = << >>
  /\ dedup = NoDedup
  /\ authorizing = FALSE /\ pending = << >> /\ stopTurn = FALSE
  /\ calls = << >> /\ results = << >>
  /\ aborted = FALSE
  /\ taskCall = << >> /\ executed = {}
  /\ opened = {} /\ buffered = {} /\ shown = {}

---------------------------------------------------------------------------
(* The provider's stream *)

(* addReady(): a repeated id is ignored; after a batch-stopping call the   *)
(* entry is born skipped.                                                  *)
addReady(call) ==
  entries' = IF EntryOf(call) # {} THEN entries
             ELSE Append(entries,
                    NewEntry(call, IF stopped THEN "skipped" ELSE "queued",
                             "placeholder", FALSE))

(* Another part follows a call: its arguments are complete. *)
StreamCall(key, n) ==
  LET call == [id |-> <<n, 1>>, key |-> key]
  IN  /\ phase = "streaming" /\ streaming /\ ~aborted
      /\ Len(stream) < MaxCalls
      /\ addReady(call)
      /\ stream' = Append(stream, call)
      /\ nextId' = IF n = nextId THEN nextId + 1 ELSE nextId
      /\ UNCHANGED <<vars, stopped, leftover, streaming, step, attempt, response,
                     batchVars, logVars, taskVars, phase, dedup, aborted, gateVars>>

(* The ids the provider may give the next call. *)
ProviderIds ==
  {nextId} \cup (IF DuplicateIds THEN {stream[i].id[1] : i \in DOMAIN stream} ELSE {})

(* The calls a response may hold behind those that were streamed: all of   *)
(* them, or the last one, which is only now known to be complete.  An id   *)
(* that is not fresh is one the response has had before.                   *)
TailIds == IdsOf(stream) \cup {<<n, 1>> : n \in nextId..(nextId + MaxCalls)}
Tails ==
  {tail \in UNION {[1..n -> [id : TailIds, key : Key]] : n \in 0..MaxCalls} :
     \A i \in DOMAIN tail :
       \/ tail[i].id[1] = nextId + i - 1
       \/ DuplicateIds /\ tail[i].id[1] < nextId + i - 1}

(* recordUnexecutedToolCalls(): with nothing in the runner an interrupted  *)
(* response is recorded as it came, repeated ids included.                 *)
RecordedRaw(reason) == reason = "paused" /\ entries = << >>

(* The response is final.  A response without tool calls, and a filtered   *)
(* one, records nothing.                                                   *)
StreamEnd(tail, reason) ==
  LET received == stream \o tail
  IN  /\ phase = "streaming" /\ ~aborted
      /\ Len(received) <= MaxCalls
      /\ streaming => Len(tail) <= 1
      /\ response' = IF RecordedRaw(reason) THEN received ELSE uniquifyToolCallIds(received)
      /\ nextId' = nextId + Len(tail)
      /\ phase' = CASE received = << >> \/ reason = "filtered" -> "sealed"
                    [] received # << >> /\ reason = "tool_calls" -> "batch"
                    [] received # << >> /\ reason = "paused" -> "interrupted"
      /\ UNCHANGED <<vars, runnerVars, streaming, step, attempt, stream,
                     batchVars, logVars, taskVars, dedup, aborted, gateVars>>

\* Mutant: every attempt starts a step for the deduplicator.
AttemptFails_BeginsStep ==
  /\ phase = "streaming" /\ ~aborted
  /\ attempt < MaxAttempts
  /\ attempt' = attempt + 1
  /\ stream' = << >>
  /\ dedup' = beginStep(dedup)
  /\ UNCHANGED <<vars, runnerVars, streaming, step, nextId, response, batchVars,
                 logVars, taskVars, phase, aborted, gateVars>>

(* chatWithRetry: the request fails and is sent again with the same runner. *)
AttemptFails ==
  /\ phase = "streaming" /\ ~aborted
  /\ attempt < MaxAttempts
  /\ attempt' = attempt + 1
  /\ stream' = << >>
  /\ UNCHANGED <<vars, runnerVars, streaming, step, nextId, response, batchVars,
                 logVars, taskVars, phase, dedup, aborted, gateVars>>

(* The request fails for good, or the abort cancels it. *)
RequestEnds ==
  /\ phase = "streaming"
  /\ phase' = IF aborted THEN "aborted" ELSE "failed"
  /\ UNCHANGED <<vars, runnerVars, streamVars, batchVars, logVars, taskVars,
                 dedup, aborted, gateVars>>

(* The turn goes on with another step: after a sealed step, or after a     *)
(* context overflow that compaction recovered from.  The new step has its  *)
(* own runner and scheduler, the deduplicator only starts a new step, and  *)
(* what the old prepare chain has not begun is still in the old chain.     *)
(* The chain runs in microtasks: something is left over only when it waits *)
(* for an authorization.                                                   *)
Unbegun(entry) == entry.st = "queued" /\ ~stopped
LeaveBehind(chain, entry) == IF Unbegun(entry) THEN Append(chain, entry.call) ELSE chain

NextStep ==
  /\ phase = "sealed" \/ (phase = "streaming" /\ ~aborted)
  /\ step < MaxSteps
  /\ (\E i \in DOMAIN entries : Unbegun(entries[i]))
       => \E i \in DOMAIN entries : entries[i].st = "authorizing"
  /\ step' = step + 1 /\ attempt' = 1
  /\ phase' = "streaming"
  /\ stream' = << >> /\ response' = << >>
  /\ entries' = << >> /\ stopped' = FALSE
  /\ leftover' = FoldLeft(LeaveBehind, leftover, entries)
  /\ dedup' = beginStep(dedup)
  /\ authorizing' = FALSE /\ pending' = << >> /\ stopTurn' = FALSE
  /\ calls' = << >> /\ results' = << >>
  /\ taskCall' = << >> /\ executed' = {}
  /\ added' = 0 /\ accesses' = << >>
  /\ activeTasks' = {} /\ queuedTasks' = {} /\ settled' = {}
  /\ opened' = {} /\ buffered' = {} /\ shown' = {}
  /\ UNCHANGED <<streaming, nextId, aborted>>

---------------------------------------------------------------------------
(* The prepare chain: one preparation at a time, in arrival order.  The    *)
(* prepare hook registers the call with the deduplicator synchronously.    *)

PrepareOutcome(d, call) ==
  CASE IsDuplicate(d, call)         -> "placeholder"
    [] ~IsDuplicate(d, call) /\ call.key \in Unresolvable -> "blocked"
    [] ~IsDuplicate(d, call) /\ call.key \notin Unresolvable /\ aborted -> "aborted"
    [] OTHER                        -> "runnable"

\* Mutant: the chain does not look at `stopped` again.
StoppedMeanwhile_Unchecked == FALSE

(* prepareOne() looks at `stopped` again when the chain reaches the call. *)
StoppedMeanwhile == stopped

prepareOne ==
  \E i \in FirstOf({k \in DOMAIN entries : entries[k].st = "queued"}) :
  LET call == entries[i].call
      d == checkSameStep(dedup, call)
      out == PrepareOutcome(d, call)
      Become(st, o) == entries' = [entries EXCEPT ![i].st = st, ![i].out = o]
  IN  /\ \A j \in DOMAIN entries : entries[j].st # "authorizing"
      /\ \/ /\ StoppedMeanwhile
            /\ Become("skipped", "placeholder")
            /\ UNCHANGED <<dedup, stopped>>
         \/ /\ ~StoppedMeanwhile /\ call.key \in Invalid
            /\ Become("settled", "blocked")
            /\ UNCHANGED <<dedup, stopped>>
         \/ /\ ~StoppedMeanwhile /\ call.key \notin Invalid /\ out # "runnable"
            /\ Become("settled", out)
            /\ dedup' = d
            /\ UNCHANGED stopped
         \/ /\ ~StoppedMeanwhile /\ call.key \notin Invalid /\ out = "runnable"
            /\ Become(IF isStreamingEligible(call.key) THEN "authorizing" ELSE "deferred",
                      "placeholder")
            /\ dedup' = d
            /\ stopped' = (stopped \/ call.key \in StopsBatch)
      /\ UNCHANGED <<vars, leftover, streamVars, batchVars, logVars, taskVars,
                     phase, aborted, gateVars>>

(* The authorize hook of a mid-stream preparation answers. *)
chainAuthorized(answer) ==
  \E i \in DOMAIN entries :
    LET call == entries[i].call
    IN  /\ entries[i].st = "authorizing"
        /\ answer \in Authorizations(call.key)
        /\ IF answer = "allow"
             THEN /\ AddTask(call)
                  /\ entries' = [entries EXCEPT ![i].st = "started",
                                               ![i].task = added']
                  /\ UNCHANGED stopped
             ELSE /\ entries' = [entries EXCEPT ![i].st = "settled",
                                               ![i].out = answer,
                                               ![i].stops = (answer = "stop")]
                  /\ stopped' = (stopped \/ answer = "stop")
                  /\ UNCHANGED <<vars, taskVars>>
        /\ UNCHANGED <<leftover, streamVars, batchVars, logVars, phase, dedup, aborted, gateVars>>

(* The chain of an abandoned step reaches its next preparation. *)
LeftoverPrepares ==
  /\ leftover # << >>
  /\ leftover' = Tail(leftover)
  /\ dedup' = IF Head(leftover).key \in Invalid THEN dedup
              ELSE checkSameStep(dedup, Head(leftover))
  /\ UNCHANGED <<vars, entries, stopped, streamVars, batchVars, logVars, taskVars,
                 phase, aborted, gateVars>>

---------------------------------------------------------------------------
(* The batch: runToolCallBatch and drainInterruptedToolCalls *)

Orphans == {i \in DOMAIN entries : entries[i].call.id \notin IdsOf(response)}

(* The outcome an entry is finalized with when its call is not executed    *)
(* any more.                                                               *)
EntryOutcome(entry, ifDeferred) ==
  CASE entry.st = "started"  -> TaskOutcome(entry.task)
    [] entry.st = "deferred" -> ifDeferred
    [] OTHER                 -> entry.out

EntryFinal(entry) ==
  /\ Ready(entry)
  /\ entry.st = "started" => TaskDone(entry.task)
  /\ entry.st # "skipped" => ~MustWait(dedup, entry.call)

\* Mutant: a deferred orphan is dropped without being finalized.
drainOrphan_DropsDeferred ==
  \E i \in FirstOf(Orphans) :
  LET entry == entries[i]
  IN  /\ phase \in {"batch", "interrupted"}
      /\ EntryFinal(entry)
      /\ dedup' = IF entry.st \in {"skipped", "deferred"} THEN dedup
                  ELSE finalizeResult(dedup, entry.call, EntryOutcome(entry, "discarded"))
      /\ entries' = Without(entry.call)
      /\ UNCHANGED <<vars, stopped, leftover, streamVars, batchVars, logVars,
                     taskVars, phase, aborted, gateVars>>

(* drainOrphanedPreparations(): preparations of failed attempts are        *)
(* finalized in insertion order, before the response is looked at and      *)
(* without an event.                                                       *)
drainOrphan ==
  \E i \in FirstOf(Orphans) :
  LET entry == entries[i]
  IN  /\ phase \in {"batch", "interrupted"}
      /\ EntryFinal(entry)
      /\ dedup' = IF entry.st = "skipped" THEN dedup
                  ELSE finalizeResult(dedup, entry.call, EntryOutcome(entry, "discarded"))
      /\ entries' = Without(entry.call)
      /\ UNCHANGED <<vars, stopped, leftover, streamVars, batchVars, logVars,
                     taskVars, phase, aborted, gateVars>>

(* The next call of the response the batch has to prepare. *)
AtCall(call) ==
  /\ Orphans = {}
  /\ Len(pending) < Len(response)
  /\ call = response[Len(pending) + 1]

(* dispatchToolCall and the push onto pendingResults; task 0 is a result   *)
(* that is known already.                                                  *)
Record(call, out, task) ==
  /\ calls' = Append(calls, call.id)
  /\ pending' = Append(pending, [out |-> out, task |-> task])
  /\ UNCHANGED results

\* Mutant: what was buffered is not released.
OpenGate_KeepsBuffer(id) ==
  opened' = opened \cup {id} /\ UNCHANGED <<shown, buffered>>

(* wrapAnnounce(): the announced call's buffered progress is released and  *)
(* later progress passes.                                                  *)
OpenGate(id) ==
  /\ opened' = opened \cup {id}
  /\ shown' = shown \cup (buffered \cap {id})
  /\ buffered' = buffered \ {id}

StopBatchIf(stops) ==
  /\ stopTurn' = (stopTurn \/ stops)
  /\ phase' = IF stops THEN "skipping" ELSE phase

(* materialize(): the call was prepared while the stream was open. *)
materialize(call) ==
  /\ phase = "batch" /\ ~authorizing /\ AtCall(call)
  /\ \E i \in EntryOf(call) :
       LET entry == entries[i]
       IN  /\ Ready(entry)
           /\ IF entry.st = "deferred"
                THEN /\ authorizing' = TRUE
                     /\ UNCHANGED <<entries, logVars, pending, stopTurn, phase, gateVars>>
                ELSE /\ Record(call,
                               IF entry.st = "skipped" THEN "skipped" ELSE entry.out,
                               entry.task)
                     /\ StopBatchIf(entry.st = "settled" /\ entry.stops)
                     /\ entries' = Without(call)
                     /\ IF entry.st = "skipped" THEN UNCHANGED gateVars
                                                ELSE OpenGate(call.id)
                     /\ UNCHANGED authorizing
  /\ UNCHANGED <<vars, stopped, leftover, streamVars, taskVars, dedup, aborted>>

(* prepareToolCall(): the call was never streamed. *)
prepareToolCall(call) ==
  LET d == checkSameStep(dedup, call)
      out == PrepareOutcome(d, call)
  IN  /\ phase = "batch" /\ ~authorizing /\ AtCall(call)
      /\ EntryOf(call) = {}
      /\ \/ /\ call.key \in Invalid
            /\ Record(call, "blocked", 0)
            /\ UNCHANGED <<dedup, authorizing>>
         \/ /\ call.key \notin Invalid /\ out # "runnable"
            /\ Record(call, out, 0)
            /\ dedup' = d
            /\ UNCHANGED authorizing
         \/ /\ call.key \notin Invalid /\ out = "runnable"
            /\ authorizing' = TRUE
            /\ dedup' = d
            /\ UNCHANGED <<pending, logVars>>
      /\ UNCHANGED <<vars, runnerVars, streamVars, taskVars, stopTurn, phase, aborted, gateVars>>

(* The authorize hook answers: the call is scheduled, or it is settled. *)
batchAuthorized(call, answer) ==
  /\ phase = "batch" /\ authorizing /\ AtCall(call)
  /\ answer \in Authorizations(call.key)
  /\ authorizing' = FALSE
  /\ entries' = Without(call)
  /\ IF answer = "allow"
       THEN /\ AddTask(call)
            /\ Record(call, "placeholder", added')
            /\ StopBatchIf(call.key \in StopsBatch)
            /\ OpenGate(call.id)
       ELSE /\ Record(call, answer, 0)
            /\ StopBatchIf(answer = "stop")
            /\ UNCHANGED <<vars, taskVars, gateVars>>
  /\ UNCHANGED <<stopped, leftover, streamVars, dedup, aborted>>

(* prepareSkippedToolCall(): a call behind the one that stopped the batch. *)
skipCall(call) ==
  /\ phase = "skipping" /\ AtCall(call)
  /\ \A i \in EntryOf(call) : Ready(entries[i])
  /\ entries' = Without(call)
  /\ Record(call, "skipped", 0)
  /\ UNCHANGED <<vars, stopped, leftover, streamVars, authorizing, stopTurn,
                 taskVars, phase, dedup, aborted, gateVars>>

(* finalizePendingToolResult and dispatchToolResult of the j-th call. *)
finalizePending(j) ==
  LET call == response[j]
      out == IF pending[j].task = 0 THEN pending[j].out ELSE TaskOutcome(pending[j].task)
      final == FinalOutcome(dedup, call, out)
  IN  /\ phase \in {"batch", "skipping"}
      /\ Len(pending) = Len(response)
      /\ ~MustWait(dedup, call)
      /\ dedup' = finalizeResult(dedup, call, out)
      /\ results' = Append(results, [id |-> call.id, out |-> final])
      /\ stopTurn' = (stopTurn \/ out = "stop" \/ final = "stop")
      /\ UNCHANGED <<vars, runnerVars, streamVars, authorizing, pending, calls,
                     taskVars, phase, aborted, gateVars>>

Awaited(j) == pending[j].task # 0 => TaskDone(pending[j].task)

\* Mutant: results are dispatched as the tools complete.
finalizeNext_AsCompleted ==
  \E j \in DOMAIN response :
    /\ response[j].id \notin IdsOf(results)
    /\ j \in DOMAIN pending /\ Awaited(j)
    /\ finalizePending(j)

\* Mutant: a result is dispatched without waiting for its tool.
finalizeNext_Unawaited ==
  Len(results) < Len(response) /\ finalizePending(Len(results) + 1)

(* Results are awaited and dispatched in provider order. *)
finalizeNext ==
  LET j == Len(results) + 1
  IN  /\ j <= Len(response) /\ Len(pending) = Len(response)
      /\ Awaited(j)
      /\ finalizePending(j)

(* drainInterruptedToolCalls()/recordUnexecutedToolCalls(): the response   *)
(* broke off.  A call that was not prepared is closed on the spot; any     *)
(* other is announced and then closed with what became of it.              *)
closeInterrupted ==
  LET j == Len(results) + 1
      call == response[j]
      prepared == {i \in EntryOf(call) : entries[i].st # "skipped"}
  IN  /\ phase = "interrupted" /\ Orphans = {}
      /\ j <= Len(response)
      /\ \A i \in EntryOf(call) : Ready(entries[i])
      /\ \/ /\ prepared = {}
            /\ calls' = Append(calls, call.id)
            /\ results' = Append(results, [id |-> call.id, out |-> "unexecuted"])
            /\ entries' = Without(call)
            /\ UNCHANGED <<dedup, gateVars>>
         \/ /\ Len(calls) < j
            /\ calls' = Append(calls, call.id)
            /\ \E i \in prepared :
                 IF entries[i].st = "deferred" THEN UNCHANGED gateVars ELSE OpenGate(call.id)
            /\ UNCHANGED <<results, entries, dedup>>
         \/ /\ Len(calls) = j
            /\ \E i \in prepared :
                 LET out == EntryOutcome(entries[i], "unexecuted")
                 IN  /\ EntryFinal(entries[i])
                     /\ dedup' = finalizeResult(dedup, call, out)
                     /\ results' = Append(results,
                                     [id |-> call.id, out |-> FinalOutcome(dedup, call, out)])
            /\ entries' = Without(call)
            /\ UNCHANGED <<calls, gateVars>>
      /\ UNCHANGED <<vars, stopped, leftover, streamVars, batchVars, taskVars,
                     phase, aborted>>

\* Mutant: the abort is checked before the open calls are closed.
seal_ChecksAbortFirst ==
  /\ phase \in {"batch", "skipping", "interrupted"}
  /\ aborted \/ Len(results) = Len(response)
  /\ phase' = IF aborted THEN "aborted" ELSE "sealed"
  /\ UNCHANGED <<vars, runnerVars, streamVars, batchVars, logVars, taskVars,
                 dedup, aborted, gateVars>>

(* The abort is checked once every call has its result, then step.end. *)
seal ==
  /\ phase \in {"batch", "skipping", "interrupted"}
  /\ Len(results) = Len(response)
  /\ phase' = IF aborted THEN "aborted" ELSE "sealed"
  /\ UNCHANGED <<vars, runnerVars, streamVars, batchVars, logVars, taskVars,
                 dedup, aborted, gateVars>>

---------------------------------------------------------------------------
(* Running tools and the user *)

ToolSettles(t) ==
  /\ settle(t)
  /\ UNCHANGED <<runnerVars, streamVars, batchVars, logVars, taskVars, phase,
                 dedup, aborted, gateVars>>

(* onUpdate: a running tool reports progress, which is held back until the *)
(* call has been announced.  One event per call is enough to tell.         *)
Progress(t) ==
  LET id == taskCall[t].id
  IN  /\ t \in (executed \cap activeTasks) \ settled
      /\ ~aborted
      /\ ReportsProgress /\ id \notin buffered \cup shown
      /\ IF id \in opened
           THEN shown' = shown \cup {id} /\ UNCHANGED buffered
           ELSE buffered' = buffered \cup {id} /\ UNCHANGED shown
      /\ UNCHANGED <<vars, runnerVars, streamVars, batchVars, logVars, taskVars,
                     opened, phase, dedup, aborted>>

TaskFinishes(t) ==
  /\ finish(t)
  /\ EnterStartedTasks
  /\ UNCHANGED <<runnerVars, streamVars, batchVars, logVars, taskCall, phase,
                 dedup, aborted, gateVars>>

Abort ==
  /\ ~aborted /\ phase \notin Ended
  /\ aborted' = TRUE
  /\ UNCHANGED <<vars, runnerVars, streamVars, batchVars, logVars, taskVars,
                 phase, dedup, gateVars>>

(* The step is over; only tools it no longer waits for may still run. *)
Over == phase \in Ended /\ UNCHANGED allVars

Answers == {"allow", "blocked", "stop", "aborted"}

Stream ==
  \/ \E key \in Key : \E n \in ProviderIds : StreamCall(key, n)
  \/ /\ phase = "streaming"
     /\ \E tail \in Tails : \E reason \in {"tool_calls", "paused", "filtered"} :
          StreamEnd(tail, reason)
  \/ AttemptFails
  \/ NextStep

Chain ==
  \/ prepareOne
  \/ \E answer \in Answers : chainAuthorized(answer)

Batch ==
  \/ drainOrphan
  \/ \E i \in DOMAIN response : materialize(response[i])
  \/ \E i \in DOMAIN response : prepareToolCall(response[i])
  \/ \E i \in DOMAIN response, answer \in Answers : batchAuthorized(response[i], answer)
  \/ \E i \in DOMAIN response : skipCall(response[i])
  \/ finalizeNext
  \/ closeInterrupted
  \/ seal

StepNext ==
  \/ Stream
  \/ RequestEnds
  \/ Chain
  \/ LeftoverPrepares
  \/ Batch
  \/ \E t \in Tasks : ToolSettles(t)
  \/ \E t \in Tasks : TaskFinishes(t)
  \/ \E t \in Tasks : Progress(t)
  \/ Abort
  \/ Over

(* After an abort the request is cancelled, hooks return and a tool that   *)
(* ignores the signal is cut off by the grace timer; before it nothing     *)
(* outside the loop is promised.  Microtasks always run.                   *)
StepFairness ==
  /\ WF_allVars(aborted /\ RequestEnds)
  /\ WF_allVars(aborted /\ Chain)
  /\ WF_allVars(aborted /\ Batch)
  /\ \A t \in 1..MaxTasks :
       /\ WF_allVars(aborted /\ t \in Tasks /\ ToolSettles(t))
       /\ WF_allVars(t \in Tasks /\ TaskFinishes(t))

StepSpec == StepInit /\ [][StepNext]_allVars /\ StepFairness

---------------------------------------------------------------------------
(* Properties *)

KeyOfTask(t) == taskCall[t].key
CallWith(id) == CHOOSE c \in {response[i] : i \in DOMAIN response} : c.id = id
MayWrite(key) == \E access \in AccessOf[key] : Writes(access)

(* dispatchToolCall/dispatchToolResult, runToolCallBatch,                  *)
(* drainInterruptedToolCalls: seen from outside the step is a              *)
(* StepTranscript.  Whatever finishes first, tool.call and tool.result     *)
(* events come in provider order under the ids of the final response, no   *)
(* two calls that wait for a result have one id, and no call is left       *)
(* without its result when the step ends, aborted or not.                  *)
Ids(s) == [i \in DOMAIN s |-> s[i].id]
Transcript ==
  INSTANCE StepTranscript
    WITH MaxBatch <- MaxCalls, response <- Ids(response), calls <- calls,
         results <- Ids(results), ended <- (phase \in Ended)
KeepsTranscript == Transcript!TSpec

(* checkSameStep: one tool with one set of arguments is entered at most    *)
(* once in a step, across all attempts, early starts and renamed ids.      *)
ExecutedOnce ==
  \A t, u \in executed : t # u => KeyOfTask(t) # KeyOfTask(u)

(* finalizeResult: a result that claims the tool ran is backed by a        *)
(* finished execution with the same tool and arguments in this step.       *)
OkMeansExecuted ==
  \A i \in DOMAIN results :
    results[i].out = "ok" =>
      \E t \in executed : /\ KeyOfTask(t) = CallWith(results[i].id).key
                           /\ TaskDone(t)

(* isStreamingEligible: a tool with side effects is only entered for a     *)
(* call of the final response, never for one of an attempt that failed.    *)
WritesOnlyForFinalCalls ==
  \A t \in executed :
    MayWrite(KeyOfTask(t)) =>
      phase # "streaming" /\ taskCall[t].id \in IdsOf(response)

(* gateProgressDispatch/wrapAnnounce: progress of a tool that was started  *)
(* early is seen only after its tool.call, and none of it is kept back     *)
(* once a call that ran is closed with its result.                         *)
ProgressFollowsCall ==
  /\ \A id \in shown : \E i \in DOMAIN calls : calls[i] = id
  /\ \A i \in DOMAIN results : results[i].out = "ok" => results[i].id \notin buffered

(* runRunnableToolCall/start: once the turn is aborted no tool is entered. *)
NoEntryAfterAbort == [][aborted => executed' = executed]_allVars

(* An aborted step always ends, whatever its tools and hooks were doing.   *)
AbortEndsStep == aborted ~> phase \in Ended

(* isStreamingEligible: an early start creates no ordering hazard, so      *)
(* calls with conflicting accesses are scheduled in provider order.        *)
ConflictsInProviderOrder ==
  \A t, u \in executed :
    \A i, j \in DOMAIN response :
      ( /\ i < j
        /\ taskCall[t].id = response[i].id /\ taskCall[u].id = response[j].id
        /\ <<AccessOf[KeyOfTask(t)], AccessOf[KeyOfTask(u)]>> \in Conflicts )
      => t < u

(* prepareSkippedToolCall: a call recorded as skipped was not executed. *)
SkippedMeansNotExecuted ==
  \A i \in DOMAIN results :
    results[i].out = "skipped" =>
      \A t \in executed : taskCall[t].id # results[i].id

(* "The loop - and everything downstream of it [...] - assumes per-response *)
(* id uniqueness" (uniquifyToolCallIds()): no two tool.call events of a    *)
(* step carry one id.                                                      *)
CallIdsUnique == IsInjective(calls)

(* drainOrphanedPreparations: the result of a discarded preparation        *)
(* belongs to a call that is not part of the final response.               *)
DiscardedIsNotFinal ==
  \A i \in DOMAIN results : results[i].out # "discarded"
=============================================================================
