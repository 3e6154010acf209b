# TLA+ models of Cloud Code

Cloud Code is a coding agent that runs in a terminal. The repository is a
TypeScript monorepo. Two packages carry the logic whose order of events matters:

* `packages/agent-core` drives the model through turns and steps, executes the
  tool calls of a step, queues prompts, and keeps inputs, goals and compactions
  consistent. It runs on one thread; the concurrency is that of promises: between
  two `await`s nothing interleaves, at every `await` anything else may run. The
  models take their atomicity from that.
* `packages/minidb` is the embedded database of the sessions: a write-ahead log, a
  snapshot and a lock file, shared by processes. Here an action is one call to the
  file system, and processes may die between any two.

Paths below are relative to `src/packages/agent-core/src/` unless they begin with
another package.

## 1. Inventory

### Components, their state and operations

| Component | Source | State | Operations | Status |
|---|---|---|---|---|
| Tool scheduler | `loop/tool-scheduler.ts`, `loop/tool-access.ts` | active and queued tasks of a step | `add`, `start`, `finish`, `startQueuedTasks`, `conflict` | modelled, proved |
| Tool calls of a step | `loop/tool-call.ts` | the streaming runner's entries, prepare chain and `stopped` flag; pending results; progress buffers | `addReady`, `prepareOne`, `materialize`, `drainOrphanedPreparations`, `runToolCallBatch`, `drainInterruptedToolCalls` | modelled, proved |
| Same-step deduplication | `agent/turn/tool-dedup.ts` | deferred per (tool, arguments), kind of each call | `beginStep`, `checkSameStep`, `registerSkipped`, `finalizeResult` | partly: loop guards left out |
| Model step, turn loop, retry | `loop/turn-step.ts`, `loop/run-turn.ts`, `loop/retry.ts` | step counter, attempts | `runTurn`, `executeLoopStep`, `chatWithRetry` | partly: media ladder and backoff are one "further attempt" |
| Turns of a session | `agent/turn/index.ts` | active turn, turn counter, steer buffer, parked rate-limit resume, recall arm | `prompt`, `steer`, `cancel`, `launch`, `turnWorker`, `driveGoal`, `runOneTurn`, `runStepLoop`, `onCompactionFinished`, `fireRateLimitResume` | partly: resume from records, print mode and PTL drain left out; the model is proved |
| Goal mode | `agent/goal/goal-mode.ts`, `tools/builtin/goal/` | the goal's status, turns used, budgets | `createGoal`, `pauseGoal`, `resumeGoal`, `cancelGoal`, `markBlocked`, `markComplete`, `incrementTurn` | partly: evidence gate left out; proved with the turns |
| Full compaction | `agent/compaction/full.ts`, `agent/context/index.ts` | the compaction in progress, the history | `begin`, `cancel`, `compactionWorker`, `block`, `markCompleted`, `applyCompaction`, `withdrawUnansweredTailInput` | partly: summarizer request is one action; proved with the turns |
| Graduated compaction | `agent/compaction/graduated.ts` | armed projection layers | `beforeStep`, `armForOverflow`, `armPtlDrain` | not modelled: token arithmetic |
| Permission, approval, questions, guardian | `agent/permission/`, `services/approval/`, `services/question/`, `agent/guardian/` | rules, pending requests | `beforeToolCall`, request, resolve, expire | planned |
| Background tasks, shell sessions | `agent/background/`, `agent/shell-session/` | tasks, output, PTYs | start, detach, finish, persist, reconcile | planned |
| Prompt service | `services/prompt/promptService.ts`, `session/rpc.ts` | the active prompt, the queue, the turn of each prompt, outcomes | `submit`, `steer`, `abort`, `abortBySession`, `_startPrompt`, `_startNextQueued`, `_handleBusEvent` | partly: closing a session and the shadow of suppressed setters left out; the model is proved |
| Cron | `agent/cron/` | schedules | fire, steer | planned |
| Swarm mailbox | `agent/swarm/` | mailbox files, team registry | send, read, ack | planned |
| Records and resume | `agent/records/`, `agent/replay/` | the append-only wire log | log, flush, replay | planned |
| MCP | `mcp/` | connections and their tools | connect, reconnect, close | planned |
| OAuth | `packages/oauth/` | tokens, refresh lock | refresh, store | planned |
| minidb engine | `packages/minidb/src/` `index.ts`, `wal.ts`, `snapshot.ts`, `compaction.ts`, `recovery.ts`, `store.ts` | store, WAL queue, log, snapshot, rotation | `set`, `del`, `batch`, flush, `compact`, `recover`, `open` | partly: eviction, `expire()`, `close()` and value pointers left out; the model is proved |
| minidb lock file | `packages/minidb/src/lockfile.ts`, `cluster/shard.ts` | the lock, watches and bids of contenders | `acquire`, `renew`, `release`, death of a process | modelled, proved |
| minidb readers | `packages/minidb/src/cluster/lock-pool.ts` | cached read-only instance and its fingerprint | `refreshReader`, `tryCatchUpReader`, `withReader` | partly: writer leases and joined reads left out; the model is proved |
| minidb query layer | `index-manager.ts`, `text-index.ts` | derived indexes | | not modelled: pure data structures |
| Server | `packages/server/` | event journal, subscriptions | append, replay | planned |
| Hooks, subagents, injections | `session/hooks/`, `session/subagent-*.ts`, `agent/injection/` | | | hooks are nondeterministic answers; the rest is not modelled |
| kosong, transcript, protocol, kaos, node-sdk, pi-tui, apps | the other packages | | | not modelled: wire formats, pure reducers, type declarations, I/O, rendering |

### How they interact

A client calls `prompt`, `steer`, `cancel`, the goal commands or
`begin/cancelCompaction` over RPC. `launch` starts one worker; the worker runs one
turn, or drives an active goal as a series of turns. A turn appends its prompt,
asks the prompt hook and runs steps. Before each step the history may be compacted
and steered inputs are flushed; the step sends the request, the provider streams
back, and every tool call goes through the streaming runner, the deduplicator,
the authorize hook and the scheduler. Results go back into the history. Compaction
runs beside the session when the user asks for it and inside a step when the
history is long; when it ends it hands deferred inputs back to `launch`.

The prompt service sits in front of the agent: clients of the server submit
prompts, which it queues and hands to the agent one at a time by RPC; from the
`turn.started` and `turn.ended` events that come back it tells which prompt a turn
belongs to and when that prompt is over. The two only share those calls and
events, so each acts on what the other was a moment ago.

minidb is used by several processes. One of them holds the lock of a shard and
writes; the others keep a cached reader, look at the files' fingerprint before
every read, and catch up with the log or open the files again. The writer's
compaction replaces both files while writers and readers go on.

### What is hard

* `cancel` forgets the active worker at once, while that worker is still
  unwinding: the next worker runs beside it, and both touch the goal, the steer
  buffer, the history and the recall arm. The same holds for a cancelled
  compaction.
* Four activities share the state of a step: the stream, the prepare chain, the
  batch and the running tools; a failed request leaves preparations behind that
  the next attempt meets.
* `finalizeResult` of a duplicate waits for another call and looks at no signal.
* A timer fires when the session has moved on.
* RPC calls overtake each other (`prompt` awaits a metadata write that `cancel` does
  not), fail, and answer after the turn they are about.
* The lock file has no atomic compare-and-swap to build on: a take-over is a rename
  over whatever is there, made safe by watches and a settle loop, in which every call
  may fail and every process may die.
* While tool calls await their results, messages are parked; whoever closes the
  exchange - the results, the end of a turn, the next step, a compaction - decides
  what becomes of them.
* A fuzzy snapshot, a group commit and a two-file rotation must together be
  recoverable after a crash at any step, also when one of the steps fails.

What makes each part correct is stated with its properties in section 3;
`PROJECT.json` lists the hazards line by line.

## 2. Modules

```
ToolAccess <- ToolScheduler <- ToolSchedulerProofs
                    ^   ^----- MCToolScheduler
SameStepDedup <- ToolCallStep <- MCToolCallStep
                    |    ^------ ToolCallStepProofs -> ToolSchedulerProofs
                    '--INSTANCE--> StepTranscript
GoalMode, FullCompaction <- TurnFlow <- TurnFlowProofs
PromptService <- PromptServiceProofs
LockFile <- LockFileProofs
    ^------ MCLockFile
MiniDb <- MCMiniDb, MiniDbReader <- MCMiniDbReader
    ^---- MiniDbProofs <- MiniDbReaderProofs -> MiniDbReader
QueueLemmas <- ToolSchedulerProofs, ToolCallStepProofs, TurnFlowProofs, PromptServiceProofs, MiniDbProofs
```

* **ToolAccess** (`tool-access.ts`). Paths are sequences of separators and names;
  `normalizePath` folds, collapses and strips them as the source does. `Touches`
  gives an independent meaning of an access as a set of files.
* **ToolScheduler** (`tool-scheduler.ts`). Tasks are numbered by their `add()`;
  `settle` is a tool's promise, `finish` the callback that removes it and starts
  queued tasks. The actions use a set comprehension (`Startable`) for the loop of
  `startQueuedTasks`; the loop itself is a fold of `Visit` over the queue, and
  `StartableIsTheLoop` says that both start the same tasks.
* **SameStepDedup** (`tool-dedup.ts`). Pure operators on the deduplicator's record.
* **ToolCallStep** (`tool-call.ts`, `turn-step.ts`, `retry.ts`). Extends the
  scheduler and uses the deduplicator. Actions: `StreamCall`, `StreamEnd`,
  `AttemptFails`, `RequestEnds`, `NextStep` (provider and loop); `prepareOne`,
  `chainAuthorized`, `LeftoverPrepares` (prepare chain); `drainOrphan`,
  `materialize`, `prepareToolCall`, `batchAuthorized`, `skipCall`, `finalizeNext`,
  `closeInterrupted`, `seal` (batch); `ToolSettles`, `TaskFinishes`, `Progress`,
  `Abort`. Results are outcomes (`ok`, `blocked`, `stop`, `skipped`, `unexecuted`,
  `discarded`, `aborted`). Tasks whose result is known already have no accesses in
  the source and never wait; they bypass the scheduler here. The ids of a response may
  repeat (`DuplicateIds`); they are made unique (`uniquifyToolCallIds`) except where the
  source records the response as it came: one that broke off while the runner has
  nothing of it (`RecordedRaw`).
* **StepTranscript**. What a step promises from outside: calls and results are recorded
  one by one in provider order, a call is left open for its result only in a response
  whose ids are distinct, and none is left open when the step ends. The turn then goes on with another step (`NextStep`),
  which may also take the place of one given up before it had a response.
  `KeepsTranscript` states that ToolCallStep implements it.
* **GoalMode** (`goal-mode.ts`). Operators on the goal's record: status and turns
  used against one budget.
* **FullCompaction** (`full.ts`, `context/index.ts`). The history is a sequence of
  inputs (numbers) and everything else (0); compactions are `summarizing`, then
  `reinjecting`, then over. `compacting` names the one the agent regards as current.
  `exchange` says whose tool calls await their results; meanwhile `appendMessage` parks
  what it is given (`parked`, the source's `deferredMessages`), and `applyCompaction`
  drops what is parked (`dropped`, a history variable).
* **TurnFlow** (`turn/index.ts`). Composes goal and compaction with the turns.
  A worker is a record with a program counter (`prompt`, `hook`, `loop`,
  `compacting`, `request`, `tools`, `overflow`, `afterStop`, `stopHook`, `done`).
  `stepBegin` and `withdrawInput` close an exchange that somebody left open, and with
  it let the parked messages go into the history. Reminders
  are left out of the history; awaits that only pass a microtask (the goal store)
  do not split an action.
* **PromptService** (`promptService.ts`, `session/rpc.ts`, and of `turn/index.ts` only
  what the service can see of the agent). Calls under way are a set, events a
  sequence. Actions of the service: `submit`, `controlsApplied`/`controlsFail` (the
  setters before a prompt), `abort`, `abortQueued`, `abortBySession`,
  `cancelReturns`/`cancelFails`, `steer`, `steerFails`, `promptFails`,
  `turnStarted`, `turnEnded`; of the agent: `agentPrompt`, `agentSteer`,
  `agentCancel`, `endTurn`, `goalContinues`, `continuationStarts`, `foreignTurn`. A
  call that fails has not reached the agent. A steer may name a prompt more than once
  (`twice` remembers which), and puts it back as often when its call fails; behind such
  a state, which would start one prompt twice, the model stops (`Followed`).
* **LockFile** (`lockfile.ts`). A user is one `LockFile` object; `ProcOf` says in which
  process it lives, and several may share one. Every action is one file-system call and
  has an outcome for its failure; the lock is the pid it records. `die` ends a process
  at any moment and leaves its files. What the protocol does not withstand is in the
  model like everything else, and recorded in the history variable `mishaps`:
  `abandonedBid` (a contender disappears beside its winning bid), `overlookedWatch` (a
  claim beside a contender that was not seen), `strayRenewal` (a renewal lands after its
  user has let go), `keptLock` and `keptWatch` (an unlink failed and was ignored).
* **MiniDb** (the engine). An operation is a set, a delete or a batch; its number is
  the value it writes and its frame in the log. `commit` is the synchronous part of a
  write (append and apply), `flushStart`, `flushFrame`, `flushEnd`, `flushFails` the
  group commit, `fence` to `openFresh` the phases of a compaction, `compactFails` its
  catch, `reap` the removal of a record whose TTL has elapsed, `kill` and `powerLoss`
  the two kinds of crash, each followed by recovery. `AfterPowerLoss` is the set of disks a power failure may leave: unsynced frames and
  renames may or may not be there.
* **MiniDbReader** (`lock-pool.ts`). Extends MiniDb with a cached reader whose steps
  interleave with those of the writer, a rotation between the two reads of an open
  included; `reader.torn` remembers that one replaced `db.wal` there.

## 3. Runs

| Run | Bounds | Shows |
|---|---|---|
| `scheduler` | 4 tasks, 8 access lists with two spellings of one directory, a file below it and the root | `TypeOK`, `NoSharedWriteOverlap`, `RunsExactlyUnblocked`, `StartableIsTheLoop`, `EveryTaskFinishes` |
| `batch` | 3 calls of a read, an edit and a reviewed tool, one attempt, fresh ids | `NoEntryAfterAbort`, `AbortEndsStep` |
| `retry` | 2 calls, 2 attempts, repeated ids, progress, interrupted responses | `KeepsTranscript`, `ExecutedOnce`, `WritesOnlyForFinalCalls`, `ProgressFollowsCall`, `AbortEndsStep` |
| `odd` | 2 steps of 2 calls sharing the deduplicator; invalid, unresolvable and batch-stopping tools | `OkMeansExecuted` across steps, `SkippedMeansNotExecuted` |
| `turns` | 2 inputs, 1 step a turn, 1 automatic retry, 2 goals one after the other with a budget of 1 turn each, rate limits, cancels that take the input back | `FlowTypeOK`, `OneLiveTurn`, `CancelledDriverStops`, `NoTurnPastBudget`, `ResumeBudget`, `ParkedForLastTurn`, `InputConserved` |
| `compaction` | 2 inputs, 2 compactions, blocking hook, open tool calls | `InputConserved`, `CancelledTurnEnds`, `CompactionEnds` |
| `prompts` | 3 prompts, one of them with controls, and any 2 of: abort, steer, foreign turn, failed call | `PromptTypeOK`, `OneOutcome`, `SentOnce`, `OwnTurn`, `FifoOrder`, `QueueHasAStarter`, `PromptsSettle` |
| `lock` | 3 processes, one attempt each, every call may fail, a missing lock or that of a dead owner | `LockTypeOK`, `MutualExclusion`, `LockHasAnOwner`, `AttemptEnds` |
| `minidb` | 2 operations out of 4 kinds on 2 keys, one with a TTL, both fsync policies, 1 compaction, and one each of: failed write, failed compaction, crash | `RecoversAPrefix`, `AckedWritesSurvive`, `MemoryIsDurable` |
| `readers` | 2 operations, 1 compaction that may fail, 2 reads | `ReadsAPrefix`, `EveryWriteAnswered` |

Three calls let a third one conflict with, duplicate or follow the stop of another
two; two attempts are one retry; two inputs are two workers, one unwinding beside
the other; two goals are one that takes the place of the other while the turn of the
first unwinds; two compactions are one unwinding beside the other. Three prompts are one
that runs, one that waits and one that comes in between; two troubles are an abort
racing a failure, or a steer racing a foreign turn. Three processes are two that
find the same dead owner and a third that comes when they believe to be done. Two
operations are one on each side of every boundary (fence, copy, seal, rename) of one
compaction. Larger instances repeat these meetings. Each question has its own bounds
because their product is out of reach. No symmetry is used: keys, inputs and
prompts are not interchangeable, and liveness is checked for the processes.

**Fairness.** ToolScheduler: a tool's promise settles and its callback runs.
ToolCallStep: callbacks run; only after an abort are the request, the hooks and
the tools assumed to return (`raceExecuteWithGraceTimeout` bounds a tool that
ignores the signal), which is what `AbortEndsStep` needs. TurnFlow: some enabled
worker or compaction moves on, and the timer fires; the user owes nothing.
PromptService: events are delivered, calls are carried out or answered, a turn
ends; nobody has to submit, abort or fail. LockFile: an `await` inside `acquire()`
returns, and the rename that Windows refuses is given up after 50 attempts, hence
the strong fairness of `renameBid`; nobody has to acquire, release or die.
MiniDbReader: flushes, a rotation that has begun, writers and a reader's open go
on; nobody has to write, compact or read.

`CHECK_DEADLOCK FALSE` where a bounded system may come to rest: all operations used
up and everything finished (`scheduler`, `prompts`, `lock`, `minidb`, `readers`), a
session left idle for good (the TurnFlow runs), and in `odd` and `leftover`, where
the second step may hang on a leftover of the first (that hang is what `leftover`
shows).

**Premises of the properties.** Where the code does not keep a promise in some course of
events, that course is in the model and the property names it:

* `OwnTurn`, `FifoOrder` and `PromptsSettle` speak of the plain course of events
  (`Undisturbed`: no abort of a running prompt, no steer, no foreign turn, no overlap of
  two starts; calls may fail for `OwnTurn`), `QueueHasAStarter` of behaviours without
  failed calls. `SentOnce` excepts the prompts one steer named twice. `OneOutcome` has
  no premise, but the model stops where a prompt would be started for the second time
  (`Followed`), and says nothing of what comes behind.
* `MutualExclusion` holds until one of the first three mishaps of the lock has happened,
  `LockHasAnOwner` until `abandonedBid`, `strayRenewal` or `keptLock` has, `AttemptEnds`
  excepts `keptWatch`.
* `InputConserved` counts the inputs that `applyCompaction` drops with the parked
  messages as being in a place of their own.
* `ReadsAPrefix` excepts an instance that was opened across a swap of `db.wal` (`torn`).
* `KeepsTranscript` lets a response with repeated ids be recorded only where each call
  is closed on the spot.
* `SkippedMeansNotExecuted` holds of instances like that of `odd`: fresh ids, and no
  reviewed call that is deferred until after the stream. It is checked, not proved.

What happens outside of these is listed below. `RecoversAPrefix`,
`MemoryIsDurable` and `ReadsAPrefix` speak of logs without failed writes, `AckedWritesSurvive`
of all, except for keys of which a delete has failed (`NoFailedDel`). A rename is taken as
undone by a power failure only while the rotation that made it has yet to fsync the
directory (`ProtectedDisks`, which follows the two renames with `SnapRenamed` and
`WalRenamed` until the writer is open again); see below for renames of a killed process.

### Findings

Each of these runs checks a sentence of the source and finds it broken.

| Run | Sentence | What happens |
|---|---|---|
| `leftover` | dedup deferreds "cannot wedge" (`loop/tool-call.ts:834-840`) | a preparation of an abandoned step registers with the next one; the step hangs, abort or not |
| `reader` | "a read that starts after another process's write resolved always observes it" (`lock-pool.ts:21-22`) | a frame that lands between a reader's replay and its fingerprint is never read until the next write |

Further configurations reproduce disagreements of the same kind; TLC reports
the violation when they are run as `tlc -config V_X.cfg <module>`:

| Configuration, module, property | Sentence | What happens |
|---|---|---|
| `V_Holder`, MCLockFile, `ExactlyOneHolder` | the watch check makes "exactly-one a construction, not a timing bet" (`lockfile.ts:155-158`) | A sees its own pid in the lock; B's bid overwrites it; B dies, or its next look at the lock throws (153); A finds no live watch and holds; when B is dead the lock names it, and C takes the lock over and holds too. An unreadable directory (186), two users in one process (189) and a late renewal (`cluster/shard.ts:58-60`) do it as well |
| `V_Order`, MCToolCallStep, `ConflictsInProviderOrder` | an early read has no "ordering hazards" (`loop/tool-call.ts:800-807`) | `[Edit a, Read a]`: the read starts during the stream, the edit after it |
| `V_Discard`, MCToolCallStep, `DiscardedIsNotFinal` | a discarded call "was not part of the final response" (`loop/tool-call.ts:774-784`) | a retried call takes the result of the discarded preparation |
| `V_RawIds`, MCToolCallStep, `CallIdsUnique` | "everything downstream" of the loop assumes unique ids in a response, so repeated ones are renamed (`loop/tool-call.ts:152-157`) | a response that breaks off while the runner has nothing of it is recorded as it came (`loop/turn-step.ts:453-457`, `loop/tool-call.ts:277-284`): two `tool.call` events carry one id |
| `V_Rename`, MCToolCallStep, `AbortEndsStep` | renaming repeated ids "fixes both" (`loop/tool-call.ts:160-163`) | with `[id1:a, id1:b, id2:b]` streamed, `addReady` ignores the second `id1`, `id2` registers first, and the renamed call waits for the result of one behind it |
| `V_Replay`, TurnFlow, `ReplayNotHeldBack` | "`compacting` is null by now in every path" (`agent/compaction/full.ts:405-408`) | a newer compaction has begun |
| `V_Deferred`, TurnFlow, `DeferredNotStuck` | "never lost or stuck" (`agent/turn/index.ts:515-524`) | the first deferred turn ends early, the second input stays |
| `V_Parked`, TurnFlow, `OnlyRemindersDropped` | the dropped messages are "mostly injections/system reminders", which are "rebuilt every turn" (`agent/context/index.ts:552-556`) | a turn is cancelled while its tool calls await their results and a manual compaction begins; a prompt whose media were still being resolved lands now and is parked behind those calls; the summary is applied before they are answered and drops it: neither the history nor the summary has it |
| `V_Restore`, MCMiniDb, `FailedDelsAreSkipped` | the restore is skipped when "a later same-key op committed" (`minidb/src/index.ts:981-988`) | `[set a, del a]`, then a second `del a` that passed its check before the first was applied. The write of the first two fails; the key is absent, so `restoreKey` takes the second delete's result for its own and puts the old record back. The second delete is acknowledged, the next compaction writes the record into the snapshot |
| `V_Diverge`, MCMiniDb, `NeverDiverges` | after a failed write the store is rolled back "so in-memory state never diverges from what is durable" (`minidb/src/index.ts:795-797`) | the fsync fails when the frame is in the file already: the store goes back, the file keeps the frame, and a restart brings the rejected write back |
| `V_Torn`, MCMiniDbReader, `NoOpenIsTorn` | an open that races a rotation is tried again (`lock-pool.ts:304-305`) | it only is if it fails; with the swap of `db.wal` between the two reads it does not, and the reader joins the old snapshot to the new log |

Disagreements met outside the premises and in other instances:

* `loop/tool-call.ts:235-237`, past a stop no "other entry kind" appears: a read
  that ran during the stream is recorded as skipped behind a rejected
  `ExitPlanMode`, which is only authorized after the stream.
  `SkippedMeansNotExecuted` holds in `odd` because no call there is both deferred
  and reviewed. A repeated id does the same: in `[id1:a, id1:halt, id2:read]` the
  runner ignores the second call, so the read starts, and the stop is only found by
  the batch. The instance of `odd` has neither.
* `loop/tool-call.ts:741`, skipped "because a previous tool call stopped the turn":
  `prepareOne` sets `stopped` before the stopping call is authorized (1018); if the
  authorization blocks it, nothing stopped.
* `agent/turn/tool-dedup.ts:440`, "the original finalizes first": a call skipped by
  the runner is registered only at its finalization, behind an identical later call
  that ran because the stop was blocked; it waits for that one.
* `agent/turn/index.ts:471-478`, "a stale copy must not flush into a later turn":
  `launch` (295) disarms the recall when a prompt races the unwinding turn.
* `agent/context/index.ts:390-398`, the recall "is a no-op" if the prompt never
  landed: it takes back the unanswered input of an earlier cancelled turn.
* `agent/goal/goal-mode.ts:443-450`, parks a goal "when its live turn is aborted": a
  late unwind (`turn/index.ts:730`) parks the goal that a newer turn drives.
* `agent/turn/index.ts:1097`, the budget stop: a turn that has stopped for its goal's
  budget ends "completed" although it was cancelled, since `shouldContinueAfterStop`
  (1151) returns before it looks at the signal. If a new goal has replaced the spent one
  by then, `driveGoal` starts one more turn under the aborted signal; that turn ends
  cancelled at once and pauses the new goal. An attempt to prove that a cancelled driver
  starts no further turn failed here, and TLC shows the course as soon as there are two
  goals. `CancelledDriverStops` therefore names this one case, and `ParkedForLastTurn`
  allows later turns of cancelled workers.
* `agent/turn/index.ts:1250`: a notification steered while the Stop hook runs stays in
  the buffer until the next prompt.
* `services/prompt/prompt.ts:39-47`, "On the FIRST turn.started after a submit, we
  associate promptId and turnId": that turn need not be the prompt's. It is another
  one after a foreign turn or a goal continuation, after an abort followed by a submit
  (the new prompt captures the cancelled turn), and after a steer that races the end
  of the turn (`OwnTurn` without `Undisturbed`). A goal driver also holds the agent
  between its turns, so the next queued prompt is refused and takes the
  continuation's turn for its own.
* `promptService.ts:446-463`: a failed call frees `_active` but does not start the
  queue. A later submit overtakes the prompts that wait (`FifoOrder`), and without one
  they wait for good (`QueueHasAStarter`). An abort lets a submit overtake them too
  (347-356).
* `promptService.ts:347-356`: two submits with controls both pass the check of
  `_active` before either has set it (424-430); the second overwrites the first.
* `promptService.ts:505-520`: if the cancel call fails after `turn.ended` was ignored on
  its account, the prompt never gets an outcome. A prompt the agent refused stays
  "running" with no turn.
* `session/rpc.ts:134-139`: a cancel overtakes the prompt it is for; the prompt is
  reported aborted and runs all the same.
* `promptService.ts:380-398`, `964-969`: nothing, not even the schema
  (`protocol/src/rest/prompt.ts:88-90`), keeps a steer from naming one prompt twice. Its
  content is then sent twice in one call. If that call fails the prompt is put back
  twice: it would be started twice and completed twice, the second time as a record that
  is already completed. The model has the first half and stops at the second.
* `lockfile.ts:276-279`: an unlink that fails in `release()` is swallowed. The file goes on
  naming a live process that holds nothing, and since a live owner is respected nobody,
  that process included, gets the lock again before it dies (`keptLock`).
* `lockfile.ts:165`: so is that of a watch; a contender with a bid in place then waits
  for a process that is not in its way (`keptWatch`).
* `lockfile.ts:33-35` speaks of two users in one process, but a process's own pid and
  watches are not foreign to it (189): both may hold. Put them there with
  `ProcOf <- TwoUsersInOne` in `V_Holder.cfg`.
* `agent/context/index.ts:387-394`, the recall takes an input back that has produced no
  output: `step.begin` (`loop/turn-step.ts:180`) records the message of the step before
  the request is sent, so from then on the input is answered, and a recall leaves it.
* `lock-pool.ts:274`: a read joins a refresh that looked at the files before the write
  it should see. Not in the model, where a read is one refresh.
* A reader's strict catch-up (`recovery.ts:220`) stops at a torn frame that recovery
  would skip; the frames behind it are seen after the next reopening.
* `wal.ts:157`: of two rejected writes of one key, memory may keep the first.
* `open()` does not fsync a rename that a killed process left behind, and `fsyncDir`
  (`compaction.ts:101`) swallows its error, so a later power failure may undo one of
  two renames.

The instances of `batch` and `retry` leave out the combinations shown to hang: three
calls with repeated ids (`batch` has three calls and fresh ids, `retry` repeated ids and
two calls), a stop that is blocked before two identical calls, and leftovers of an
abandoned step. `AbortEndsStep` holds there because of that.

## 4. Proofs

Every theorem holds for all values of the constants that meet the named assumptions
in the modules. They give types, with two exceptions about paths: `ToLowerCaseAssumption`
says what folding case does, and `AccessListsAssumption` what `canonicalizePath` ensures
(see below). Where the code breaks a promise, no assumption keeps it from doing so: the
property names the exception (section 3), and the theorem is about all behaviours of the
model. One bound cuts off more than a counter: `Followed` in PromptService. What the
models leave out is in section 5. Each inductive invariant is a conjunction of named
parts.

### ToolScheduler

`ToolSchedulerProofs` proves, for any number of tasks and any access lists:

* `SchedulerTyping` (`TypeOK`), `SchedulerExact` (`RunsExactlyUnblocked`),
  `SchedulerNoRestart` (no step puts a started task back into the queue, and no
  finished one returns), and
* `SchedulerExclusion`: two running tools never conflict,
* `SchedulerSafeFiles` (`NoSharedWriteOverlap`): two running tools never share a file
  that one of them may change, whatever the spelling of their paths, and
* `SchedulerLoop` (`StartableIsTheLoop`, and that a queue in the order of the `add()`
  calls exists): the loop over the queue starts what `finish` starts.

`RunsExactlyUnblocked` is inductive together with the types and with `Disjoint`
(no task is both active and queued): without it `finish` could not be shown to
leave a task in one place only. Adding a task changes nobody else's earlier tasks;
finishing one removes it from everyone's, and starting a queued task does not
change the set of pending tasks. Exclusion also needs that `conflict` is
symmetric (`ConflictSymmetric`), since the invariant only speaks of the later
task.

`SchedulerSafeFiles` follows from `SharingConflicts`: access lists that share a written
file conflict. What `CollapseSlashes` and `FileOf` compute is a fold, so both are
followed token by token (`CollapseTrace`, `NamedTrace`): after each token the collapsed
path is the one spelling (`Spells`) of the names read so far, with or without a separator
in front and perhaps one behind (`CollapseSpells`). Hence a normalized path determines
its file and back (`NormalForm`, `SpellingUnique`), a path below a directory begins with
the directory's prefix and its separator (`SpellsBelow`), and two accesses that touch a
common file overlap (`TouchingOverlap`). For `SchedulerLoop` the loop is traced in the
same way (`VisitTrace`): after i tasks its two arrays hold the first i, divided as
`Startable` divides them, because each task is tested against all earlier ones, wherever
they went (`LoopIsStartable`).

Assumptions: `MaxTasksAssumption`; `ToLowerCaseAssumption` (folding is idempotent and no
name is a separator); `AccessListsAssumption`: paths are not empty, have a separator
between two names and are all absolute in the same way, beginning with a separator or
with a drive. `canonicalizePath` (`tools/policies/path-access.ts:103-129`) ensures this
for what tools declare. Without it the claim is false: `a` and `/a` are different
normalized paths of the same names.

### LockFile

`LockFileProofs` proves, for any number of users in any processes and of attempts:

* `LockTypeCorrect` (`LockTypeOK`), `LockMutualExclusion` (`MutualExclusion`) and
  `LockOwned` (`LockHasAnOwner`).

`LockFileAssumption` only gives types: processes die anywhere, every call may fail,
renewals may land late and users may share a process. The mishaps that defeat the
protocol are recorded when they happen and end what the two properties say; so the
theorems tell which failures these are, and that there are no others. TLC violates each
property if any one of its mishaps is taken off its list.

`MutualExclusion` says nothing about the file, so it is not inductive.
`HolderInFile` (a holder's pid is in the file) gives it at once, since two pids are
not in one file. What can take a holder's pid out of the file is a rename of a bid:
`HolderAlone` excludes that anyone still bids beside a holder. When a bidder becomes
the holder this follows from the watch check, because a contender has its watch from
its first step to its last (`LockTypeOK`) and only the watches of the dead are
reaped; where the check misses one, that is the mishap `overlookedWatch`. When
`tryCreate` makes a holder it follows from `BidOverFile` (whoever bids does so over a
file, so there is nothing to create). `PlacedInFile` (while bids
settle, one of their owners is in the file) keeps a newcomer from seeing a dead owner
again in between. Each of these parts speaks of the states before a mishap
(`Undisturbed`). `LockHasAnOwner` has its own list, without `overlookedWatch`: not even
two holders at once leave a lock behind that names a live process without a user.

### ToolCallStep

`ToolCallStepProofs` proves, for any number of calls, attempts and steps, any access
lists and any choice of invalid, reviewed, batch-stopping and unresolvable calls:

* `StepKeepsTranscript`: the step implements StepTranscript (`KeepsTranscript`), with
  streams, retries, early execution, deduplication, repeated ids and aborts in between;
* `StepExecutedOnce`: of the identical calls of a step and its attempts, one reaches
  its tool;
* `StepWritesOnlyForFinalCalls`, `StepOkMeansExecuted`, `StepNoEntryAfterAbort`;
* `StepProgressFollowsCall` (`ProgressFollowsCall`): the gate in front of an early
  tool's progress opens with its `tool.call` and holds nothing back for good;
* `StepSchedulerExact`: what `SchedulerExact` says of the scheduler alone holds of the
  scheduler as the step drives it. The inductive invariant of ToolSchedulerProofs is
  used as it stands; only the actions that call it are new.

Assumptions: `StepAssumption` and `MaxTasksAssumption`. The invariant `StepInv` is
that of the scheduler together with

* `RunnerOK`, `RecordsOK`: types, and that every `add()` has its call on record;
* `LogOK`: what is recorded is a prefix of the response. Results never pass calls, and
  an interrupted step has an announced call without a result only while the
  preparation that answers it is there. Ids may repeat (`Distinct` fails) only in a
  response that broke off with nothing in the runner (`Raw`), and then no result says
  that a tool ran (`NoneRan`). The refinement needs exactly this;
* `WritesOK`: a tool that may write has a task only for a call of the final response,
  and none is authorized during the stream;
* `IdsOK`: one entry per id, and the call the response has under an entry's id is the
  entry's. This is why the first of several calls under one id must keep it in
  `uniquifyToolCallIds`: `addReady` made its entry for that one;
* `ClaimsOK`: per key at most one claimant (a preparation that waits for its hook or for
  the batch, or the call the batch is authorizing), none once the key has a task, and
  the deduplicator knows the key. `ExecutedOnce` speaks of tasks only, and says
  nothing of the two preparations that could both become one;
* `DoneOK`: entries and pending results name tasks of their own key, and behind every
  deferred that is resolved with "ok" and every result "ok" there is a task that ran.
  A duplicate's "ok" is a copy, so the fact must be followed from the original through
  the deferred to the copy.

Another invariant is inductive beside `StepInv`, `GateInv` for the progress:

* `GatesOK`: only announced calls have an open gate and nothing is kept behind one;
* `UnopenedOK`: an announced call whose gate is closed although its tool has a task is
  one that the batch skips, so it never gets the result "ok". There is such a call, in the
  disagreement above, and the property survives it;
* `HomeOK`: the id of a task is that of a started entry, of an announced call, or of a
  preparation that no call of the response answers to. An announced call has no entry
  (`AnnouncedOK`), so its gate cannot be forgotten by a preparation still under way;
* `HeldOK`: until its call has a result the deduplicator has the id of whoever may
  execute it as that of an original. A call with a task is therefore never taken for a
  duplicate and given the "ok" of another one behind its closed gate;
* `LeftoverOK`: a preparation that an abandoned step left behind has an id of its own,
  so that what it registers with this step's deduplicator changes none of these.

The refinement is a sequence of lemmas (`Unseen`, `Announcing`, `Answering`, `Closing`,
`Ending`, `Receiving`), one for each thing an action can be when seen from outside.

### TurnFlow

`TurnFlowProofs` proves, for any number of inputs, goals, steps, attempts and
compactions, `FlowTypeCorrect` and

* `FlowOneLiveTurn` (`OneLiveTurn`), `FlowCancelledDriverStops`,
  `FlowNoTurnPastBudget`, `FlowResumeBudget`, `FlowParked` (`ParkedForLastTurn`);
* `FlowInputConserved` (`InputConserved`): no race of turns, compactions, cancels and
  recalls drops or doubles an input, except that `applyCompaction` drops what is parked
  behind open tool calls.

Assumptions: `GoalAssumption`, `FlowAssumption`, `MaxCompactionsAssumption`. Parts of
the invariant: `ContextOK`, `ExchangeOK` (an open exchange is that of a worker),
`CompactionOK`, `WorkersOK` (types, the turn of a worker is one that was given out, a
step that is asked for is within bounds), `ResumeOK`
(retries against pauses; `autoResumes` may be one ahead, because a cancelled turn that
still completes resets the pauses while a retry is parked), `TurnsOK` (the active turn
is one that runs uncancelled, and later turns belong to cancelled workers) and
`PlacesOK`. The last one gives every input one home and says that it is there once;
history and parked messages are one line (`Line`), since the end of an exchange joins
them without a change of order. `InputConserved` counts the places instead, which the provers do not follow from step
to step, so the count is derived at the end (`PlacesCount`). Most actions do one of a
few things to workers, active turn and parked retry. `Shaped` names these (`Rests`,
`Proceeds`, `Launches`, `Finishes`, a cancel); each action is shown to have a
shape and each shape to keep the invariant.

### PromptService

`PromptServiceProofs` proves, for any number of prompts and any amount of trouble,
`PromptTypeCorrect`, `PromptOneOutcome`, `PromptSentOnce`, `PromptQueueHasAStarter`,
`PromptOwnTurn` and `PromptFifoOrder`. The premises of the last three are those of the
properties (section 3). Assumption: `PromptAssumption`. Parts of the invariant:
`AgentOK` and `ServiceOK` (types; the queue holds exactly the queued prompts), `OnceOK`
(a prompt is in the queue or in a steer more than once only if one steer named it so),
`CallsOK` (a prompt under way is in one call, and its state says which), `SentOK`, `OutcomeOK` (who may still report a prompt: the end of its turn or the one
cancel call, never both), `CountersOK` (a trouble that did not happen has left no
trace: this is how a premise about counters speaks of the state), `OneAtATime` (in the
undisturbed course, service, calls, agent and events are together in one phase of one
prompt's turn) and `InOrder` (the prompts sent, the one being started and the queue follow
each other in the order of submission).
`QueueHasAStarter` is inductive beside these.

`QueueLemmas` has what TurnFlow, ToolCallStep and PromptService need of sequences without
repetition: the members after a push, a concatenation, a pop and a removal, and that an
increasing sequence stays one; and the facts on folds that MiniDb and ToolScheduler need.

### MiniDb

`MiniDbProofs` proves, for any keys, any operations and any number of TTLs, compactions,
failures and crashes:

* `RecoveryFindsAPrefix` (`RecoversAPrefix`), `AcknowledgedSurvives`
  (`AckedWritesSurvive`) and `StoreIsDurable` (`MemoryIsDurable`, which like the first
  speaks of logs without failed writes; `V_Diverge` shows why), all from
* `MiniDbInvariant`, the inductive invariant `DbInv`.

The only assumption, `MiniDbAssumption`, gives the types of the constants.

Recovery folds frames into a store. The provers cannot instantiate the library's
induction theorems, which take a predicate, so `QueueLemmas` states induction for a set
of numbers (`InductionOnNat`, from the well-foundedness of the naturals) and proves with
it that the function a fold chooses exists (`IterationExists`) and is unique
(`IterationUnique`). `ReplayIsValue` and `ApplyIsValue` then give both folds of the model
in closed form: a key ends up with what the last frame that touches it put there (`Kept`).
From there on nothing is recursive.

`DbInv` says of every place that holds values that they are right after the first m
operations of `log` (`Good`): exactly those of the prefix as long as no write of the log
has failed (`Exact`), and in any case, as long as no delete of the key has failed, at
least as new as every one that was not rejected (`Fits`). The two halves are needed
because a failed write leaves memory, log and file different in ways only the second
survives. The places are

* `StoreOK`: the store, after all operations;
* `PrevOK`, `OwnOK`: what an operation that may still be rejected is rolled back to, and
  that a record which is still its operation's own has not been written since. Without
  them nothing is known of the store after `flushFails`;
* `DiskOK`: snapshot and log, after what has landed (`Landed`);
* `PrefixOK`: the snapshot with any cut of the log behind the fsynced part. This is what
  makes the second half of `RecoversAPrefix` inductive over `flushFrame` and `syncTimer`;
* `CopyOK`: while the snapshot is written there is a fence F such that the file behind the
  copied base holds exactly the operations after F that did not fail, in their order
  (`Behind`), and a record of the snapshot is that of the store unless an operation after
  F touches its key (`SnapOK`). The snapshot is the state of no single moment; this is
  the statement that the tail repairs it (`SealedTail`);
* `SwapOK`: during the rotation each of the pairs old/new snapshot and old/new log will
  do;
* `DbTypeOK`, `FramesOK`, `QueueOK` (the batch under way and the queue are the end of the
  log), `CompOK` (the flags of a compaction and what it has copied), `NothingFailed`.

Beside `DbInv`, `RenamesSynced` says that the first rename has been fsynced before the
second is made, and the second before the writer opens. So of the disks in
`ProtectedDisks` only those exist that `SwapOK` speaks of: one rename undone at a time.

`Later` describes how the context of a value may change (the log grows, TTLs elapse,
operations fail); `GoodLater` carries every right value over such a change, so that the
lemma for an action only deals with what it writes.

### MiniDbReader

`MiniDbReaderProofs` proves `ReadsFindAPrefix` (`ReadsAPrefix`): every read sees a first
part of the committed operations, for any number of reads and whatever the writer does,
as long as no write of the log has failed, and except from an instance opened across a
swap of `db.wal`, until the next open. The rotations that the code lets fall into an open
are all in the model. The invariant adds to
`DbInv`

* `SeenOK`: unless it is in the middle of an open, or its last open was torn, the reader
  has exactly the first m operations for some m, and if the log file is still the one its
  mark is in, the file behind the mark is the log behind m (`Marked`). So catching up
  continues where the reader stands (`KeptOn`), and needs no comparison of the data;
* `HalfOK`: between its two files the reader has a snapshot that goes with the log, as
  long as the log file is still the one of that time. A rotation that only replaces the
  snapshot in between does no harm;
* `GenOK`: generations only grow, so that a mark in an older file is never taken for one
  in the current.

### What the proofs changed in the models

In TurnFlow and PromptService the filters of sequences are described by their result
(`Filtered`, `Without`) instead of by `SelectSeq`, whose definition is recursive; in
ToolCallStep `FirstOf` replaces a minimum by `CHOOSE`, `Without` removes the one
entry of an id, and `NextStep` collects what the chain has not begun with a fold. The arms of a `CASE` in GoalMode overlapped, which TLC
does not report and the prover does; they are nested conditions now, in the order of
the source. StepTranscript got its own `NextStep`: without it a later step was not a
step of it. In MiniDb the attempts to prove `AckedWritesSurvive` failed four times for
reasons the source confirms: a batch that deletes an absent key still writes (only `del()`
returns early), an elapsed record may be removed at any moment (`reap`), an acknowledged
or rejected operation stays so across a restart, and a failed delete may undo a later one
(`V_Restore`). The first three are in the model now, the last one is the premise
`NoFailedDel`. `FileOf` was a `SelectSeq` and the loop of the scheduler a recursive
operator; both are folds of named steps now. `SchedulerSafeFiles` is false of lists that
mix absolute and relative paths, which no check had shown: hence `AccessListsAssumption`.
The runs pass with all of these.

### Only model-checked

* Liveness: `PromptsSettle`, `CancelledTurnEnds`, `CompactionEnds`, `AbortEndsStep`,
  `EveryTaskFinishes`, `AttemptEnds`, `EveryWriteAnswered`. Fairness and `ENABLED`
  are out of the provers' reach.
* `SkippedMeansNotExecuted`, which is false of other instances than that of `odd`.

Every other invariant and action property of the passing runs has a theorem.

## 5. Not modelled, and plan

Left out of the modules: tokens and their estimates, wording, telemetry,
`updatedArgs` of hooks beyond the resolution they lead to, providers that reuse ids
across attempts (`loop/tool-call.ts:875`), undo and clear, resume from records, print
mode, the graduated layers, setting a budget during a goal, and the cap on
compactions per turn (the bound `MaxCompactions` takes its place). Of the prompt
service: several agents and sessions, closing a session (which leaves its `_active`
entry behind, `promptService.ts:306-314`), undo, a call that fails after it has taken effect. Of
minidb: eviction, `expire()`, `clear()`, `close()` against writers, values kept on disk, secondary indexes, the
writer's lease in the pool, errors of `fsyncDir`, reads that join a refresh under way.

Simplified in what is modelled:

* `launch` and `endTurn` of PromptService put a turn's frame and its hold on the agent in
  one step. A goal-driven turn is announced after another await (`turn/index.ts:726-727`)
  and releases the agent later than its frame (686-690); `goalContinues` and
  `continuationStarts` have that for the turns between, not for the first and the last.
* `uniquifyToolCallIds` tries further suffixes while a name is taken
  (`loop/tool-call.ts:176-178`); in the model a second occurrence has a name of its own.
* `settle` of ToolScheduler has no synchronous throw of `start`
  (`loop/tool-scheduler.ts:68-73`); the callbacks the step passes are `async`.
* `Compactable` compares messages by value, the source by identity
  (`agent/compaction/full.ts:611-617`); every input is a number of its own, so only
  entries that are no inputs could be taken for each other.
* `compactFails` always manages to go back to the old log; the source tolerates a failure
  of that too (`compaction.ts:315-317`). The new log is assigned and opened in one step
  (294-295).

The terminal UI, the transcript reducers, the protocol's schemas, the providers' wire
formats and kaos hold most of the repository's lines; they render, convert or do I/O
and have no order of events to check.

Next, in this order:

1. Approval and question brokers, background tasks and their persistence.
2. Records, crash and resume; the swarm mailbox; OAuth's refresh lock.
3. Loop guards of the deduplicator (repeat, storm, blocked streak) and the retry
   and media ladder as modules of their own; PromptService composed with TurnFlow.
