------------------------------ MODULE TurnFlow ------------------------------
(***************************************************************************)
(* The turns of a session (agent/turn/index.ts, class TurnFlow) with the   *)
(* goal driver, the compaction worker and the rate-limit auto-resume.      *)
(*                                                                         *)
(* launch() starts a worker that runs one turn, or a whole goal as a       *)
(* sequence of turns.  cancel() forgets the active worker at once while    *)
(* the worker itself is still unwinding, so a new worker may start beside  *)
(* it.  Everything between two awaits is one action; awaits that only pass *)
(* a microtask (the goal store's methods) do not split an action.          *)
(***************************************************************************)
EXTENDS GoalMode, FullCompaction

CONSTANTS
  MaxInputs,      \* bound: prompts and steers in one behaviour
  MaxSteps,       \* loop_control.maxStepsPerTurn
  MaxAttempts,    \* loop_control.retryAutoResumeMaxAttempts
  UsesGoal,       \* the goal is used at all
  RateLimited,    \* the provider may refuse with a long rate-limit wait
  HookBlocks,     \* a UserPromptSubmit hook may block a prompt
  Recalls         \* the client may cancel with withdrawInput

ASSUME FlowAssumption ==
  /\ MaxInputs \in Nat /\ MaxSteps \in Nat \ {0} /\ MaxAttempts \in Nat
  /\ {UsesGoal, RateLimited, HookBlocks, Recalls} \subseteq BOOLEAN

VARIABLES
  turnId,       \* the turn counter, also currentId
  activeTurn,   \* the worker in this.activeTurn, or 0
  workers,      \* every worker launched so far
  steerBuffer,  \* inputs waiting for a step boundary
  goal,         \* agent.goal
  resume,       \* the turn rateLimitResume is parked for, or 0
  pauses,       \* consecutiveRateLimitPauses
  withdraw,     \* withdrawInputOnCancelPending
  refused,      \* inputs answered with turn.agent_busy
  withdrawn,    \* inputs taken back out of the history or the buffer
  lost,         \* prompts whose media could not be uploaded
  deferred,     \* inputs that a compaction held back
  autoResumes   \* automatic retries since the last completed turn

turnVars == <<turnId, activeTurn, workers>>
inputVars == <<steerBuffer, refused, deferred>>
recallVars == <<withdraw, withdrawn, lost>>
resumeVars == <<resume, pauses, autoResumes>>
flowVars == <<contextVars, compactionVars, turnVars, inputVars, recallVars,
              resumeVars, goal>>

(* prompt: what runOneTurn appends to the history, << >> for a retry, <<0>> *)
(* for the driver's "continue"; wait: the compaction block() waits for.     *)
Pcs == {"prompt", "hook", "loop", "compacting", "request", "overflow", "tools",
        "afterStop", "stopHook", "done"}
WorkerType ==
  [turn : Nat, prompt : Seq(Nat), driven : BOOLEAN, aborted : BOOLEAN, pc : Pcs,
   steps : 0..MaxSteps, hookUsed : BOOLEAN, overBudget : BOOLEAN, wait : 0..MaxCompactions]

Worker == 1..Len(workers)
At(w, pc) == workers[w].pc = pc
Aborted(w) == workers[w].aborted
Live(w) == workers[w].pc # "done"

\* Every part of the session state has its type: the workers of turnWorker(),
\* the inputs in the history and the steer buffer, the goal, the parked resume.
FlowTypeOK ==
  /\ goal \in Goals
  /\ turnId \in Nat /\ resume \in 0..turnId
  /\ activeTurn \in 0..Len(workers) /\ compacting \in 0..Len(compactions)
  /\ \A w \in Worker : workers[w] \in WorkerType /\ workers[w].turn <= turnId
  /\ ToSet(steerBuffer) \subseteq DOMAIN origins
  /\ exchange \in 0..Len(workers)
  /\ ToSet(history) \cup ToSet(parked) \subseteq {0} \cup DOMAIN origins

FlowInit ==
  /\ CompactionInit
  /\ turnId = 0 /\ activeTurn = 0 /\ workers = << >>
  /\ steerBuffer = << >> /\ refused = {} /\ deferred = {}
  /\ goal = NoGoal
  /\ resume = 0 /\ pauses = 0 /\ autoResumes = 0
  /\ withdraw = FALSE /\ withdrawn = {} /\ lost = {}

---------------------------------------------------------------------------
(* Launching a turn *)

NewWorker(items, driven, aborted) ==
  [turn |-> turnId + 1, prompt |-> items, driven |-> driven, aborted |-> aborted,
   pc |-> "prompt", steps |-> 0, hookUsed |-> FALSE, overBudget |-> FALSE, wait |-> 0]

EndedWorker(w) == [w EXCEPT !.prompt = << >>, !.pc = "done", !.steps = 0,
                            !.hookUsed = FALSE, !.overBudget = FALSE, !.wait = 0]

(* turnWorker(): an active goal is driven, and a driven goal that is over  *)
(* its budget ends the turn without the model.                             *)
StartWorker(items, g) ==
  /\ turnId' = turnId + 1
  /\ IF IsActive(g) /\ overBudget(g)
       THEN /\ goal' = markBlocked(g)
            /\ appendMessage(items)
            /\ workers' = Append(workers, EndedWorker(NewWorker(items, TRUE, FALSE)))
            /\ UNCHANGED activeTurn
       ELSE /\ goal' = incrementTurn(g)
            /\ workers' = Append(workers, NewWorker(items, IsActive(g), FALSE))
            /\ activeTurn' = Len(workers) + 1
            /\ UNCHANGED historyVars

(* A turn is refused while one is active, deferred to the end of a         *)
(* compaction, or started.                                                 *)
LaunchOrDefer(items, buffer, g) ==
  \/ /\ activeTurn # 0
     /\ refused' = refused \cup ToSet(items)
     /\ steerBuffer' = buffer /\ goal' = g
     /\ UNCHANGED <<turnVars, historyVars, deferred>>
  \/ /\ activeTurn = 0 /\ compacting' # 0
     /\ steerBuffer' = buffer \o items /\ goal' = g
     /\ deferred' = deferred \cup ToSet(items)
     /\ UNCHANGED <<turnVars, historyVars, refused>>
  \/ /\ activeTurn = 0 /\ compacting' = 0
     /\ StartWorker(items, g)
     /\ steerBuffer' = buffer
     /\ UNCHANGED <<refused, deferred>>

\* Mutant: a parked auto-resume survives a new prompt.
launch_KeepsResume(items, buffer, g) ==
  withdraw' = FALSE /\ UNCHANGED resume /\ LaunchOrDefer(items, buffer, g)

(* launch(): supersedes a parked resume and a stale recall first. *)
launch(items, buffer, g) ==
  withdraw' = FALSE /\ resume' = 0 /\ LaunchOrDefer(items, buffer, g)

Submit(origin) ==
  /\ Len(origins) < MaxInputs
  /\ origins' = Append(origins, origin)

prompt ==
  /\ Submit("user")
  /\ UNCHANGED compactionVars
  /\ launch(<<Len(origins) + 1>>, steerBuffer, goal)
  /\ UNCHANGED <<summarized, dropped, withdrawn, lost, pauses, autoResumes>>

(* steer(): the user's, or the note of a background task or a schedule. *)
steer(origin) ==
  LET n == Len(origins) + 1
  IN  /\ Submit(origin)
      /\ UNCHANGED compactionVars
      /\ \/ /\ activeTurn # 0 \/ compacting # 0
            /\ steerBuffer' = Append(steerBuffer, n)
            /\ deferred' = IF activeTurn = 0 THEN deferred \cup {n} ELSE deferred
            /\ UNCHANGED <<turnVars, historyVars, goal, resume, withdraw, refused>>
         \/ /\ activeTurn = 0 /\ compacting = 0
            /\ launch(<<n>>, steerBuffer, goal)
      /\ UNCHANGED <<summarized, dropped, withdrawn, lost, pauses, autoResumes>>

(* onCompactionFinished(): a turn that is active takes the buffer, else    *)
(* the first buffered input is launched and the rest stays buffered.       *)
onCompactionFinished ==
  \/ /\ steerBuffer = << >> \/ activeTurn # 0
     /\ appendMessage(steerBuffer)
     /\ steerBuffer' = << >>
     /\ UNCHANGED <<turnVars, goal, resume, withdraw, refused, deferred>>
  \/ /\ steerBuffer # << >> /\ activeTurn = 0
     /\ launch(<<Head(steerBuffer)>>, Tail(steerBuffer), goal)

---------------------------------------------------------------------------
(* The user *)

IsUser(n) == origins[n] = "user"
IsNote(n) == origins[n] # "user"

(* cancel(), with the number of another turn: only drops a parked resume. *)
cancelOther ==
  /\ resume # 0
  /\ resume' = 0
  /\ UNCHANGED <<contextVars, compactionVars, turnVars, inputVars, recallVars,
                 pauses, autoResumes, goal>>

(* cancel() and abortTurn() of the current turn.  The abort also cancels   *)
(* the compaction the turn waits for.                                      *)
cancel(recall) ==
  /\ activeTurn # 0
  /\ recall => Recalls
  /\ resume' = 0
  /\ withdraw' = (withdraw \/ recall)
  /\ workers' = [workers EXCEPT ![activeTurn].aborted = TRUE]
  /\ activeTurn' = 0
  /\ IF compacting # 0 /\ workers[activeTurn].wait = compacting
       THEN compacting' = 0 /\ compactions' = Cancelled
       ELSE UNCHANGED compactionVars
  /\ UNCHANGED <<contextVars, turnId, inputVars, withdrawn, lost, pauses,
                 autoResumes, goal>>

(* createGoal, pauseGoal, resumeGoal *)
goalCommand ==
  /\ UsesGoal
  /\ goal' \in UserGoalMoves(goal) \ {goal}
  /\ UNCHANGED <<contextVars, compactionVars, turnVars, inputVars, recallVars, resumeVars>>

(* cancelGoal leaves a reminder for the model. *)
cancelGoal ==
  /\ goal.status # "none"
  /\ goal' = clearGoal(goal)
  /\ appendMessage(<<0>>)
  /\ UNCHANGED <<origins, summarized, dropped, compactionVars, turnVars, inputVars, recallVars,
                 resumeVars>>

beginCompaction ==
  /\ activeTurn = 0
  /\ begin("manual")
  /\ UNCHANGED <<contextVars, turnVars, inputVars, recallVars, resumeVars, goal>>

cancelCompaction ==
  /\ compacting # 0
  /\ compactions' = Cancelled
  /\ compacting' = 0
  /\ UNCHANGED <<contextVars, turnVars, inputVars, recallVars, resumeVars, goal>>

---------------------------------------------------------------------------
(* The end of a turn *)

Withdraws(w, reason) == reason = "cancelled" /\ withdraw /\ turnId = workers[w].turn
DropsSteers(buffer) == \E i \in DOMAIN buffer : IsUser(buffer[i])
WithdrawsTail(hist, buffer) ==
  ~DropsSteers(buffer) /\ hist # << >> /\ isRealUserInput(Last(hist))

\* Mutant: the recall empties the whole buffer, notes included.
withdrawInput_DropsNotes(w, reason, hist, buffer) ==
  IF Withdraws(w, reason)
    THEN /\ withdraw' = FALSE /\ steerBuffer' = << >> /\ ClosesWith(hist)
         /\ withdrawn' = withdrawn \cup {n \in ToSet(buffer) : IsUser(n)}
    ELSE /\ steerBuffer' = buffer /\ ClosesWith(hist)
         /\ UNCHANGED <<withdraw, withdrawn>>

(* The end of runOneTurn(): an exchange left open is closed, whose it may  *)
(* be (closeAbandonedToolExchange); then the recall, for which user steers  *)
(* that are still buffered are dropped; when there are none, the           *)
(* unanswered tail of the history is.                                      *)
withdrawInput(w, reason, hist, buffer) ==
  IF Withdraws(w, reason)
    THEN /\ withdraw' = FALSE
         /\ steerBuffer' \in Filtered(buffer, {i \in DOMAIN buffer : IsNote(buffer[i])})
         /\ ClosesWith(IF WithdrawsTail(hist, buffer) THEN Front(hist) ELSE hist)
         /\ withdrawn' = withdrawn \cup {n \in ToSet(buffer) : IsUser(n)}
              \cup (IF WithdrawsTail(hist, buffer) THEN {Last(hist)} ELSE {})
    ELSE /\ steerBuffer' = buffer /\ ClosesWith(hist)
         /\ UNCHANGED <<withdraw, withdrawn>>

(* A rate-limit pause parks a retry, a completed turn ends the series. *)
countPauses(w, reason) ==
  CASE reason = "paused" ->
         resume' = workers[w].turn /\ pauses' = pauses + 1 /\ UNCHANGED autoResumes
    [] reason = "completed" -> pauses' = 0 /\ autoResumes' = 0 /\ UNCHANGED resume
    [] OTHER -> UNCHANGED resumeVars

(* The goal when a turn ends for that reason, and whether the worker runs  *)
(* another turn for it: driveGoal() for a driven worker, the hand-over in  *)
(* turnWorker() for a turn during which the goal became active.            *)
GoalAfter(w, reason, g) ==
  LET counted == IF workers[w].driven THEN g ELSE incrementTurn(g)
  IN  IF reason \in {"completed", "maxSteps"}
        THEN IF overBudget(counted) THEN markBlocked(counted) ELSE counted
        ELSE IF ~workers[w].driven THEN g
        ELSE IF reason = "blocked" THEN markBlocked(g) ELSE pauseActiveGoal(g)

\* Mutant: the driver goes on whatever ended the turn.
GoesOn_AnyReason(w, reason, g) == IsActive(GoalAfter(w, reason, g))

GoesOn(w, reason, g) ==
  reason \in {"completed", "maxSteps"} /\ IsActive(GoalAfter(w, reason, g))

owns(w) == activeTurn = w

\* Mutant: the last turn of a worker clears the active turn, whoever's it is.
release_Anyones(w, g) == 0

(* The active turn after a worker's last turn: a turn of its own releases  *)
(* it with turn.ended, a worker when it ends, and only if it has it still. *)
release(w, g) ==
  IF \/ owns(w)
     \/ ~workers[w].driven /\ turnId = workers[w].turn /\ ~IsActive(g)
    THEN 0 ELSE activeTurn

EndTurn(w, reason, items, buffer, g) ==
  /\ withdrawInput(w, reason, Settled(items), buffer)
  /\ countPauses(w, reason)
  /\ lost' = IF At(w, "prompt") THEN lost \cup ToSet(workers[w].prompt) ELSE lost
  /\ IF GoesOn(w, reason, g)
       THEN /\ turnId' = turnId + 1
            /\ goal' = incrementTurn(GoalAfter(w, reason, g))
            /\ workers' = [workers EXCEPT ![w] = NewWorker(<<0>>, TRUE, Aborted(w))]
            /\ UNCHANGED activeTurn
       ELSE /\ goal' = GoalAfter(w, reason, g)
            /\ workers' = [workers EXCEPT ![w] = EndedWorker(@)]
            /\ activeTurn' = release(w, g)
            /\ UNCHANGED turnId
  /\ UNCHANGED <<origins, summarized, dropped, refused, deferred>>

Ends(w, reason) == EndTurn(w, reason, << >>, steerBuffer, goal)

---------------------------------------------------------------------------
(* The steps of a turn *)

Continues(w, pc) ==
  /\ workers' = [workers EXCEPT ![w].pc = pc, ![w].wait = 0]
  /\ UNCHANGED <<origins, summarized, dropped, turnId, activeTurn, refused, deferred,
                 recallVars, resumeVars>>

(* The prompt lands in the history once its media are uploaded. *)
appendPrompt(w) ==
  /\ At(w, "prompt")
  /\ appendMessage(workers[w].prompt)
  /\ Continues(w, "hook")
  /\ UNCHANGED <<compactionVars, steerBuffer, goal>>

IsUserTurn(w) == \E i \in DOMAIN workers[w].prompt : isRealUserInput(workers[w].prompt[i])

(* resolvePromptMedia() rejects or is aborted: the prompt never lands. *)
promptLost(w) ==
  /\ At(w, "prompt") /\ IsUserTurn(w)
  /\ Ends(w, IF Aborted(w) THEN "cancelled" ELSE "failed")
  /\ UNCHANGED compactionVars

applyUserPromptHook(w) ==
  /\ At(w, "hook")
  /\ \/ /\ ~IsUserTurn(w) \/ ~Aborted(w)
        /\ Continues(w, "loop")
        /\ UNCHANGED <<historyVars, steerBuffer, goal>>
     \/ /\ IsUserTurn(w) /\ Aborted(w)
        /\ Ends(w, "cancelled")
     \/ /\ IsUserTurn(w) /\ ~Aborted(w) /\ HookBlocks
        /\ EndTurn(w, "blocked", <<0>>, steerBuffer, goal)
  /\ UNCHANGED compactionVars

(* flushSteerBuffer() *)
flushSteerBuffer == appendMessage(steerBuffer) /\ steerBuffer' = << >>

(* The request of a step: the steers are flushed, step.begin closes what a *)
(* cancelled worker left open and records the message of the step.         *)
stepBegin(w) ==
  /\ ClosesWith(Append(Settled(steerBuffer), 0))
  /\ steerBuffer' = << >>
  /\ Continues(w, "request")

\* Mutant: one step too many.
StepLimit_OffByOne(w) == workers[w].steps > MaxSteps

StepLimit(w) == workers[w].steps >= MaxSteps

(* The head of runTurn()'s loop and the beforeStep hook, which compacts a  *)
(* long history first, or waits for the compaction that is running.        *)
beforeStep(w) ==
  /\ At(w, "loop")
  /\ \/ /\ Aborted(w)
        /\ Ends(w, "cancelled") /\ UNCHANGED compactionVars
     \/ /\ ~Aborted(w) /\ StepLimit(w)
        /\ Ends(w, "maxSteps") /\ UNCHANGED compactionVars
     \/ /\ ~Aborted(w) /\ ~StepLimit(w) /\ compacting = 0
        /\ stepBegin(w)
        /\ UNCHANGED <<compactionVars, goal>>
     \/ /\ ~Aborted(w) /\ ~StepLimit(w)
        /\ \/ begin("auto")
           \/ /\ compacting # 0
              /\ compactions' = [compactions EXCEPT ![compacting].blockedByTurn = TRUE]
              /\ UNCHANGED compacting
        /\ workers' = [workers EXCEPT ![w].pc = "compacting", ![w].wait = compacting']
        /\ UNCHANGED <<contextVars, turnId, activeTurn, inputVars, recallVars,
                       resumeVars, goal>>

(* block() is over: the steers land behind the summary, aborted or not. *)
compacted(w) ==
  /\ At(w, "compacting") /\ IsOver(workers[w].wait)
  /\ \/ /\ compactions[workers[w].wait].pc = "failed"
        /\ Ends(w, IF Aborted(w) THEN "cancelled" ELSE "failed")
     \/ /\ compactions[workers[w].wait].pc = "done" /\ Aborted(w)
        /\ EndTurn(w, "cancelled", steerBuffer, << >>, goal)
     \/ /\ compactions[workers[w].wait].pc = "done" /\ ~Aborted(w)
        /\ stepBegin(w)
        /\ UNCHANGED goal
  /\ UNCHANGED compactionVars

(* The provider rejects the request as too long: compact, then run the     *)
(* loop anew, with its step count.                                         *)
overflow(w) ==
  /\ At(w, "request") /\ ~Aborted(w)
  /\ \/ begin("auto")
     \/ /\ compacting # 0
        /\ compactions' = [compactions EXCEPT ![compacting].blockedByTurn = TRUE]
        /\ UNCHANGED compacting
  /\ workers' = [workers EXCEPT ![w].pc = "overflow", ![w].wait = compacting', ![w].steps = 0]
  /\ UNCHANGED <<contextVars, turnId, activeTurn, inputVars, recallVars, resumeVars, goal>>

overflowHandled(w) ==
  /\ At(w, "overflow") /\ IsOver(workers[w].wait)
  /\ \/ /\ compactions[workers[w].wait].pc = "failed"
        /\ Ends(w, "failed")
     \/ /\ compactions[workers[w].wait].pc = "done"
        /\ Continues(w, "loop")
        /\ UNCHANGED <<historyVars, steerBuffer, goal>>
  /\ UNCHANGED compactionVars

(* What the tools of a step may do to the goal. *)
StepGoals == IF UsesGoal THEN ModelGoalMoves(goal) ELSE {goal}

(* executeLoopStep(): the answer arrives.  Its text is in the message of   *)
(* the step, its calls are recorded and await their results; a step that   *)
(* fails leaves its message behind.  The budget is read before the tools   *)
(* run.                                                                    *)
executeLoopStep(w) ==
  LET spent == IsActive(goal) /\ overBudget(goal)
      Answers(pc) == workers' = [workers EXCEPT ![w].pc = pc, ![w].steps = @ + 1,
                                                ![w].overBudget = spent]
  IN  /\ At(w, "request")
      /\ \/ /\ Aborted(w)
            /\ Ends(w, "cancelled")
         \/ /\ ~Aborted(w)
            /\ Ends(w, "failed")
         \/ /\ ~Aborted(w) /\ RateLimited
            /\ Ends(w, "paused")
         \/ /\ ~Aborted(w)
            /\ \/ Answers("afterStop") /\ UNCHANGED exchange
               \/ Answers("tools") /\ exchange' = w
            /\ UNCHANGED <<history, parked, origins, summarized, dropped, turnId, activeTurn,
                           inputVars, recallVars, resumeVars, goal>>
      /\ UNCHANGED compactionVars

(* runToolCallBatch(): the results land, unless another turn or a          *)
(* compaction has closed the exchange, and let the parked messages go.     *)
(* After an abort the turn is cancelled.  A spent budget stops the turn.   *)
runToolCallBatch(w) ==
  /\ At(w, "tools")
  /\ \E g \in StepGoals :
       \/ /\ Aborted(w)
          /\ EndTurn(w, "cancelled", << >>, steerBuffer, g)
       \/ /\ ~Aborted(w)
          /\ EndTurn(w, "failed", << >>, steerBuffer, g)
       \/ /\ ~Aborted(w)
          /\ goal' = g
          /\ IF exchange = w THEN ClosesWith(Settled(<< >>)) ELSE UNCHANGED historyVars
          /\ \E pc \in {"loop", "afterStop"} :
               /\ pc = "loop" => ~workers[w].overBudget
               /\ Continues(w, pc)
          /\ UNCHANGED steerBuffer
  /\ UNCHANGED compactionVars

(* shouldContinueAfterStop(): a spent budget ends the turn; else flushed   *)
(* steers, a truncated answer or the outcome of a goal run another step;   *)
(* else the Stop hook is asked, once in a turn.                            *)
shouldContinueAfterStop(w) ==
  LET budgetStop == workers[w].overBudget /\ IsActive(goal)
  IN  /\ At(w, "afterStop")
      /\ \/ /\ budgetStop
            /\ EndTurn(w, "completed", steerBuffer, << >>, goal)
         \/ /\ ~budgetStop
            /\ flushSteerBuffer
            /\ Continues(w, "loop")
            /\ UNCHANGED goal
         \/ /\ ~budgetStop /\ steerBuffer = << >>
            /\ \/ /\ Aborted(w)
                  /\ Ends(w, "cancelled")
               \/ /\ ~Aborted(w) /\ workers[w].hookUsed
                  /\ Ends(w, "completed")
               \/ /\ ~Aborted(w) /\ ~workers[w].hookUsed
                  /\ Continues(w, "stopHook")
                  /\ UNCHANGED <<historyVars, steerBuffer, goal>>
      /\ UNCHANGED compactionVars

stopHook(w) ==
  /\ At(w, "stopHook")
  /\ \/ /\ Aborted(w)
        /\ Ends(w, "cancelled")
     \/ /\ ~Aborted(w)
        /\ Ends(w, "completed")
     \/ /\ ~Aborted(w)
        /\ appendMessage(<<0>>)
        /\ workers' = [workers EXCEPT ![w].pc = "loop", ![w].hookUsed = TRUE]
        /\ UNCHANGED <<origins, summarized, dropped, turnId, activeTurn, inputVars,
                       recallVars, resumeVars, goal>>
  /\ UNCHANGED compactionVars

TurnWorker(w) ==
  \/ appendPrompt(w) \/ promptLost(w) \/ applyUserPromptHook(w)
  \/ beforeStep(w) \/ compacted(w) \/ overflow(w) \/ overflowHandled(w)
  \/ executeLoopStep(w) \/ runToolCallBatch(w) \/ shouldContinueAfterStop(w) \/ stopHook(w)

---------------------------------------------------------------------------
(* The compaction worker and the timer *)

summaryApplied(c) ==
  /\ summaryArrives(c) /\ Compactable(c)
  /\ applyCompaction(c)
  /\ UNCHANGED <<origins, turnVars, inputVars, recallVars, resumeVars, goal>>

(* The finally of compactionWorker() runs in every case. *)
compactionOver(c) ==
  /\ roundAborts(c) \/ roundBails(c) \/ workerFails(c) \/ markCompleted(c)
  /\ onCompactionFinished
  /\ UNCHANGED <<origins, summarized, dropped, withdrawn, lost, pauses, autoResumes>>

CompactionWorker(c) == summaryApplied(c) \/ compactionOver(c)

\* Mutant: the session retries for ever.
MayResume_Unbounded == activeTurn = 0 /\ compacting = 0

(* The gates at fire time. *)
MayResume == pauses < MaxAttempts /\ activeTurn = 0 /\ compacting = 0

(* fireRateLimitResume(): retries on an idle session, else it lapses. *)
fireRateLimitResume ==
  /\ resume # 0
  /\ UNCHANGED compactionVars
  /\ IF MayResume
       THEN /\ launch(<< >>, steerBuffer,
                      IF goal.status = "paused" THEN resumeGoal(goal) ELSE goal)
            /\ autoResumes' = autoResumes + 1
       ELSE /\ resume' = 0
            /\ UNCHANGED <<historyVars, turnVars, inputVars, withdraw, goal, autoResumes>>
  /\ UNCHANGED <<origins, summarized, dropped, withdrawn, lost, pauses>>

---------------------------------------------------------------------------

(* When everything is over the client may leave the session as it is. *)
Quiet == activeTurn = 0 /\ (\A w \in Worker : ~Live(w)) /\ (\A c \in DOMAIN compactions : IsOver(c))

User ==
  \/ prompt \/ steer("user") \/ steer("note")
  \/ cancelOther \/ cancel(TRUE) \/ cancel(FALSE)
  \/ goalCommand \/ cancelGoal \/ beginCompaction \/ cancelCompaction

Workers ==
  \/ \E w \in Worker : TurnWorker(w)
  \/ \E c \in DOMAIN compactions : CompactionWorker(c)

FlowNext == User \/ Workers \/ fireRateLimitResume

(* Promises settle: requests, hooks and compactions end or are aborted.    *)
(* Timers fire unless they are cleared.  The user owes nothing.            *)
FlowSpec ==
  FlowInit /\ [][FlowNext]_flowVars /\ WF_flowVars(Workers) /\ WF_flowVars(fireRateLimitResume)
---------------------------------------------------------------------------
(* Safety *)

\* launch(), cancel() and the releases in runOneTurn() and turnWorker(): a
\* worker that nobody cancelled is the active turn, so there is at most one and
\* every one can be cancelled.
OneLiveTurn == \A w \in Worker : Live(w) /\ ~Aborted(w) => activeTurn = w

\* driveGoal() and shouldContinueAfterStop(): a worker that was cancelled starts
\* a further turn only where its turn had already stopped for a spent budget and
\* a new goal has taken the place of the spent one since.
CancelledDriverStops ==
  [][\A w \in Worker :
       Aborted(w) /\ workers'[w].turn # workers[w].turn
       => At(w, "afterStop") /\ workers[w].overBudget /\ ~overBudget(goal)]_flowVars

\* driveGoal() and the hand-over in turnWorker(): no driven turn starts past
\* the turn budget of the goal.
NoTurnPastBudget ==
  [][\A w \in 1..Len(workers') :
       /\ workers'[w].driven /\ workers'[w].pc = "prompt"
       /\ w \in Worker => workers[w].turn # workers'[w].turn
       => goal'.turns <= TurnBudget]_flowVars

\* scheduleRateLimitResume() and fireRateLimitResume(): between two completed
\* turns the session retries by itself at most as often as configured.  (The
\* last of these needs a cancelled turn that still completes and resets the
\* count while a retry is parked; without one it is one less.)
ResumeBudget == autoResumes <= MaxAttempts

\* A retry is parked only while no turn is active, and only turns of workers
\* that were cancelled come after the turn it is for: launch() and cancel()
\* clear it.
ParkedForLastTurn ==
  resume # 0 => activeTurn = 0 /\ \A w \in Worker : workers[w].turn > resume => Aborted(w)

\* appendMessage(), applyCompaction() and the rest: every prompt and every steer
\* is in exactly one place: refused, in the steer buffer, with a turn that has not
\* recorded it yet, parked behind open tool calls, in the history, in a summary,
\* taken back, lost with its upload, or among the parked messages a compaction
\* dropped.  No other race of turns, compactions and cancels drops or doubles one.
Count(n, seq) == Cardinality({i \in DOMAIN seq : seq[i] = n})
Pending(n) == Cardinality({w \in Worker : At(w, "prompt") /\ n \in ToSet(workers[w].prompt)})
Held(n, S) == Cardinality(S \cap {n})
InputConserved ==
  \A n \in DOMAIN origins :
    Count(n, history) + Count(n, parked) + Count(n, steerBuffer) + Pending(n)
      + Held(n, refused) + Held(n, summarized) + Held(n, withdrawn) + Held(n, lost)
      + Held(n, dropped) = 1

(* Liveness *)

\* cancel(): a cancelled turn unwinds, whatever it was waiting for.
Unwinding(w) == w \in Worker /\ Aborted(w) /\ Live(w)
CancelledTurnEnds == \A w \in 1..MaxInputs : Unwinding(w) ~> ~Unwinding(w)

\* A compaction the session waits for ends: isCompacting does not stay set.
CompactionEnds == (compacting # 0) ~> (compacting = 0)

---------------------------------------------------------------------------
(* What the comments promise and the code does not keep *)

\* "`compacting` is null by now in every path, so the replay's launch actually
\* starts a turn instead of re-buffering." (compactionWorker, full.ts)
ReplayNotHeldBack ==
  [][\A c \in DOMAIN compactions : ~IsOver(c) /\ compactions'[c].pc \in {"done", "failed"}
       => compacting' = 0]_flowVars

\* "Drop deferred messages (mostly injections/system reminders) instead of flushing
\* them: initial context is rebuilt every turn." (applyCompaction, context/index.ts):
\* no input is among the messages that a compaction drops.
OnlyRemindersDropped == dropped = {}

\* "so deferred input is never lost or stuck" (onCompactionFinished)
DeferredNotStuck == Quiet => deferred \cap ToSet(steerBuffer) = {}
=============================================================================
