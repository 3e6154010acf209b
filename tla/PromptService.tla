---------------------------- MODULE PromptService ----------------------------
(***************************************************************************)
(* The prompt service of the daemon (agent-core/src/services/prompt): it   *)
(* gives every submitted prompt an identity and a lifecycle on top of an   *)
(* agent that only knows turns.  One session and its main agent.           *)
(*                                                                         *)
(* The service and the agent talk over an RPC pair.  Calls are a set, not  *)
(* a queue: session/rpc.ts writes session metadata before it hands a       *)
(* prompt or a steer to the agent, and cancel() does not, so a later call  *)
(* may arrive first.  Events come back in order.                           *)
(***************************************************************************)
EXTENDS Naturals, Sequences, SequencesExt

CONSTANTS
  NPrompts,      \* bound: prompts submitted; prompt i is the i-th
  WithControls,  \* prompts whose body carries model, mode or goal controls
  MaxTrouble     \* bound: aborts, steers, foreign turns and failures, together

Prompt == 1..NPrompts
None == 0                 \* no prompt; also the turn id null

ASSUME PromptAssumption ==
  /\ NPrompts \in Nat /\ WithControls \subseteq Prompt
  /\ MaxTrouble \in Nat

VARIABLES
  \* the service
  submitted,   \* prompts submitted so far
  pc,          \* where the handling of each prompt is
  viaQueue,    \* prompts started by _startNextQueued rather than by submit
  active,      \* _active: the active prompt
  turnOf,      \* PromptState.turnId
  aborted,     \* PromptState.aborted, as the set of prompts
  queue,       \* _queued
  outcome,     \* lifecycle events published for each prompt
  \* between the two
  calls,       \* RPC calls under way
  events,      \* turn events not delivered yet
  \* the agent
  owner,       \* the prompt each turn was launched for, by turn id
  running,     \* turns whose turn.ended is still to come
  silent,      \* of those, the ones whose turn.started is still to come
  doomed,      \* turns whose signal is aborted
  activeTurn,  \* TurnFlow.activeTurn
  sent,        \* prompts whose input reached the agent, in that order
  \* how often something disturbed the plain course of events
  aborts,      \* aborts of the active prompt or of the session
  steers,      \* calls of steer()
  twice,       \* prompts that one of them named more than once
  foreign,     \* turns the service did not ask for (goal, cron, skill)
  failures,    \* RPC calls that were rejected
  overlapped   \* a prompt was started while another was applying its controls

service == <<submitted, pc, viaQueue, active, turnOf, aborted, queue, outcome>>
agent == <<owner, running, silent, doomed, activeTurn, sent>>
counters == <<aborts, steers, twice, foreign, failures>>
vars == <<service, calls, events, agent, counters, overlapped>>

Turns == DOMAIN owner
MayTrouble == aborts + steers + foreign + failures < MaxTrouble
Call(op, ps, t) == [op |-> op, ps |-> ps, turn |-> t, done |-> FALSE]
Event(kind, t, reason) == [kind |-> kind, turn |-> t, reason |-> reason]

Init ==
  /\ submitted = 0 /\ pc = [p \in Prompt |-> "new"] /\ viaQueue = {}
  /\ active = None /\ turnOf = [p \in Prompt |-> None] /\ aborted = {}
  /\ queue = <<>> /\ outcome = [p \in Prompt |-> <<>>]
  /\ calls = {} /\ events = <<>>
  /\ owner = <<>> /\ running = {} /\ silent = {} /\ doomed = {}
  /\ activeTurn = None /\ sent = <<>>
  /\ aborts = 0 /\ steers = 0 /\ twice = {} /\ foreign = 0 /\ failures = 0
  /\ overlapped = FALSE

-----------------------------------------------------------------------------
(* The service. *)

\* The record in _active is neither completed nor aborted.  A completed one
\* leaves _active in the frame that completes it.
Live_Ignored(a) == FALSE
Live(a) == a # None /\ a \notin aborted

\* _startPrompt: controls are applied first, across awaits; then the prompt
\* becomes the active one and is sent, in one frame.  `act` is the record in
\* _active by then.
_startPrompt(p, act, moved, cs) ==
  /\ overlapped' = (overlapped \/ \E q \in Prompt: moved[q] = "controls")
  /\ IF p \in WithControls
     THEN /\ pc' = [moved EXCEPT ![p] = "controls"]
          /\ calls' = cs
          /\ active' = act
     ELSE /\ pc' = [moved EXCEPT ![p] = "calling"]
          /\ calls' = cs \cup {Call("prompt", <<p>>, None)}
          /\ active' = p

startsNone(act, moved, cs) ==
  active' = act /\ pc' = moved /\ calls' = cs /\ UNCHANGED <<queue, viaQueue, overlapped>>

_startNextQueued_Peeks(act, moved, cs) ==
  IF Live(act) \/ queue = <<>> THEN startsNone(act, moved, cs)
  ELSE /\ viaQueue' = viaQueue \cup {Head(queue)}
       /\ _startPrompt(Head(queue), act, moved, cs)
       /\ UNCHANGED queue
_startNextQueued(act, moved, cs) ==
  IF Live(act) \/ queue = <<>> THEN startsNone(act, moved, cs)
  ELSE /\ queue' = Tail(queue)
       /\ viaQueue' = viaQueue \cup {Head(queue)}
       /\ _startPrompt(Head(queue), act, moved, cs)

\* What filter() leaves of s, its members being distinct, when those of S are
\* dropped: the only arrangement of the others that keeps their order.
Without(s, S) ==
  {r \in SeqOf(ToSet(s) \ S, Len(s)) :
     /\ ToSet(r) = ToSet(s) \ S
     /\ \A i, j \in DOMAIN r: i < j =>
          \E k, l \in DOMAIN s: k < l /\ s[k] = r[i] /\ s[l] = r[j]}

_enqueue_AtFront(p) == queue' = <<p>> \o queue
_enqueue(p) == queue' = Append(queue, p)

submit ==
  /\ submitted < NPrompts
  /\ submitted' = submitted + 1
  /\ IF Live(active)
     THEN /\ _enqueue(submitted')
          /\ pc' = [pc EXCEPT ![submitted'] = "queued"]
          /\ UNCHANGED <<active, calls, overlapped>>
     ELSE /\ _startPrompt(submitted', active, pc, calls)
          /\ UNCHANGED queue
  /\ UNCHANGED <<viaQueue, turnOf, aborted, outcome, events, agent, counters>>

\* The setters of _applyAgentStateInternal have all answered.
controlsApplied(p) ==
  /\ pc[p] = "controls"
  /\ pc' = [pc EXCEPT ![p] = "calling"]
  /\ active' = p
  /\ calls' = calls \cup {Call("prompt", <<p>>, None)}
  /\ UNCHANGED <<submitted, viaQueue, turnOf, aborted, queue, outcome, events,
                 agent, counters, overlapped>>

\* _startPrompt throws: submit() passes it on to the route, _startNextQueued
\* goes on with the next prompt.
startFailed(p, act, cs) ==
  LET moved == [pc EXCEPT ![p] = "failed"] IN
  /\ MayTrouble
  /\ failures' = failures + 1
  /\ IF p \in viaQueue
     THEN _startNextQueued(act, moved, cs)
     ELSE startsNone(act, moved, cs)
  /\ UNCHANGED <<submitted, turnOf, aborted, outcome, events, agent, aborts,
                 steers, twice, foreign>>

controlsFail(p) == pc[p] = "controls" /\ startFailed(p, active, calls)

promptFails(c) ==
  /\ c.op = "prompt"
  /\ LET p == c.ps[1] IN
     startFailed(p, IF active = p THEN None ELSE active, calls \ {c})

\* abort() of the active prompt marks it before cancel() is called.
abort ==
  /\ Live(active) /\ MayTrouble
  /\ aborts' = aborts + 1
  /\ aborted' = aborted \cup {active}
  /\ calls' = calls \cup {Call("cancel", <<active>>, turnOf[active])}
  /\ UNCHANGED <<submitted, pc, viaQueue, active, turnOf, queue, outcome, events,
                 agent, steers, twice, foreign, failures, overlapped>>

\* abort() of a prompt that waits in the queue needs no call.
abortQueued(p) ==
  /\ \E i \in DOMAIN queue: queue[i] = p /\ queue' = RemoveAt(queue, i)
  /\ pc' = [pc EXCEPT ![p] = "removed"]
  /\ outcome' = [outcome EXCEPT ![p] = Append(@, "aborted")]
  /\ UNCHANGED <<submitted, viaQueue, active, turnOf, aborted, calls, events,
                 agent, counters, overlapped>>

\* abortBySession() where no prompt is active cancels whatever turn runs.
abortBySession ==
  /\ ~Live(active) /\ MayTrouble
  /\ aborts' = aborts + 1
  /\ calls' = calls \cup {Call("cancel", <<>>, None)}
  /\ UNCHANGED <<service, events, agent, steers, twice, foreign, failures, overlapped>>

\* cancel() has answered: prompt.aborted is published.
cancelReturns(c) ==
  /\ c.op = "cancel" /\ c.done
  /\ calls' = calls \ {c}
  /\ outcome' = [p \in Prompt |->
                   IF Contains(c.ps, p) THEN Append(outcome[p], "aborted") ELSE outcome[p]]
  /\ UNCHANGED <<submitted, pc, viaQueue, active, turnOf, aborted, queue, events,
                 agent, counters, overlapped>>

\* cancel() was rejected: the optimistic mark is taken back.
cancelFails(c) ==
  /\ c.op = "cancel" /\ ~c.done /\ MayTrouble
  /\ failures' = failures + 1
  /\ calls' = calls \ {c}
  /\ aborted' = aborted \ ToSet(c.ps)
  /\ UNCHANGED <<submitted, pc, viaQueue, active, turnOf, queue, outcome, events,
                 agent, aborts, steers, twice, foreign, overlapped>>

\* steer(): the selected prompts leave the queue before the call.  Nothing keeps
\* a client from naming a prompt twice; its content is then sent twice.
Repeated(s) == {s[i] : i \in {j \in DOMAIN s : \E k \in 1..j - 1: s[k] = s[j]}}
steer_KeepsQueue(sel) ==
  /\ Live(active) /\ MayTrouble
  /\ steers' = steers + 1
  /\ twice' = twice \cup Repeated(sel)
  /\ calls' = calls \cup {Call("steer", sel, None)}
  /\ UNCHANGED <<submitted, viaQueue, active, turnOf, aborted, outcome, events,
                 agent, aborts, foreign, failures, queue, pc, overlapped>>
steer(sel) ==
  /\ Live(active) /\ MayTrouble
  /\ steers' = steers + 1
  /\ twice' = twice \cup Repeated(sel)
  /\ queue' \in Without(queue, ToSet(sel))
  /\ pc' = [p \in Prompt |-> IF Contains(sel, p) THEN "steering" ELSE pc[p]]
  /\ calls' = calls \cup {Call("steer", sel, None)}
  /\ UNCHANGED <<submitted, viaQueue, active, turnOf, aborted, outcome, events,
                 agent, aborts, foreign, failures, overlapped>>

\* The call was rejected: _restoreSteeredQueueItems puts them back in front, as
\* often as they were named.  (Its filter finds none of them in the queue: they
\* all left it with the call, and nothing else puts a prompt back.)
steerFails(c) ==
  /\ c.op = "steer" /\ MayTrouble
  /\ failures' = failures + 1
  /\ calls' = calls \ {c}
  /\ queue' = c.ps \o queue
  /\ pc' = [p \in Prompt |-> IF Contains(c.ps, p) THEN "queued" ELSE pc[p]]
  /\ UNCHANGED <<submitted, viaQueue, active, turnOf, aborted, outcome, events,
                 agent, aborts, steers, twice, foreign, overlapped>>

\* _handleBusEvent: the first turn.started gives the active prompt its turn.
turnStarted ==
  /\ events # <<>> /\ Head(events).kind = "started"
  /\ events' = Tail(events)
  /\ turnOf' = IF active # None /\ turnOf[active] = None
               THEN [turnOf EXCEPT ![active] = Head(events).turn] ELSE turnOf
  /\ UNCHANGED <<submitted, pc, viaQueue, active, aborted, queue, outcome, calls,
                 agent, counters, overlapped>>

\* _handleBusEvent: turn.ended of that turn ends the prompt.  An aborted one
\* gets its event from abort().
endsPrompt(p, reason) ==
  outcome' = IF p \in aborted THEN outcome
             ELSE [outcome EXCEPT ![p] =
                     Append(@, IF reason = "cancelled" THEN "aborted" ELSE "completed")]
turnEnded_EmitsAlways ==
  /\ events # <<>> /\ Head(events).kind = "ended"
  /\ events' = Tail(events)
  /\ IF active # None /\ turnOf[active] = Head(events).turn
     THEN /\ outcome' = [outcome EXCEPT ![active] = Append(@, "completed")]
          /\ _startNextQueued(None, pc, calls)
     ELSE UNCHANGED <<outcome, active, pc, calls, queue, viaQueue, overlapped>>
  /\ UNCHANGED <<submitted, turnOf, aborted, agent, counters>>
turnEnded_AbortedStops ==
  /\ events # <<>> /\ Head(events).kind = "ended"
  /\ events' = Tail(events)
  /\ IF active # None /\ turnOf[active] = Head(events).turn
     THEN /\ endsPrompt(active, Head(events).reason)
          /\ IF active \in aborted
             THEN startsNone(None, pc, calls)
             ELSE _startNextQueued(None, pc, calls)
     ELSE UNCHANGED <<outcome, active, pc, calls, queue, viaQueue, overlapped>>
  /\ UNCHANGED <<submitted, turnOf, aborted, agent, counters>>
turnEnded ==
  /\ events # <<>> /\ Head(events).kind = "ended"
  /\ events' = Tail(events)
  /\ IF active # None /\ turnOf[active] = Head(events).turn
     THEN /\ endsPrompt(active, Head(events).reason)
          /\ _startNextQueued(None, pc, calls)
     ELSE UNCHANGED <<outcome, active, pc, calls, queue, viaQueue, overlapped>>
  /\ UNCHANGED <<submitted, turnOf, aborted, agent, counters>>

-----------------------------------------------------------------------------
(* The agent, as far as the service can tell (TurnFlow has its inside). *)

\* launch() of an idle agent; an ordinary turn announces itself at once.
launch(p) ==
  LET t == Len(owner) + 1 IN
  /\ owner' = Append(owner, p)
  /\ running' = running \cup {t}
  /\ activeTurn' = t
  /\ events' = Append(events, Event("started", t, ""))
  /\ UNCHANGED <<silent, doomed>>

\* prompt(): a busy agent refuses with an error event the service ignores.
agentPrompt(c) ==
  /\ c.op = "prompt"
  /\ calls' = calls \ {c}
  /\ pc' = [pc EXCEPT ![c.ps[1]] = "started"]
  /\ sent' = sent \o c.ps
  /\ IF activeTurn = None THEN launch(c.ps[1])
     ELSE UNCHANGED <<owner, running, silent, doomed, activeTurn, events>>
  /\ UNCHANGED <<submitted, viaQueue, active, turnOf, aborted, queue, outcome, counters, overlapped>>

\* steer(): the running turn takes the input, an idle agent starts a turn for
\* it.  The answer only publishes prompt.steered.
agentSteer(c) ==
  /\ c.op = "steer"
  /\ calls' = calls \ {c}
  /\ pc' = [p \in Prompt |-> IF Contains(c.ps, p) THEN "steered" ELSE pc[p]]
  /\ sent' = sent \o c.ps
  /\ IF activeTurn = None THEN launch(None)
     ELSE UNCHANGED <<owner, running, silent, doomed, activeTurn, events>>
  /\ UNCHANGED <<submitted, viaQueue, active, turnOf, aborted, queue, outcome, counters, overlapped>>

\* cancel(): ignored for any turn but the last one; releases the turn at once.
agentCancel(c) ==
  /\ c.op = "cancel" /\ ~c.done
  /\ calls' = (calls \ {c}) \cup {[c EXCEPT !.done = TRUE]}
  /\ IF c.turn \in {None, Len(owner)}
     THEN activeTurn' = None /\ doomed' = doomed \cup ({activeTurn} \ {None})
     ELSE UNCHANGED <<activeTurn, doomed>>
  /\ UNCHANGED <<service, events, owner, running, silent, sent, counters, overlapped>>

\* A turn ends and releases the agent in the frame of turn.ended.
endTurn_KeepsActive(t) ==
  /\ t \in running \ silent
  /\ running' = running \ {t}
  /\ \E reason \in {"completed"} \cup (IF t \in doomed THEN {"cancelled"} ELSE {}):
       events' = Append(events, Event("ended", t, reason))
  /\ UNCHANGED <<service, calls, owner, silent, doomed, activeTurn, sent, counters, overlapped>>
endTurn(t) ==
  /\ t \in running \ silent
  /\ running' = running \ {t}
  /\ activeTurn' = IF activeTurn = t THEN None ELSE activeTurn
  /\ \E reason \in {"completed"} \cup (IF t \in doomed THEN {"cancelled"} ELSE {}):
       events' = Append(events, Event("ended", t, reason))
  /\ UNCHANGED <<service, calls, owner, silent, doomed, sent, counters, overlapped>>

\* The goal driver keeps the agent and goes on with a turn of its own, which
\* it announces after another await.
goalContinues(t) ==
  /\ t \in running \ (silent \cup doomed) /\ activeTurn = t /\ MayTrouble
  /\ foreign' = foreign + 1
  /\ owner' = Append(owner, None)
  /\ running' = (running \ {t}) \cup {Len(owner')}
  /\ silent' = silent \cup {Len(owner')}
  /\ activeTurn' = Len(owner')
  /\ events' = Append(events, Event("ended", t, "completed"))
  /\ UNCHANGED <<service, calls, doomed, sent, aborts, steers, twice, failures, overlapped>>

continuationStarts(t) ==
  /\ t \in silent
  /\ silent' = silent \ {t}
  /\ events' = Append(events, Event("started", t, ""))
  /\ UNCHANGED <<service, calls, owner, running, doomed, activeTurn, sent, counters, overlapped>>

\* A turn nobody prompted: a cron job, a background notification, a skill.
foreignTurn ==
  /\ activeTurn = None /\ MayTrouble
  /\ foreign' = foreign + 1
  /\ launch(None)
  /\ UNCHANGED <<service, calls, sent, aborts, steers, twice, failures, overlapped>>

-----------------------------------------------------------------------------
\* bound: the ids of a steer are one more than the queue is long, at most.
Selections == SeqOf(ToSet(queue), Len(queue) + 1) \ {<<>>}

\* bound: the model stops where a failed steer has put a prompt back twice (it
\* would be started twice, the second time as a record that is completed).
Followed == IsInjective(queue)

Next ==
  /\ Followed
  /\ \/ submit \/ abort \/ abortBySession \/ turnStarted \/ turnEnded \/ foreignTurn
     \/ \E sel \in Selections: steer(sel)
     \/ \E p \in Prompt: controlsApplied(p) \/ controlsFail(p) \/ abortQueued(p)
     \/ \E c \in calls: \/ agentPrompt(c) \/ promptFails(c)
                        \/ agentSteer(c) \/ steerFails(c)
                        \/ agentCancel(c) \/ cancelReturns(c) \/ cancelFails(c)
     \/ \E t \in running: endTurn(t) \/ goalContinues(t) \/ continuationStarts(t)

\* Events are delivered, setters and calls answer, and turns end.
Fairness ==
  /\ WF_vars(Followed /\ (turnStarted \/ turnEnded))
  /\ \A p \in Prompt: WF_vars(Followed /\ controlsApplied(p))
  /\ WF_vars(Followed /\ \E c \in calls: agentPrompt(c) \/ agentSteer(c) \/ agentCancel(c)
                                         \/ cancelReturns(c))
  /\ WF_vars(Followed /\ \E t \in running: endTurn(t) \/ continuationStarts(t))

Spec == Init /\ [][Next]_vars /\ Fairness

-----------------------------------------------------------------------------
(* Properties. *)

Pcs == {"new", "queued", "controls", "calling", "started", "steering", "steered",
        "removed", "failed"}

\* No repetition in s, but of members of R.
OnceBut(s, R) == \A i, j \in DOMAIN s: s[i] = s[j] => i = j \/ s[i] \in R

\* Every variable has its type, the queue holds the waiting prompts and nothing
\* else, and a turn the agent works for is one that has not ended.
PromptTypeOK ==
  /\ submitted \in 0..NPrompts /\ pc \in [Prompt -> Pcs]
  /\ active \in Prompt \cup {None} /\ aborted \subseteq Prompt /\ viaQueue \subseteq Prompt
  /\ turnOf \in [Prompt -> Turns \cup {None}]
  /\ OnceBut(queue, twice) /\ ToSet(queue) = {p \in Prompt : pc[p] = "queued"}
  /\ activeTurn \in running \cup {None} /\ running \cup doomed \subseteq Turns
  /\ silent \subseteq running

\* A prompt is reported completed or aborted at most once, whichever way abort,
\* its answer, its failure and the end of the turn interleave
\* (_handleBusEvent against abort()).
OneOutcome == \A p \in Prompt: Len(outcome[p]) <= 1

\* The input of a prompt reaches the agent at most once, although steering,
\* queueing and failed calls move it about (steer, _restoreSteeredQueueItems),
\* unless one steer named the prompt twice.
SentOnce == OnceBut(sent, twice)

\* The plain course of events: no prompt was aborted in mid-turn or steered, no
\* turn was started by others, and no prompt started while another one was
\* between submit()'s check of _active and its own entry there.
Undisturbed == aborts = 0 /\ steers = 0 /\ foreign = 0 /\ ~overlapped

\* Undisturbed, the first turn.started after a submit is that of the prompt's
\* own turn, even where calls fail (_handleBusEvent, prompt.ts mapping).
OwnTurn ==
  Undisturbed => \A p \in Prompt: turnOf[p] # None => owner[turnOf[p]] = p

\* Undisturbed and without failures, prompts reach the agent in the order of
\* their submission: the queue is a FIFO (_enqueue, _startNextQueued).
FifoOrder ==
  Undisturbed /\ failures = 0 =>
    \A i, j \in DOMAIN sent: i < j => sent[i] < sent[j]

\* Whatever is aborted, steered or started by others: as long as no call fails,
\* a waiting prompt has someone before it whose end will start it
\* (_handleBusEvent always calls _startNextQueued).
QueueHasAStarter ==
  failures = 0 /\ queue # <<>> => active # None \/ \E p \in Prompt: pc[p] = "controls"

\* Undisturbed, the service always gets back to where every prompt submitted so
\* far has come to an end of its own (turn.ended starts the next one, and the
\* agent is idle by the time it does).
Settled(p) == outcome[p] # <<>>
PromptsSettle ==
  []<>(Undisturbed /\ failures = 0 => \A p \in 1..submitted: Settled(p))
=============================================================================
