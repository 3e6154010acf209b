------------------------ MODULE PromptServiceProofs -------------------------
(***************************************************************************)
(* Proofs about PromptService for any number of prompts, any choice of the *)
(* ones that carry controls and any amount of trouble.                     *)
(***************************************************************************)
EXTENDS PromptService, QueueLemmas

-----------------------------------------------------------------------------
(* The inductive invariant. *)

\* The agent and its events are of the right types.
EventRec == [kind : {"started", "ended"}, turn : Turns,
             reason : {"", "completed", "cancelled"}]
AgentOK ==
  /\ owner \in Seq(Prompt \cup {None})
  /\ activeTurn \in running \cup {None}
  /\ running \subseteq Turns /\ doomed \subseteq Turns /\ silent \subseteq running
  /\ events \in Seq(EventRec)
  /\ turnOf \in [Prompt -> Turns \cup {None}]

\* So is the service; its queue holds the waiting prompts, and the active prompt
\* has been handed to the agent.
CallRec == [op : {"prompt", "steer", "cancel"}, ps : Seq(Prompt), turn : Nat,
            done : BOOLEAN]
ServiceOK ==
  /\ submitted \in 0..NPrompts
  /\ pc \in [Prompt -> Pcs]
  /\ \A p \in Prompt: p > submitted => pc[p] = "new"
  /\ active \in Prompt \cup {None}
  /\ active # None => pc[active] \in {"calling", "started"}
  /\ aborted \subseteq Prompt /\ viaQueue \subseteq Prompt
  /\ queue \in Seq(Prompt) /\ ToSet(queue) = {p \in Prompt : pc[p] = "queued"}

\* A prompt under way to the agent is in one call only, and its pc says which.
CallsFor(cs, m) ==
  /\ cs \subseteq CallRec
  /\ \A c \in cs: c.op = "prompt" =>
       \E p \in Prompt: c = Call("prompt", <<p>>, None) /\ m[p] = "calling"
  /\ \A c \in cs: c.op = "steer" =>
       \A p \in ToSet(c.ps): m[p] = "steering"
  /\ \A c, d \in cs:
       c.op = "steer" /\ d.op = "steer" /\ c # d => ToSet(c.ps) \cap ToSet(d.ps) = {}
CallsOK == CallsFor(calls, pc)

\* What reached the agent is past the queue and past every call.
SentOK ==
  /\ sent \in Seq(Prompt) /\ SentOnce
  /\ \A p \in ToSet(sent): pc[p] \in {"started", "steered"}

\* Only what one steer named more than once is anywhere more than once.
OnceOK ==
  /\ OnceBut(queue, twice)
  /\ \A c \in calls: c.op = "steer" => OnceBut(c.ps, twice)

\* Who may still report the outcome of a prompt: the end of the turn, while it
\* is active and not aborted, or the one cancel() call of abort().
Outcomes == {<<>>, <<"aborted">>, <<"completed">>}
OutcomeOK ==
  /\ outcome \in [Prompt -> Outcomes]
  /\ \A p \in Prompt: outcome[p] # <<>> =>
       /\ pc[p] \in {"calling", "started", "failed", "removed"}
       /\ p = active => p \in aborted
       /\ \A c \in calls: c.op = "cancel" => c.ps # <<p>>
  /\ \A c \in calls: c.op = "cancel" =>
       \/ c.ps = <<>>
       \/ \E p \in aborted: c.ps = <<p>> /\ pc[p] \in {"calling", "started", "failed"}
  /\ \A c, d \in calls:
       c.op = "cancel" /\ d.op = "cancel" /\ c.ps = d.ps /\ c.ps # <<>> => c = d

\* The counters count; one that is still zero has left no trace.
CountersOK ==
  /\ aborts \in Nat /\ steers \in Nat /\ foreign \in Nat /\ failures \in Nat
  /\ overlapped \in BOOLEAN
  /\ aborts = 0 => aborted = {} /\ \A c \in calls: c.op # "cancel"
  /\ steers = 0 => \A c \in calls: c.op # "steer"
  /\ foreign = 0 => silent = {}

\* The turn of a prompt that the agent has accepted: t is running or over, and
\* its two events are delivered or not.
Started(e, t) == e.kind = "started" /\ e.turn = t
Ended(e, t) == e.kind = "ended" /\ e.turn = t
TurnPhase(p, t) ==
  /\ owner[t] = p
  /\ \/ /\ running = {t} /\ activeTurn = t /\ turnOf[p] = None
        /\ Len(events) = 1 /\ Started(events[1], t)
     \/ running = {t} /\ activeTurn = t /\ turnOf[p] = t /\ Len(events) = 0
     \/ /\ running = {} /\ activeTurn = None /\ turnOf[p] = None
        /\ Len(events) = 2 /\ Started(events[1], t) /\ Ended(events[2], t)
     \/ /\ running = {} /\ activeTurn = None /\ turnOf[p] = t
        /\ Len(events) = 1 /\ Ended(events[1], t)

\* Undisturbed, one prompt at a time is between its start and the end of its
\* turn, and nothing of an earlier turn is left when it gets there.
Quiet == running = {} /\ activeTurn = None /\ Len(events) = 0
OneAtATime ==
  Undisturbed =>
    /\ \A p \in Prompt: pc[p] \in {"new", "queued", "controls", "calling"} => turnOf[p] = None
    /\ \A p \in Prompt: pc[p] = "calling" => p = active
    /\ \A p, q \in Prompt: pc[p] = "controls" /\ pc[q] = "controls" => p = q
    /\ \A p \in Prompt: pc[p] = "controls" => active = None
    /\ active = None \/ pc[active] = "calling" => Quiet
    /\ active # None /\ pc[active] = "started" => \E t \in Turns: TurnPhase(active, t)
    /\ \A p \in Prompt: turnOf[p] # None => owner[turnOf[p]] = p

\* Undisturbed and without failures, the prompts sent, the one being started
\* and the queue follow each other in the order of submission.
InOrder ==
  Undisturbed /\ failures = 0 =>
    /\ Increasing(sent) /\ Increasing(queue)
    /\ \A p \in ToSet(sent), q \in Prompt:
         pc[q] \in {"controls", "calling", "queued"} => p < q
    /\ \A p, q \in Prompt:
         pc[p] \in {"controls", "calling"} /\ pc[q] = "queued" => p < q

IInv ==
  /\ AgentOK /\ ServiceOK /\ CallsOK /\ OnceOK /\ SentOK /\ OutcomeOK
  /\ CountersOK /\ QueueHasAStarter /\ OneAtATime /\ InOrder

-----------------------------------------------------------------------------
(* Lemmas about the parts of the actions. *)

(* What filter() leaves of a queue has the other members, once each. *)
LEMMA WithoutMembers ==
  ASSUME NEW S, NEW s \in Seq(S), NEW D, IsInjective(s), NEW r \in Without(s, D)
  PROVE  r \in Seq(S) /\ IsInjective(r) /\ ToSet(r) = ToSet(s) \ D
<1>1. DOMAIN s = 1..Len(s) /\ Len(s) \in Nat /\ ToSet(s) \subseteq S
  BY LenProperties, MemberFacts
<1>2. PICK m \in 0..Len(s): r \in [1..m -> ToSet(s) \ D]
  BY <1>1 DEF Without, SeqOf
<1>3. r \in Seq(S)
  BY <1>1, <1>2
<1>4. DOMAIN r = 1..Len(r) /\ Len(r) \in Nat
  BY <1>3, LenProperties
<1>5. IsInjective(r)
  BY <1>1, <1>4 DEF Without, IsInjective
<1> QED
  BY <1>3, <1>5 DEF Without


(* A prompt that is started either applies its controls or is called at once. *)
StartedBy(p, act, moved, cs) ==
  \/ /\ pc' = [moved EXCEPT ![p] = "controls"] /\ calls' = cs /\ active' = act
     /\ overlapped' = (overlapped \/ \E q \in Prompt: moved[q] = "controls")
  \/ /\ pc' = [moved EXCEPT ![p] = "calling"] /\ active' = p
     /\ calls' = cs \cup {Call("prompt", <<p>>, None)}
     /\ overlapped' = (overlapped \/ \E q \in Prompt: moved[q] = "controls")

\* _startPrompt() does one of the two.
LEMMA StartPrompt ==
  ASSUME NEW p, NEW act, NEW moved, NEW cs, _startPrompt(p, act, moved, cs)
  PROVE  StartedBy(p, act, moved, cs)
BY DEF _startPrompt, StartedBy

(* _startNextQueued does nothing or starts the head of the queue. *)
LEMMA NextQueued ==
  ASSUME NEW act, NEW moved, NEW cs, _startNextQueued(act, moved, cs),
         queue \in Seq(Prompt), IsInjective(queue)
  PROVE  \/ (Live(act) \/ queue = <<>>) /\ startsNone(act, moved, cs)
         \/ \E h \in Prompt:
              /\ ~Live(act) /\ h \in ToSet(queue) /\ h = Head(queue) /\ queue # <<>>
              /\ queue' \in Seq(Prompt) /\ IsInjective(queue')
              /\ queue' = Tail(queue) /\ ToSet(queue') = ToSet(queue) \ {h}
              /\ viaQueue' = viaQueue \cup {h}
              /\ StartedBy(h, act, moved, cs)
<1>1. CASE Live(act) \/ queue = <<>>
  BY <1>1 DEF _startNextQueued
<1>2. CASE ~(Live(act) \/ queue = <<>>)
  <2>1. /\ Head(queue) \in Prompt /\ Head(queue) \in ToSet(queue)
        /\ Tail(queue) \in Seq(Prompt) /\ IsInjective(Tail(queue))
        /\ ToSet(Tail(queue)) = ToSet(queue) \ {Head(queue)}
    BY <1>2, PopMembers
  <2>2. /\ queue' = Tail(queue) /\ viaQueue' = viaQueue \cup {Head(queue)}
        /\ _startPrompt(Head(queue), act, moved, cs)
    BY <1>2 DEF _startNextQueued
  <2>3. StartedBy(Head(queue), act, moved, cs)
    BY <2>2, StartPrompt
  <2> QED
    BY <1>2, <2>1, <2>2, <2>3, Zenon
<1> QED
  BY <1>1, <1>2

(* The service starts in the invariant. *)
LEMMA InitIInv == Init => IInv
<1> SUFFICES ASSUME Init PROVE IInv
  OBVIOUS
<1> USE DEF Init, None
<1>1. IsInjective(<<>>) /\ ToSet(<<>>) = {} /\ Len(<<>>) = 0 /\ DOMAIN <<>> = {}
  BY DEF IsInjective, ToSet
<1>2. AgentOK
  BY DEF AgentOK, Turns
<1>3. ServiceOK
  BY <1>1, PromptAssumption DEF ServiceOK, Pcs, Prompt
<1>4. CallsOK /\ SentOK
  BY <1>1 DEF CallsOK, CallsFor, SentOK, SentOnce, OnceBut
<1>o. OnceOK
  BY <1>1 DEF OnceOK, OnceBut
<1>5. OutcomeOK
  BY <1>1 DEF OutcomeOK, Outcomes
<1>6. CountersOK /\ QueueHasAStarter
  BY DEF CountersOK, QueueHasAStarter
<1>7. OneAtATime
  BY <1>1 DEF OneAtATime, Quiet
<1>8. InOrder
  BY <1>1 DEF InOrder, Increasing
<1> QED
  BY <1>2, <1>3, <1>4, <1>o, <1>5, <1>6, <1>7, <1>8 DEF IInv

(* A launched turn is typed, and announced. *)
LEMMA LaunchAgentOK ==
  ASSUME AgentOK, NEW p \in Prompt \cup {None}, launch(p), turnOf' = turnOf
  PROVE  AgentOK'
<1> DEFINE t == Len(owner) + 1
<1>1. /\ Len(owner) \in Nat /\ Turns = 1..Len(owner)
      /\ owner' \in Seq(Prompt \cup {None}) /\ Turns' = 1..t
  <2>1. /\ owner' \in Seq(Prompt \cup {None}) /\ Len(owner') = t
    BY AppendProperties, ZenonT(30) DEF launch, AgentOK
  <2> QED
    BY <2>1, LenProperties DEF AgentOK, Turns
<1>2. Turns \subseteq Turns' /\ t \in Turns' /\ t # None
  BY <1>1 DEF None
<1>3. Event("started", t, "") \in EventRec'
  BY <1>2 DEF Event, EventRec
<1>4. events' \in Seq(EventRec')
  <2>1. EventRec \subseteq EventRec'
    BY <1>2 DEF EventRec
  <2>2. events \in Seq(EventRec')
    BY <2>1 DEF AgentOK
  <2> QED
    BY <1>3, <2>2, AppendProperties DEF launch
<1> QED
  BY <1>1, <1>2, <1>4 DEF launch, AgentOK

(* The steps of the agent keep its types; the service's steps only map a turn *)
(* the agent has announced to the active prompt.                             *)
LEMMA AgentStep == IInv /\ Next => AgentOK'
<1> SUFFICES ASSUME IInv, Next PROVE AgentOK'
  OBVIOUS
<1> USE DEF IInv
<1>0. Len(owner) \in Nat /\ Turns = 1..Len(owner)
  BY LenProperties DEF AgentOK, Turns
<1>1. ASSUME UNCHANGED <<turnOf, events, owner, running, silent, doomed, activeTurn>>
      PROVE  AgentOK'
  BY <1>1 DEF AgentOK, EventRec, Turns
<1>2. ASSUME NEW e \in EventRec PROVE Append(events, e) \in Seq(EventRec)
  BY <1>2, AppendProperties DEF AgentOK
<1>3. ASSUME events # <<>>
      PROVE  Head(events) \in EventRec /\ Tail(events) \in Seq(EventRec)
  BY <1>3, HeadTailProperties DEF AgentOK
<1>4. CASE submit \/ abort \/ abortBySession
  BY <1>1, <1>4 DEF submit, abort, abortBySession, agent, service
<1>5. CASE turnStarted
  <2>1. Head(events).turn \in Turns
    BY <1>3, <1>5 DEF turnStarted, EventRec
  <2> QED
    BY <1>3, <1>5, <2>1 DEF turnStarted, agent, AgentOK, EventRec, Turns
<1>6. CASE turnEnded
  BY <1>3, <1>6 DEF turnEnded, agent, AgentOK, EventRec, Turns
<1>7. CASE foreignTurn
  BY <1>7, LaunchAgentOK DEF foreignTurn, service
<1>8. CASE \E sel \in Selections: steer(sel)
  BY <1>1, <1>8 DEF steer, agent
<1>9. CASE \E p \in Prompt: controlsApplied(p) \/ controlsFail(p) \/ abortQueued(p)
  BY <1>1, <1>9 DEF controlsApplied, controlsFail, startFailed, abortQueued, agent
<1>10. CASE \E c \in calls: promptFails(c) \/ steerFails(c) \/ cancelReturns(c) \/ cancelFails(c)
  BY <1>1, <1>10 DEF promptFails, startFailed, steerFails, cancelReturns, cancelFails, agent
<1>11. ASSUME NEW c \in calls, agentPrompt(c) PROVE AgentOK'
  <2>1. CASE activeTurn = None
    <3>1. c.ps[1] \in Prompt
      BY <1>11 DEF agentPrompt, CallsOK, CallsFor, Call
    <3> QED
      BY <1>11, <2>1, <3>1, LaunchAgentOK DEF agentPrompt
  <2>2. CASE activeTurn # None
    BY <1>1, <1>11, <2>2 DEF agentPrompt
  <2> QED
    BY <2>1, <2>2
<1>12. ASSUME NEW c \in calls, agentSteer(c) PROVE AgentOK'
  <2>1. CASE activeTurn = None
    BY <1>12, <2>1, LaunchAgentOK DEF agentSteer
  <2>2. CASE activeTurn # None
    BY <1>1, <1>12, <2>2 DEF agentSteer
  <2> QED
    BY <2>1, <2>2
<1>13. ASSUME NEW c \in calls, agentCancel(c) PROVE AgentOK'
  <2>1. /\ activeTurn' \in {activeTurn, None} /\ doomed' \subseteq doomed \cup ({activeTurn} \ {None})
        /\ UNCHANGED <<turnOf, events, owner, running, silent>>
    BY <1>13 DEF agentCancel, service
  <2> QED
    BY <2>1 DEF AgentOK, EventRec, Turns
<1>14. ASSUME NEW t \in running, endTurn(t) PROVE AgentOK'
  <2>1. PICK reason \in {"completed", "cancelled"}:
          events' = Append(events, Event("ended", t, reason))
    BY <1>14 DEF endTurn
  <2>2. Event("ended", t, reason) \in EventRec
    BY DEF AgentOK, Event, EventRec
  <2>3. events' \in Seq(EventRec)
    BY <1>2, <2>1, <2>2
  <2> QED
    BY <1>14, <2>3 DEF endTurn, service, AgentOK, EventRec, Turns
<1>15. ASSUME NEW t \in running, goalContinues(t) PROVE AgentOK'
  <2> DEFINE n == Len(owner) + 1
  <2>1. owner' \in Seq(Prompt \cup {None}) /\ Len(owner') = n /\ Turns' = 1..n
    BY <1>15, AppendProperties, LenProperties DEF goalContinues, AgentOK, Turns
  <2>2. Turns \subseteq Turns' /\ n \in Turns'
    BY <1>0, <2>1
  <2>3. Event("ended", t, "completed") \in EventRec' /\ EventRec \subseteq EventRec'
    BY <2>2 DEF AgentOK, Event, EventRec
  <2>4. events' \in Seq(EventRec')
    <3>1. events \in Seq(EventRec')
      BY <2>3 DEF AgentOK
    <3> QED
      BY <1>15, <2>3, <3>1, AppendProperties DEF goalContinues
  <2> QED
    BY <1>15, <2>1, <2>2, <2>4 DEF goalContinues, service, AgentOK
<1>16. ASSUME NEW t \in running, continuationStarts(t) PROVE AgentOK'
  <2>1. Event("started", t, "") \in EventRec
    BY DEF AgentOK, Event, EventRec
  <2>2. events' \in Seq(EventRec)
    BY <1>2, <1>16, <2>1 DEF continuationStarts
  <2> QED
    BY <1>16, <2>2 DEF continuationStarts, service, AgentOK, EventRec, Turns
<1> QED
  BY <1>4, <1>5, <1>6, <1>7, <1>8, <1>9, <1>10, <1>11, <1>12, <1>13, <1>14, <1>15, <1>16 DEF Next

(* Moving prompts that are in no call, or dropping calls, changes nothing. *)
LEMMA CallsKept ==
  ASSUME NEW cs, NEW m, CallsFor(cs, m), NEW ds \in SUBSET cs, NEW n,
         \A p \in Prompt: m[p] \in {"calling", "steering"} => n[p] = m[p]
  PROVE  CallsFor(ds, n)
<1>1. \A c \in cs: \A p \in ToSet(c.ps): p \in Prompt
  BY MemberFacts DEF CallsFor, CallRec
<1> QED
  BY <1>1 DEF CallsFor

(* A prompt that begins to be called is in no other call. *)
LEMMA CallsPrompt ==
  ASSUME NEW cs, NEW m, CallsFor(cs, m), NEW p \in Prompt, m[p] = "calling"
  PROVE  CallsFor(cs \cup {Call("prompt", <<p>>, None)}, m)
<1> DEFINE c == Call("prompt", <<p>>, None)
<1>1. c \in CallRec /\ c.op = "prompt"
  BY DEF Call, CallRec, None
<1> HIDE DEF c
<1>2. \A d \in cs \cup {c}: d.op = "prompt" =>
        \E q \in Prompt: d = Call("prompt", <<q>>, None) /\ m[q] = "calling"
  BY DEF CallsFor, c
<1> QED
  BY <1>1, <1>2 DEF CallsFor, c

(* A steer of prompts that no other steer has taken. *)
LEMMA CallsSteer ==
  ASSUME NEW cs, NEW m, CallsFor(cs, m), NEW sel \in Seq(Prompt),
         \A p \in ToSet(sel): m[p] = "steering",
         \A d \in cs: d.op = "steer" => ToSet(d.ps) \cap ToSet(sel) = {}
  PROVE  CallsFor(cs \cup {Call("steer", sel, None)}, m)
<1> DEFINE c == Call("steer", sel, None)
<1>1. c \in CallRec /\ c.op = "steer" /\ c.ps = sel
  BY DEF Call, CallRec, None
<1> HIDE DEF c
<1>2. \A d, e \in cs \cup {c}: d.op = "steer" /\ e.op = "steer" /\ d # e =>
        ToSet(d.ps) \cap ToSet(e.ps) = {}
  BY <1>1 DEF CallsFor
<1> QED
  BY <1>1, <1>2 DEF CallsFor, c

(* A cancel concerns no call of the other kinds. *)
LEMMA CallsCancel ==
  ASSUME NEW cs, NEW m, CallsFor(cs, m), NEW c \in CallRec, c.op = "cancel"
  PROVE  CallsFor(cs \cup {c}, m)
BY DEF CallsFor

(* The prompts of an answered call may move on. *)
LEMMA CallsAnswered ==
  ASSUME NEW cs, NEW m, CallsFor(cs, m), NEW c \in cs, c.op \in {"prompt", "steer"}, NEW n,
         \A p \in Prompt \ ToSet(c.ps): n[p] = m[p]
  PROVE  CallsFor(cs \ {c}, n)
<1>1. \A d \in cs: ToSet(d.ps) \subseteq Prompt
  BY MemberFacts DEF CallsFor, CallRec
<1>2. \A p \in Prompt: ToSet(<<p>>) = {p}
  BY DEF ToSet
<1>3. \A p \in Prompt: Call("prompt", <<p>>, None).ps = <<p>>
  BY DEF Call
<1>4. ASSUME NEW d \in cs \ {c}, d.op = "prompt"
      PROVE  \E p \in Prompt: d = Call("prompt", <<p>>, None) /\ n[p] = "calling"
  <2>1. PICK p \in Prompt: d = Call("prompt", <<p>>, None) /\ m[p] = "calling"
    BY <1>4 DEF CallsFor
  <2>2. p \notin ToSet(c.ps)
    <3>1. CASE c.op = "prompt"
      <4>1. PICK q \in Prompt: c = Call("prompt", <<q>>, None)
        BY <3>1 DEF CallsFor
      <4>2. q # p
        BY <1>4, <2>1, <4>1
      <4> QED
        BY <1>2, <1>3, <4>1, <4>2
    <3>2. CASE c.op = "steer"
      BY <2>1, <3>2 DEF CallsFor
    <3> QED
      BY <3>1, <3>2
  <2> QED
    BY <2>1, <2>2
<1>5. ASSUME NEW d \in cs \ {c}, d.op = "steer"
      PROVE  \A p \in ToSet(d.ps): n[p] = "steering"
  <2>1. ToSet(c.ps) \cap ToSet(d.ps) = {}
    <3>1. CASE c.op = "prompt"
      <4>1. PICK q \in Prompt: c = Call("prompt", <<q>>, None) /\ m[q] = "calling"
        BY <3>1 DEF CallsFor
      <4> QED
        BY <1>2, <1>3, <1>5, <4>1 DEF CallsFor
    <3>2. CASE c.op = "steer"
      BY <1>5, <3>2 DEF CallsFor
    <3> QED
      BY <3>1, <3>2
  <2> QED
    BY <1>1, <1>5, <2>1 DEF CallsFor
<1> QED
  BY <1>4, <1>5 DEF CallsFor

(* The two ways a prompt that is in no call moves on. *)
LEMMA CallsMoved ==
  ASSUME NEW cs, NEW m \in [Prompt -> Pcs], CallsFor(cs, m), NEW p \in Prompt,
         m[p] \notin {"calling", "steering"}
  PROVE  /\ \A x: CallsFor(cs, [m EXCEPT ![p] = x])
         /\ CallsFor(cs \cup {Call("prompt", <<p>>, None)}, [m EXCEPT ![p] = "calling"])
<1>1. ASSUME NEW x PROVE CallsFor(cs, [m EXCEPT ![p] = x])
  <2> DEFINE n == [m EXCEPT ![p] = x]
  <2>1. \A q \in Prompt: m[q] \in {"calling", "steering"} => n[q] = m[q]
    OBVIOUS
  <2> HIDE DEF n
  <2>2. CallsFor(cs, n)
    BY <2>1, CallsKept
  <2> QED
    BY <2>2 DEF n
<1> DEFINE n == [m EXCEPT ![p] = "calling"]
<1>2. n[p] = "calling" /\ CallsFor(cs, n)
  BY <1>1
<1> HIDE DEF n
<1>3. CallsFor(cs \cup {Call("prompt", <<p>>, None)}, n)
  BY <1>2, CallsPrompt
<1> QED
  BY <1>1, <1>3 DEF n

(* The prompt of an answered prompt() call moves on. *)
LEMMA CallsOver ==
  ASSUME NEW cs, NEW m \in [Prompt -> Pcs], CallsFor(cs, m), NEW c \in cs, NEW p \in Prompt,
         c = Call("prompt", <<p>>, None), NEW x
  PROVE  CallsFor(cs \ {c}, [m EXCEPT ![p] = x])
<1> DEFINE n == [m EXCEPT ![p] = x]
<1>1. c.op = "prompt" /\ ToSet(c.ps) = {p}
  BY DEF Call, ToSet
<1>2. \A q \in Prompt \ ToSet(c.ps): n[q] = m[q]
  BY <1>1
<1> HIDE DEF n
<1>3. CallsFor(cs \ {c}, n)
  BY <1>1, <1>2, CallsAnswered
<1> QED
  BY <1>3 DEF n

(* Whichever prompt is started next, the service stays well formed. *)
LEMMA StartsKeepService ==
  ASSUME ServiceOK, IsInjective(queue), NEW act \in Prompt \cup {None}, NEW moved \in [Prompt -> Pcs], NEW cs,
         CallsFor(cs, moved),
         \A p \in Prompt: moved[p] = "queued" <=> pc[p] = "queued",
         \A p \in Prompt: p > submitted => moved[p] = "new",
         act # None => moved[act] \in {"calling", "started"},
         _startNextQueued(act, moved, cs) \/ startsNone(act, moved, cs),
         submitted' = submitted, aborted' = aborted
  PROVE  ServiceOK' /\ CallsOK'
<1>1. CASE startsNone(act, moved, cs)
  <2>1. active' = act /\ pc' = moved /\ calls' = cs /\ queue' = queue /\ viaQueue' = viaQueue
    BY <1>1 DEF startsNone
  <2> QED
    BY <2>1 DEF ServiceOK, CallsOK
<1>2. ASSUME NEW h \in Prompt, h \in ToSet(queue), queue' \in Seq(Prompt), IsInjective(queue'),
             ToSet(queue') = ToSet(queue) \ {h}, viaQueue' = viaQueue \cup {h},
             StartedBy(h, act, moved, cs)
      PROVE  ServiceOK' /\ CallsOK'
  <2>1. pc[h] = "queued" /\ moved[h] = "queued"
    BY <1>2 DEF ServiceOK
  <2>2. h \in 1..submitted /\ h # None
    BY <2>1, PromptAssumption DEF ServiceOK, Prompt, None
  <2>3. CASE pc' = [moved EXCEPT ![h] = "controls"] /\ calls' = cs /\ active' = act
    <3>1. CallsFor(cs, pc')
      BY <2>1, <2>3, CallsMoved
    <3>2. ServiceOK'
      BY <1>2, <2>1, <2>2, <2>3 DEF ServiceOK, Pcs
    <3> QED
      BY <2>3, <3>1, <3>2 DEF CallsOK
  <2>4. CASE /\ pc' = [moved EXCEPT ![h] = "calling"] /\ active' = h
             /\ calls' = cs \cup {Call("prompt", <<h>>, None)}
    <3>2. CallsFor(calls', pc')
      BY <2>1, <2>4, CallsMoved
    <3>3. ServiceOK'
      BY <1>2, <2>1, <2>2, <2>4 DEF ServiceOK, Pcs
    <3> QED
      BY <3>2, <3>3 DEF CallsOK
  <2> QED
    BY <1>2, <2>3, <2>4 DEF StartedBy
<1> QED
  BY <1>1, <1>2, NextQueued DEF ServiceOK

(* The members of a selection. *)
LEMMA SelectionMembers ==
  ASSUME ServiceOK, NEW sel \in Selections
  PROVE  sel \in Seq(Prompt) /\ ToSet(sel) \subseteq ToSet(queue)
<1>1. ToSet(queue) \subseteq Prompt /\ Len(queue) \in Nat
  BY MemberFacts, LenProperties DEF ServiceOK
<1>2. PICK m \in 0..(Len(queue) + 1): sel \in [1..m -> ToSet(queue)]
  BY <1>1 DEF Selections, SeqOf
<1>3. sel \in Seq(ToSet(queue)) /\ sel \in Seq(Prompt)
  BY <1>1, <1>2
<1> QED
  BY <1>3, MemberFacts

(* Every step keeps the service and its calls well formed. *)
LEMMA ServiceStep == IInv /\ Next => ServiceOK' /\ CallsOK'
<1> SUFFICES ASSUME IInv, Next PROVE ServiceOK' /\ CallsOK'
  OBVIOUS
<1> USE DEF IInv
<1>q. IsInjective(queue)
  BY DEF Next, Followed
<1>1. ASSUME UNCHANGED <<submitted, pc, viaQueue, active, aborted, queue>>,
             CallsFor(calls', pc)
      PROVE  ServiceOK' /\ CallsOK'
  BY <1>1 DEF ServiceOK, CallsOK
<1>2. ASSUME NEW c \in calls PROVE c \in CallRec /\ ToSet(c.ps) \subseteq Prompt
  BY <1>2, MemberFacts DEF CallsOK, CallsFor, CallRec
<1>3. ASSUME NEW c \in calls PROVE CallsFor(calls \ {c}, pc)
  BY <1>3, CallsKept DEF CallsOK
<1>4. ASSUME submit PROVE ServiceOK' /\ CallsOK'
  <2> DEFINE p == submitted + 1
  <2>1. p \in Prompt /\ submitted' = p /\ pc[p] = "new" /\ p # None
    BY <1>4, PromptAssumption DEF submit, ServiceOK, Prompt, None
  <2>2. \A q \in Prompt: q > p => q > submitted
    BY <2>1, PromptAssumption DEF ServiceOK, Prompt
  <2>3. p \in 0..NPrompts
    BY <2>1, PromptAssumption DEF Prompt
  <2> HIDE DEF p
  <2>4. CASE Live(active)
    <3>1. /\ queue' = Append(queue, p) /\ pc' = [pc EXCEPT ![p] = "queued"]
          /\ UNCHANGED <<active, calls, viaQueue, aborted>>
      BY <1>4, <2>1, <2>4 DEF submit, _enqueue
    <3>2. p \notin ToSet(queue)
      BY <2>1 DEF ServiceOK
    <3>3. queue' \in Seq(Prompt) /\ IsInjective(queue') /\ ToSet(queue') = ToSet(queue) \cup {p}
      BY <1>q, <2>1, <3>1, <3>2, PushMembers DEF ServiceOK
    <3>4. CallsOK'
      BY <2>1, <3>1, CallsMoved DEF CallsOK, ServiceOK
    <3> QED
      BY <2>1, <2>2, <2>3, <3>1, <3>3, <3>4 DEF ServiceOK, Pcs
  <2>5. CASE ~Live(active)
    <3>1. StartedBy(p, active, pc, calls) /\ UNCHANGED <<queue, viaQueue, aborted>>
      BY <1>4, <2>1, <2>5, StartPrompt DEF submit
    <3>2. CASE pc' = [pc EXCEPT ![p] = "controls"] /\ calls' = calls /\ active' = active
      <4>1. CallsOK'
        BY <2>1, <3>2, CallsMoved DEF CallsOK, ServiceOK
      <4> QED
        BY <2>1, <2>2, <2>3, <3>1, <3>2, <4>1 DEF ServiceOK, Pcs
    <3>3. CASE /\ pc' = [pc EXCEPT ![p] = "calling"] /\ active' = p
               /\ calls' = calls \cup {Call("prompt", <<p>>, None)}
      <4>2. CallsOK'
        BY <2>1, <3>3, CallsMoved DEF CallsOK, ServiceOK
      <4> QED
        BY <2>1, <2>2, <2>3, <3>1, <3>3, <4>2 DEF ServiceOK, Pcs
    <3> QED
      BY <3>1, <3>2, <3>3 DEF StartedBy
  <2> QED
    BY <2>4, <2>5
<1>5. ASSUME abort PROVE ServiceOK' /\ CallsOK'
  <2>1. active \in Prompt /\ aborted' = aborted \cup {active}
    BY <1>5 DEF abort, Live, ServiceOK
  <2>2. turnOf[active] \in Nat
    BY <2>1, LenProperties DEF AgentOK, Turns, None
  <2>3. Call("cancel", <<active>>, turnOf[active]) \in CallRec
    BY <2>1, <2>2 DEF Call, CallRec
  <2>4. Call("cancel", <<active>>, turnOf[active]).op = "cancel"
    BY DEF Call
  <2>5. CallsOK'
    BY <1>5, <2>3, <2>4, CallsCancel DEF abort, CallsOK
  <2> QED
    BY <1>5, <2>1, <2>5 DEF abort, ServiceOK
<1>6. ASSUME abortBySession PROVE ServiceOK' /\ CallsOK'
  <2>1. Call("cancel", <<>>, None) \in CallRec /\ Call("cancel", <<>>, None).op = "cancel"
    BY DEF Call, CallRec, None
  <2>2. CallsFor(calls', pc)
    BY <1>6, <2>1, CallsCancel DEF abortBySession, CallsOK
  <2> QED
    BY <1>1, <1>6, <2>2 DEF abortBySession, service
<1>7. ASSUME turnStarted \/ foreignTurn PROVE ServiceOK' /\ CallsOK'
  BY <1>1, <1>7 DEF turnStarted, foreignTurn, service, CallsOK
<1>8. ASSUME turnEnded PROVE ServiceOK' /\ CallsOK'
  <2>1. CASE active # None /\ turnOf[active] = Head(events).turn
    <3>1. _startNextQueued(None, pc, calls) /\ submitted' = submitted /\ aborted' = aborted
      BY <1>8, <2>1 DEF turnEnded
    <3> QED
      BY <1>q, <3>1, StartsKeepService DEF ServiceOK, CallsOK
  <2>2. CASE ~(active # None /\ turnOf[active] = Head(events).turn)
    BY <1>1, <1>8, <2>2 DEF turnEnded, CallsOK
  <2> QED
    BY <2>1, <2>2
<1>9. ASSUME NEW sel \in Selections, steer(sel) PROVE ServiceOK' /\ CallsOK'
  <2>1. sel \in Seq(Prompt) /\ ToSet(sel) \subseteq ToSet(queue)
    BY SelectionMembers
  <2>2. \A p \in Prompt: Contains(sel, p) <=> p \in ToSet(sel)
    BY <2>1, MemberFacts
  <2>3. pc' = [p \in Prompt |-> IF p \in ToSet(sel) THEN "steering" ELSE pc[p]]
    BY <1>9, <2>2 DEF steer
  <2>4. queue' \in Seq(Prompt) /\ ToSet(queue') = ToSet(queue) \ ToSet(sel)
    BY <1>q, <1>9, WithoutMembers DEF steer, ServiceOK
  <2>5. \A p \in ToSet(sel): p \in Prompt /\ pc[p] = "queued" /\ pc'[p] = "steering"
    BY <2>1, <2>3 DEF ServiceOK
  <2>6. CallsFor(calls, pc')
    BY <2>3, <2>5, CallsKept DEF CallsOK
  <2>7. \A d \in calls: d.op = "steer" => ToSet(d.ps) \cap ToSet(sel) = {}
    BY <2>5 DEF CallsOK, CallsFor
  <2>8. CallsOK'
    BY <1>9, <2>1, <2>5, <2>6, <2>7, CallsSteer DEF steer, CallsOK
  <2>9. /\ UNCHANGED <<submitted, active, aborted, viaQueue>>
        /\ active # None => active \notin ToSet(sel)
    BY <1>9, <2>5 DEF steer, ServiceOK
  <2>10. \A p \in Prompt: p > submitted => p \notin ToSet(sel)
    BY <2>5 DEF ServiceOK
  <2>11. pc' \in [Prompt -> Pcs]
    BY <2>3 DEF ServiceOK, Pcs
  <2> QED
    BY <2>3, <2>4, <2>5, <2>8, <2>9, <2>10, <2>11 DEF ServiceOK
<1>10. ASSUME NEW p \in Prompt, controlsApplied(p) PROVE ServiceOK' /\ CallsOK'
  <2>1. /\ pc[p] = "controls" /\ pc' = [pc EXCEPT ![p] = "calling"] /\ active' = p
        /\ calls' = calls \cup {Call("prompt", <<p>>, None)}
        /\ UNCHANGED <<submitted, viaQueue, aborted, queue>>
    BY <1>10 DEF controlsApplied
  <2>3. CallsOK'
    BY <2>1, CallsMoved DEF CallsOK, ServiceOK
  <2> QED
    BY <2>1, <2>3 DEF ServiceOK, Pcs
<1>11. ASSUME NEW p \in Prompt, controlsFail(p) PROVE ServiceOK' /\ CallsOK'
  <2> DEFINE moved == [pc EXCEPT ![p] = "failed"]
  <2>1. /\ pc[p] = "controls" /\ UNCHANGED <<submitted, aborted>>
        /\ _startNextQueued(active, moved, calls) \/ startsNone(active, moved, calls)
    BY <1>11 DEF controlsFail, startFailed
  <2>2. CallsFor(calls, moved)
    BY <2>1, CallsMoved DEF CallsOK, ServiceOK
  <2>3. /\ moved \in [Prompt -> Pcs]
        /\ \A q \in Prompt: moved[q] = "queued" <=> pc[q] = "queued"
        /\ \A q \in Prompt: q > submitted => moved[q] = "new"
        /\ active # None => moved[active] \in {"calling", "started"}
        /\ active \in Prompt \cup {None}
    BY <2>1 DEF ServiceOK, Pcs
  <2> HIDE DEF moved
  <2> QED
    BY <1>q, <2>1, <2>2, <2>3, StartsKeepService
<1>12. ASSUME NEW c \in calls, promptFails(c) PROVE ServiceOK' /\ CallsOK'
  <2>1. PICK p \in Prompt: c = Call("prompt", <<p>>, None) /\ pc[p] = "calling"
    BY <1>12 DEF promptFails, CallsOK, CallsFor
  <2>2. c.op = "prompt" /\ c.ps = <<p>> /\ c.ps[1] = p /\ ToSet(c.ps) = {p}
    BY <2>1 DEF Call, ToSet
  <2> DEFINE moved == [pc EXCEPT ![p] = "failed"]
             act == IF active = p THEN None ELSE active
  <2>3. /\ UNCHANGED <<submitted, aborted>>
        /\ \/ _startNextQueued(act, moved, calls \ {c})
           \/ startsNone(act, moved, calls \ {c})
    BY <1>12, <2>2 DEF promptFails, startFailed
  <2>4. CallsFor(calls \ {c}, moved)
    BY <2>1, CallsOver DEF CallsOK, ServiceOK
  <2>5. /\ moved \in [Prompt -> Pcs]
        /\ \A q \in Prompt: moved[q] = "queued" <=> pc[q] = "queued"
        /\ \A q \in Prompt: q > submitted => moved[q] = "new"
        /\ act # None => moved[act] \in {"calling", "started"}
        /\ act \in Prompt \cup {None}
    BY <2>1 DEF ServiceOK, Pcs
  <2> HIDE DEF moved, act
  <2> QED
    BY <1>q, <2>3, <2>4, <2>5, StartsKeepService
<1>13. ASSUME NEW p \in Prompt, abortQueued(p) PROVE ServiceOK' /\ CallsOK'
  <2>1. PICK i \in DOMAIN queue: queue[i] = p /\ queue' = RemoveAt(queue, i)
    BY <1>13 DEF abortQueued
  <2>2. queue' \in Seq(Prompt) /\ ToSet(queue') = ToSet(queue) \ {p}
    BY <1>q, <2>1, RemoveAtMembers DEF ServiceOK
  <2>3. p \in ToSet(queue) /\ pc[p] = "queued"
    BY <2>1 DEF ToSet, ServiceOK
  <2>4. /\ pc' = [pc EXCEPT ![p] = "removed"]
        /\ UNCHANGED <<submitted, viaQueue, active, aborted, calls>>
    BY <1>13 DEF abortQueued
  <2>5. CallsOK'
    BY <2>3, <2>4, CallsMoved DEF CallsOK, ServiceOK
  <2> QED
    BY <2>2, <2>3, <2>4, <2>5 DEF ServiceOK, Pcs
<1>14. ASSUME NEW c \in calls, steerFails(c) PROVE ServiceOK' /\ CallsOK'
  <2>1. c.op = "steer" /\ c.ps \in Seq(Prompt)
        /\ \A p \in ToSet(c.ps): p \in Prompt /\ pc[p] = "steering"
    BY <1>2, <1>14 DEF steerFails, CallsOK, CallsFor, CallRec
  <2>5. queue' \in Seq(Prompt) /\ ToSet(queue') = ToSet(c.ps) \cup ToSet(queue)
    BY <1>14, <2>1, ConcatMembers DEF steerFails, ServiceOK
  <2>6. /\ pc' = [p \in Prompt |-> IF p \in ToSet(c.ps) THEN "queued" ELSE pc[p]]
        /\ calls' = calls \ {c}
        /\ UNCHANGED <<submitted, viaQueue, active, aborted>>
    BY <1>14, <2>1, MemberFacts DEF steerFails
  <2>7. CallsOK'
    BY <2>1, <2>6, CallsAnswered DEF CallsOK
  <2>8. pc' \in [Prompt -> Pcs]
    BY <2>6 DEF ServiceOK, Pcs
  <2> QED
    BY <2>1, <2>5, <2>6, <2>7, <2>8 DEF ServiceOK
<1>15. ASSUME NEW c \in calls, cancelReturns(c) PROVE ServiceOK' /\ CallsOK'
  BY <1>1, <1>3, <1>15 DEF cancelReturns
<1>16. ASSUME NEW c \in calls, cancelFails(c) PROVE ServiceOK' /\ CallsOK'
  BY <1>3, <1>16 DEF cancelFails, ServiceOK, CallsOK
<1>17. ASSUME NEW c \in calls, agentPrompt(c) PROVE ServiceOK' /\ CallsOK'
  <2>1. PICK p \in Prompt: c = Call("prompt", <<p>>, None) /\ pc[p] = "calling"
    BY <1>17 DEF agentPrompt, CallsOK, CallsFor
  <2>2. c.op = "prompt" /\ c.ps = <<p>> /\ c.ps[1] = p /\ ToSet(c.ps) = {p}
    BY <2>1 DEF Call, ToSet
  <2>3. /\ pc' = [pc EXCEPT ![p] = "started"] /\ calls' = calls \ {c}
        /\ UNCHANGED <<submitted, viaQueue, active, aborted, queue>>
    BY <1>17, <2>2 DEF agentPrompt
  <2>4. CallsOK'
    BY <2>1, <2>3, CallsOver DEF CallsOK, ServiceOK
  <2> QED
    BY <2>1, <2>3, <2>4 DEF ServiceOK, Pcs
<1>18. ASSUME NEW c \in calls, agentSteer(c) PROVE ServiceOK' /\ CallsOK'
  <2>1. c.op = "steer" /\ c.ps \in Seq(Prompt)
        /\ \A p \in ToSet(c.ps): p \in Prompt /\ pc[p] = "steering"
    BY <1>2, <1>18 DEF agentSteer, CallsOK, CallsFor, CallRec
  <2>2. /\ pc' = [p \in Prompt |-> IF p \in ToSet(c.ps) THEN "steered" ELSE pc[p]]
        /\ calls' = calls \ {c}
        /\ UNCHANGED <<submitted, viaQueue, active, aborted, queue>>
    BY <1>18, <2>1, MemberFacts DEF agentSteer
  <2>3. CallsOK'
    BY <2>1, <2>2, CallsAnswered DEF CallsOK
  <2>4. pc' \in [Prompt -> Pcs]
    BY <2>2 DEF ServiceOK, Pcs
  <2> QED
    BY <2>1, <2>2, <2>3, <2>4 DEF ServiceOK
<1>19. ASSUME NEW c \in calls, agentCancel(c) PROVE ServiceOK' /\ CallsOK'
  <2> DEFINE d == [c EXCEPT !.done = TRUE]
  <2>1. d \in CallRec /\ d.op = "cancel"
    BY <1>2, <1>19 DEF agentCancel, CallRec
  <2>2. CallsFor(calls', pc)
    BY <1>3, <1>19, <2>1, CallsCancel DEF agentCancel
  <2> QED
    BY <1>1, <1>19, <2>2 DEF agentCancel, service
<1>20. ASSUME NEW t \in running, endTurn(t) \/ goalContinues(t) \/ continuationStarts(t)
       PROVE  ServiceOK' /\ CallsOK'
  BY <1>1, <1>20 DEF endTurn, goalContinues, continuationStarts, service, CallsOK
<1> QED
  BY <1>4, <1>5, <1>6, <1>7, <1>8, <1>9, <1>10, <1>11, <1>12, <1>13, <1>14, <1>15, <1>16,
     <1>17, <1>18, <1>19, <1>20 DEF Next

(* What starting the next prompt does to the others. *)
LEMMA StartsMoves ==
  ASSUME ServiceOK, IsInjective(queue), NEW act, NEW moved \in [Prompt -> Pcs], NEW cs,
         _startNextQueued(act, moved, cs) \/ startsNone(act, moved, cs)
  PROVE  /\ IsInjective(queue')
         /\ \A p \in Prompt: pc[p] # "queued" => pc'[p] = moved[p]
         /\ \A c: c.op # "prompt" => (c \in calls' <=> c \in cs)
         /\ active' = act \/ (active' \in Prompt /\ pc[active'] = "queued")
         /\ overlapped' = overlapped \/ overlapped' = (overlapped \/ \E q \in Prompt: moved[q] = "controls")
<1>1. CASE startsNone(act, moved, cs)
  BY <1>1 DEF startsNone
<1>2. ASSUME NEW h \in Prompt, h \in ToSet(queue), IsInjective(queue'), StartedBy(h, act, moved, cs)
      PROVE  /\ IsInjective(queue')
             /\ \A p \in Prompt: pc[p] # "queued" => pc'[p] = moved[p]
             /\ \A c: c.op # "prompt" => (c \in calls' <=> c \in cs)
             /\ active' = act \/ (active' \in Prompt /\ pc[active'] = "queued")
             /\ overlapped' = (overlapped \/ \E q \in Prompt: moved[q] = "controls")
  <2>1. pc[h] = "queued"
    BY <1>2 DEF ServiceOK
  <2>2. Call("prompt", <<h>>, None).op = "prompt"
    BY DEF Call
  <2>3. overlapped' = (overlapped \/ \E q \in Prompt: moved[q] = "controls")
    BY <1>2, Zenon DEF StartedBy
  <2>4. \A p \in Prompt: pc[p] # "queued" => pc'[p] = moved[p]
    BY <1>2, <2>1 DEF StartedBy
  <2>5. \A c: c.op # "prompt" => (c \in calls' <=> c \in cs)
    BY <1>2, <2>2 DEF StartedBy
  <2>6. active' = act \/ (active' \in Prompt /\ pc[active'] = "queued")
    BY <1>2, <2>1 DEF StartedBy
  <2> QED
    BY <1>2, <2>3, <2>4, <2>5, <2>6, Zenon
<1> QED
  BY <1>1, <1>2, NextQueued, Zenon DEF ServiceOK

(* How a step may move a prompt: what has come to an end stays there.  How   *)
(* it may change the active prompt, and who touches a cancel() call.         *)
PcMoves == \A p \in Prompt:
  /\ pc[p] \in {"started", "steered", "failed", "removed"} => pc'[p] = pc[p]
  /\ pc[p] = "calling" => pc'[p] \in {"calling", "started", "failed"}
ActiveMoves ==
  \/ active' = active \/ active' = None
  \/ active' \in Prompt /\ pc[active'] \in {"new", "queued", "controls"}
SameCancels == \A c: c.op = "cancel" => (c \in calls' <=> c \in calls)
Cancels == abort \/ abortBySession
           \/ \E c \in calls: agentCancel(c) \/ cancelReturns(c) \/ cancelFails(c)

\* How a step may change the control state of the prompts, the active prompt
\* and the cancels under way.
LEMMA Moves == IInv /\ Next => PcMoves /\ ActiveMoves /\ (Cancels \/ SameCancels)
<1> SUFFICES ASSUME IInv, Next
             PROVE  PcMoves /\ ActiveMoves /\ (Cancels \/ SameCancels)
  OBVIOUS
<1> USE DEF IInv, PcMoves, ActiveMoves
<1>q. IsInjective(queue)
  BY DEF Next, Followed
<1>1. ASSUME UNCHANGED <<pc, active>>, Cancels \/ SameCancels
      PROVE  PcMoves /\ ActiveMoves /\ (Cancels \/ SameCancels)
  BY <1>1, Zenon
<1>2. \A op, ps, t: Call(op, ps, t).op = op
  BY DEF Call
<1>3. ASSUME submit PROVE PcMoves /\ ActiveMoves /\ SameCancels
  <2> DEFINE p == submitted + 1
  <2>1. p \in Prompt /\ submitted' = p /\ pc[p] = "new"
    BY <1>3, PromptAssumption DEF submit, ServiceOK, Prompt
  <2> HIDE DEF p
  <2>2. CASE Live(active)
    BY <1>3, <2>1, <2>2 DEF submit, SameCancels, ServiceOK
  <2>3. CASE ~Live(active)
    <3>1. StartedBy(p, active, pc, calls)
      BY <1>3, <2>1, <2>3, StartPrompt DEF submit
    <3> QED
      BY <1>2, <2>1, <3>1 DEF StartedBy, SameCancels, ServiceOK
  <2> QED
    BY <2>2, <2>3
<1>4. CASE abort \/ abortBySession
  BY <1>1, <1>4 DEF abort, abortBySession, service, Cancels
<1>5. CASE turnStarted \/ foreignTurn
  BY <1>1, <1>5 DEF turnStarted, foreignTurn, service, SameCancels
<1>6. ASSUME turnEnded PROVE PcMoves /\ ActiveMoves /\ SameCancels
  <2>1. CASE active # None /\ turnOf[active] = Head(events).turn
    <3>1. _startNextQueued(None, pc, calls)
      BY <1>6, <2>1 DEF turnEnded
    <3>2. pc \in [Prompt -> Pcs]
      BY DEF ServiceOK
    <3>3. /\ \A p \in Prompt: pc[p] # "queued" => pc'[p] = pc[p]
          /\ \A c: c.op # "prompt" => (c \in calls' <=> c \in calls)
          /\ active' = None \/ (active' \in Prompt /\ pc[active'] = "queued")
      BY <3>1, <3>2, <1>q, StartsMoves
    <3> QED
      BY <3>3 DEF SameCancels
  <2>2. CASE ~(active # None /\ turnOf[active] = Head(events).turn)
    BY <1>6, <2>2 DEF turnEnded, SameCancels
  <2> QED
    BY <2>1, <2>2
<1>7. ASSUME NEW sel \in Selections, steer(sel) PROVE PcMoves /\ ActiveMoves /\ SameCancels
  <2>1. sel \in Seq(Prompt) /\ \A p \in ToSet(sel): pc[p] = "queued"
    BY SelectionMembers DEF ServiceOK
  <2>2. \A p \in Prompt: Contains(sel, p) => pc[p] = "queued"
    BY <2>1, MemberFacts
  <2> QED
    BY <1>2, <1>7, <2>2 DEF steer, ServiceOK, SameCancels
<1>8. ASSUME NEW p \in Prompt, controlsApplied(p) PROVE PcMoves /\ ActiveMoves /\ SameCancels
  BY <1>2, <1>8 DEF controlsApplied, ServiceOK, SameCancels
<1>9. ASSUME NEW p \in Prompt, controlsFail(p) PROVE PcMoves /\ ActiveMoves /\ SameCancels
  <2> DEFINE moved == [pc EXCEPT ![p] = "failed"]
  <2>1. /\ pc[p] = "controls"
        /\ _startNextQueued(active, moved, calls) \/ startsNone(active, moved, calls)
    BY <1>9 DEF controlsFail, startFailed
  <2>2. moved \in [Prompt -> Pcs] /\ \A q \in Prompt: q # p => moved[q] = pc[q]
    BY DEF ServiceOK, Pcs
  <2> HIDE DEF moved
  <2>3. /\ \A q \in Prompt: pc[q] # "queued" => pc'[q] = moved[q]
        /\ \A c: c.op # "prompt" => (c \in calls' <=> c \in calls)
        /\ active' = active \/ (active' \in Prompt /\ pc[active'] = "queued")
    BY <2>1, <2>2, <1>q, StartsMoves
  <2> QED
    BY <2>1, <2>2, <2>3 DEF SameCancels
<1>10. ASSUME NEW c \in calls, promptFails(c) PROVE PcMoves /\ ActiveMoves /\ SameCancels
  <2>1. PICK p \in Prompt: c = Call("prompt", <<p>>, None) /\ pc[p] = "calling"
    BY <1>10 DEF promptFails, CallsOK, CallsFor
  <2>2. c.op = "prompt" /\ c.ps[1] = p
    BY <2>1 DEF Call
  <2> DEFINE moved == [pc EXCEPT ![p] = "failed"]
             act == IF active = p THEN None ELSE active
  <2>3. \/ _startNextQueued(act, moved, calls \ {c})
        \/ startsNone(act, moved, calls \ {c})
    BY <1>10, <2>2 DEF promptFails, startFailed
  <2>4. /\ moved \in [Prompt -> Pcs] /\ \A q \in Prompt: q # p => moved[q] = pc[q]
        /\ moved[p] = "failed" /\ act \in {active, None}
    BY DEF ServiceOK, Pcs
  <2> HIDE DEF moved, act
  <2>5. /\ \A q \in Prompt: pc[q] # "queued" => pc'[q] = moved[q]
        /\ \A d: d.op # "prompt" => (d \in calls' <=> d \in calls \ {c})
        /\ active' = act \/ (active' \in Prompt /\ pc[active'] = "queued")
    BY <2>3, <2>4, <1>q, StartsMoves
  <2>6. SameCancels
    BY <2>2, <2>5 DEF SameCancels
  <2> QED
    BY <2>1, <2>4, <2>5, <2>6
<1>11. ASSUME NEW p \in Prompt, abortQueued(p) PROVE PcMoves /\ ActiveMoves /\ SameCancels
  <2>1. pc[p] = "queued"
    BY <1>11 DEF abortQueued, ServiceOK, ToSet
  <2> QED
    BY <1>11, <2>1 DEF abortQueued, ServiceOK, SameCancels
<1>12. ASSUME NEW c \in calls, steerFails(c) \/ agentSteer(c)
       PROVE  PcMoves /\ ActiveMoves /\ SameCancels
  <2>1. c.op = "steer" /\ c.ps \in Seq(Prompt) /\ \A p \in ToSet(c.ps): pc[p] = "steering"
    BY <1>12 DEF steerFails, agentSteer, CallsOK, CallsFor, CallRec
  <2>2. \A p \in Prompt: Contains(c.ps, p) => pc[p] = "steering"
    BY <2>1, MemberFacts
  <2>3. /\ \A p \in Prompt: ~Contains(c.ps, p) => pc'[p] = pc[p]
        /\ calls' = calls \ {c} /\ active' = active
    BY <1>12 DEF steerFails, agentSteer
  <2> QED
    BY <2>1, <2>2, <2>3 DEF ServiceOK, SameCancels
<1>13. ASSUME NEW c \in calls, agentPrompt(c) PROVE PcMoves /\ ActiveMoves /\ SameCancels
  <2>1. PICK p \in Prompt: c = Call("prompt", <<p>>, None) /\ pc[p] = "calling"
    BY <1>13 DEF agentPrompt, CallsOK, CallsFor
  <2>2. c.op = "prompt" /\ c.ps[1] = p
    BY <2>1 DEF Call
  <2> QED
    BY <1>13, <2>1, <2>2 DEF agentPrompt, ServiceOK, SameCancels
<1>14. CASE \E c \in calls: agentCancel(c) \/ cancelReturns(c) \/ cancelFails(c)
  BY <1>1, <1>14 DEF agentCancel, cancelReturns, cancelFails, service, Cancels
<1>15. ASSUME NEW t \in running, endTurn(t) \/ goalContinues(t) \/ continuationStarts(t)
       PROVE  PcMoves /\ ActiveMoves /\ SameCancels
  BY <1>1, <1>15 DEF endTurn, goalContinues, continuationStarts, service, SameCancels
<1> HIDE DEF PcMoves, ActiveMoves
<1> QED
  BY <1>3, <1>4, <1>5, <1>6, <1>7, <1>8, <1>9, <1>10, <1>11, <1>12, <1>13, <1>14, <1>15
     DEF Next

(* [...s, ...t] for OnceBut. *)
LEMMA OnceButConcat ==
  ASSUME NEW S, NEW s \in Seq(S), NEW q \in Seq(S), NEW R, OnceBut(s, R), OnceBut(q, R),
         ToSet(s) \cap ToSet(q) = {}
  PROVE  OnceBut(s \o q, R)
BY ConcatOnce DEF OnceBut

(* What a steer named twice stays so. *)
LEMMA RepeatsGrow == Next => twice \subseteq twice'
BY DEF Next, submit, abort, abortBySession, turnStarted, turnEnded, foreignTurn, steer,
       controlsApplied, controlsFail, startFailed, abortQueued, agentPrompt, promptFails,
       agentSteer, steerFails, agentCancel, cancelReturns, cancelFails, endTurn, goalContinues,
       continuationStarts, counters

(* A queue repeats nothing but what a failed steer has put back: all other   *)
(* steps leave a queue without repetition so.                                *)
LEMMA OnceStep == IInv /\ Next => OnceOK'
<1> SUFFICES ASSUME IInv, Next PROVE OnceOK'
  OBVIOUS
<1> USE DEF IInv
<1>q. IsInjective(queue)
  BY DEF Next, Followed
<1>t. twice \subseteq twice' /\ \A S, T: S \subseteq T => \A s: OnceBut(s, S) => OnceBut(s, T)
  BY RepeatsGrow DEF OnceBut
<1>i. ASSUME IsInjective(queue') PROVE OnceBut(queue', twice')
  BY <1>i DEF IsInjective, OnceBut
<1>1. ASSUME IsInjective(queue'), \A c \in calls': c.op = "steer" => c \in calls
      PROVE  OnceOK'
  BY <1>1, <1>i, <1>t DEF OnceOK
<1>2. \A op, ps, t: Call(op, ps, t).op = op
  BY DEF Call
<1>3. ASSUME submit PROVE OnceOK'
  <2>1. CASE Live(active)
    <3>1. /\ queue' = Append(queue, submitted') /\ calls' = calls
          /\ submitted' \in Prompt /\ pc[submitted'] = "new"
      BY <1>3, <2>1, PromptAssumption DEF submit, _enqueue, ServiceOK, Prompt
    <3>2. submitted' \notin ToSet(queue)
      BY <3>1 DEF ServiceOK
    <3>3. IsInjective(queue')
      BY <1>q, <3>1, <3>2, PushMembers DEF ServiceOK
    <3> QED
      BY <1>1, <3>1, <3>3
  <2>2. CASE ~Live(active)
    <3>1. StartedBy(submitted', active, pc, calls) /\ queue' = queue
      BY <1>3, <2>2, StartPrompt DEF submit
    <3> QED
      BY <1>1, <1>2, <1>q, <3>1 DEF StartedBy
  <2> QED
    BY <2>1, <2>2
<1>4. ASSUME NEW act, NEW moved \in [Prompt -> Pcs], NEW cs \in SUBSET calls,
             _startNextQueued(act, moved, cs) \/ startsNone(act, moved, cs)
      PROVE  OnceOK'
  <2>1. IsInjective(queue') /\ \A c: c.op # "prompt" => (c \in calls' <=> c \in cs)
    BY <1>4, <1>q, StartsMoves
  <2> QED
    BY <1>1, <2>1
<1>5. ASSUME turnEnded PROVE OnceOK'
  <2>1. pc \in [Prompt -> Pcs]
    BY DEF ServiceOK
  <2>2. _startNextQueued(None, pc, calls) \/ UNCHANGED <<queue, calls>>
    BY <1>5 DEF turnEnded
  <2> QED
    BY <1>1, <1>4, <1>q, <2>1, <2>2
<1>6. ASSUME NEW p, NEW act, NEW cs \in SUBSET calls, startFailed(p, act, cs) PROVE OnceOK'
  <2> DEFINE moved == [pc EXCEPT ![p] = "failed"]
  <2>1. _startNextQueued(act, moved, cs) \/ startsNone(act, moved, cs)
    BY <1>6 DEF startFailed
  <2>2. moved \in [Prompt -> Pcs]
    BY DEF ServiceOK, Pcs
  <2> HIDE DEF moved
  <2> QED
    BY <1>4, <2>1, <2>2
<1>7. CASE \/ \E p \in Prompt: controlsFail(p)
          \/ \E c \in calls: promptFails(c)
  BY <1>6, <1>7 DEF controlsFail, promptFails
<1>8. ASSUME NEW sel \in Selections, steer(sel) PROVE OnceOK'
  <2>1. sel \in Seq(Prompt) /\ twice' = twice \cup Repeated(sel)
    BY <1>8, SelectionMembers DEF steer
  <2>2. OnceBut(sel, Repeated(sel))
    <3> SUFFICES ASSUME NEW i \in DOMAIN sel, NEW j \in DOMAIN sel, sel[i] = sel[j], i # j
                 PROVE  sel[i] \in Repeated(sel)
      BY DEF OnceBut
    <3>1. DOMAIN sel = 1..Len(sel) /\ Len(sel) \in Nat
      BY <2>1, LenProperties
    <3>2. PICK k \in DOMAIN sel, l \in DOMAIN sel: k < l /\ sel[k] = sel[l] /\ sel[l] = sel[i]
      BY <3>1
    <3>3. k \in 1..(l - 1)
      BY <3>1, <3>2
    <3> QED
      BY <3>2, <3>3 DEF Repeated
  <2>3. OnceBut(sel, twice')
    BY <1>t, <2>1, <2>2
  <2>4. IsInjective(queue')
    BY <1>8, <1>q, WithoutMembers DEF steer, ServiceOK
  <2>5. calls' = calls \cup {Call("steer", sel, None)} /\ Call("steer", sel, None).ps = sel
    BY <1>8 DEF steer, Call
  <2> QED
    BY <1>i, <1>t, <2>3, <2>4, <2>5 DEF OnceOK
<1>9. ASSUME NEW p \in Prompt, abortQueued(p) PROVE OnceOK'
  <2>1. PICK i \in DOMAIN queue: queue' = RemoveAt(queue, i)
    BY <1>9 DEF abortQueued
  <2>2. IsInjective(queue')
    BY <1>q, <2>1, RemoveAtMembers DEF ServiceOK
  <2> QED
    BY <1>1, <1>9, <2>2 DEF abortQueued
<1>10. ASSUME NEW c \in calls, steerFails(c) PROVE OnceOK'
  <2>1. c.op = "steer" /\ c.ps \in Seq(Prompt) /\ \A p \in ToSet(c.ps): pc[p] = "steering"
    BY <1>10 DEF steerFails, CallsOK, CallsFor, CallRec
  <2>2. ToSet(c.ps) \cap ToSet(queue) = {} /\ queue' = c.ps \o queue /\ calls' = calls \ {c}
    BY <1>10, <2>1 DEF steerFails, ServiceOK
  <2>3. OnceBut(c.ps, twice') /\ OnceBut(queue, twice')
    BY <1>10, <1>t, <2>1 DEF OnceOK
  <2>4. OnceBut(queue', twice')
    BY <2>1, <2>2, <2>3, OnceButConcat DEF ServiceOK
  <2> QED
    BY <1>t, <2>2, <2>4 DEF OnceOK
<1>11. CASE abort \/ abortBySession \/ \E p \in Prompt: controlsApplied(p)
  <2>1. queue' = queue
    BY <1>11 DEF abort, abortBySession, controlsApplied, service
  <2>2. \A c \in calls': c.op = "steer" => c \in calls
    <3>1. CASE abort \/ abortBySession
      BY <1>2, <3>1 DEF abort, abortBySession
    <3>2. CASE \E p \in Prompt: controlsApplied(p)
      BY <1>2, <3>2 DEF controlsApplied
    <3> QED
      BY <1>11, <3>1, <3>2
  <2> QED
    BY <1>1, <1>q, <2>1, <2>2
<1>12. CASE turnStarted \/ foreignTurn
  BY <1>1, <1>q, <1>12 DEF turnStarted, foreignTurn, service
<1>13. CASE \E c \in calls: agentPrompt(c) \/ agentSteer(c) \/ cancelReturns(c) \/ cancelFails(c)
  BY <1>1, <1>q, <1>13 DEF agentPrompt, agentSteer, cancelReturns, cancelFails
<1>14. ASSUME NEW c \in calls, agentCancel(c) PROVE OnceOK'
  <2> DEFINE d == [c EXCEPT !.done = TRUE]
  <2>1. d.op = "cancel"
    BY <1>14 DEF agentCancel, CallsOK, CallsFor, CallRec
  <2>2. calls' = (calls \ {c}) \cup {d} /\ queue' = queue
    BY <1>14 DEF agentCancel, service
  <2> HIDE DEF d
  <2> QED
    BY <1>1, <1>q, <2>1, <2>2
<1>15. CASE \E t \in running: endTurn(t) \/ goalContinues(t) \/ continuationStarts(t)
  BY <1>1, <1>q, <1>15 DEF endTurn, goalContinues, continuationStarts, service
<1> QED
  BY <1>3, <1>5, <1>7, <1>8, <1>9, <1>10, <1>11, <1>12, <1>13, <1>14, <1>15 DEF Next

(* The input of a prompt is sent once: when it is, its prompt was in a call,  *)
(* and what has been sent is in none.                                        *)
LEMMA SentStep == IInv /\ Next => SentOK'
<1> SUFFICES ASSUME IInv, Next PROVE SentOK'
  OBVIOUS
<1> USE DEF IInv
<1>1. ToSet(sent) \subseteq Prompt
  BY MemberFacts DEF SentOK
<1>2. PcMoves
  BY Moves
<1>t. twice \subseteq twice' /\ \A S, T: S \subseteq T => \A s: OnceBut(s, S) => OnceBut(s, T)
  BY RepeatsGrow DEF OnceBut
<1>3. ASSUME sent' = sent PROVE SentOK'
  BY <1>1, <1>2, <1>3, <1>t DEF PcMoves, SentOK, SentOnce
<1>4. ASSUME NEW c \in calls, NEW ps \in Seq(Prompt), OnceBut(ps, twice'), sent' = sent \o ps,
             \A p \in ToSet(ps): pc[p] \in {"calling", "steering"}
                                 /\ pc'[p] \in {"started", "steered"}
      PROVE  SentOK'
  <2>1. ToSet(sent) \cap ToSet(ps) = {}
    BY <1>4 DEF SentOK
  <2>2. sent' \in Seq(Prompt) /\ ToSet(sent') = ToSet(sent) \cup ToSet(ps)
    BY <1>4, ConcatMembers DEF SentOK
  <2>t. OnceBut(sent, twice')
    BY <1>t DEF SentOK, SentOnce
  <2>s. OnceBut(sent', twice')
    BY <1>4, <2>1, <2>t, OnceButConcat DEF SentOK
  <2>3. \A p \in ToSet(sent): pc'[p] \in {"started", "steered"}
    BY <1>1, <1>2 DEF PcMoves, SentOK
  <2> QED
    BY <1>4, <2>2, <2>s, <2>3 DEF SentOK, SentOnce
<1>5. ASSUME NEW c \in calls, agentPrompt(c) PROVE SentOK'
  <2>1. PICK p \in Prompt: c = Call("prompt", <<p>>, None) /\ pc[p] = "calling"
    BY <1>5 DEF agentPrompt, CallsOK, CallsFor
  <2>2. c.ps = <<p>> /\ c.ps[1] = p /\ ToSet(c.ps) = {p} /\ c.ps \in Seq(Prompt)
    BY <2>1 DEF Call, ToSet
  <2>3. OnceBut(c.ps, twice')
    BY <2>2 DEF OnceBut
  <2>4. pc'[p] = "started" /\ sent' = sent \o c.ps
    BY <1>5, <2>2 DEF agentPrompt, ServiceOK
  <2> QED
    BY <1>4, <2>1, <2>2, <2>3, <2>4
<1>6. ASSUME NEW c \in calls, agentSteer(c) PROVE SentOK'
  <2>1. c.ps \in Seq(Prompt) /\ \A p \in ToSet(c.ps): pc[p] = "steering"
    BY <1>6 DEF agentSteer, CallsOK, CallsFor, CallRec
  <2>2. \A p \in ToSet(c.ps): p \in Prompt /\ Contains(c.ps, p)
    BY <2>1, MemberFacts
  <2>3. sent' = sent \o c.ps /\ \A p \in ToSet(c.ps): pc'[p] = "steered"
    BY <1>6, <2>2 DEF agentSteer
  <2>4. OnceBut(c.ps, twice')
    <3>1. OnceBut(c.ps, twice)
      BY <1>6 DEF agentSteer, OnceOK
    <3> QED
      BY <1>t, <3>1
  <2> QED
    BY <1>4, <2>1, <2>3, <2>4
<1>7. CASE submit \/ abort \/ abortBySession \/ turnStarted \/ turnEnded \/ foreignTurn
  BY <1>3, <1>7 DEF submit, abort, abortBySession, turnStarted, turnEnded, foreignTurn, agent
<1>8. CASE \/ \E sel \in Selections: steer(sel)
           \/ \E p \in Prompt: controlsApplied(p) \/ controlsFail(p) \/ abortQueued(p)
  BY <1>3, <1>8 DEF steer, controlsApplied, controlsFail, startFailed, abortQueued, agent
<1>9. CASE \E c \in calls: \/ promptFails(c) \/ steerFails(c) \/ agentCancel(c)
                           \/ cancelReturns(c) \/ cancelFails(c)
  BY <1>3, <1>9 DEF promptFails, startFailed, steerFails, agentCancel, cancelReturns, cancelFails,
                    agent
<1>10. CASE \E t \in running: endTurn(t) \/ goalContinues(t) \/ continuationStarts(t)
  BY <1>3, <1>10 DEF endTurn, goalContinues, continuationStarts
<1> QED
  BY <1>5, <1>6, <1>7, <1>8, <1>9, <1>10 DEF Next

(* One outcome: of the end of the turn and the answer of cancel(), one at     *)
(* most is still to report a prompt, and none once it is reported.           *)
LEMMA OutcomeStep == IInv /\ Next => OutcomeOK'
<1> SUFFICES ASSUME IInv, Next PROVE OutcomeOK'
  OBVIOUS
<1> USE DEF IInv
<1>q. IsInjective(queue)
  BY DEF Next, Followed
<1>1. PcMoves /\ ActiveMoves /\ (Cancels \/ SameCancels)
  BY Moves
<1>2. \A x \in {"aborted", "completed"}:
        Append(<<>>, x) \in Outcomes
  BY DEF Outcomes
<1>3. \A p \in Prompt: p # None
  BY DEF Prompt, None
<1>4. \A p \in Prompt: outcome[p] = <<>> \/ pc[p] \in {"calling", "started", "failed", "removed"}
  BY DEF OutcomeOK
<1>5. \A p \in Prompt: outcome[p] # <<>> => pc'[p] \in {"calling", "started", "failed", "removed"}
  BY <1>1, <1>4 DEF PcMoves
<1>6. ASSUME SameCancels, outcome' = outcome, aborted' = aborted PROVE OutcomeOK'
  <2>1. \A p \in Prompt: outcome[p] # <<>> /\ p = active' => p \in aborted
    BY <1>1, <1>3, <1>4 DEF OutcomeOK, ActiveMoves
  <2>2. \A c \in calls': c.op = "cancel" => c \in calls
    BY <1>6 DEF SameCancels
  <2>3. \A p \in aborted: pc[p] \in {"calling", "started", "failed"} =>
                          pc'[p] \in {"calling", "started", "failed"}
    BY <1>1 DEF PcMoves, ServiceOK
  <2> QED
    BY <1>5, <1>6, <2>1, <2>2, <2>3 DEF OutcomeOK
<1>7. ASSUME NEW p \in Prompt, NEW v \in Outcomes, outcome' = [outcome EXCEPT ![p] = v]
      PROVE  /\ outcome' \in [Prompt -> Outcomes]
             /\ \A q \in Prompt: outcome'[q] # <<>> => q = p \/ outcome[q] # <<>>
  BY <1>7 DEF OutcomeOK
<1>t. \A p, q: <<p>> # <<>> /\ (<<p>> = <<q>> => p = q)
  OBVIOUS
<1>u. ASSUME NEW p \in Prompt, p \notin aborted \/ pc[p] \notin {"calling", "started", "failed"}
      PROVE  \A c \in calls: c.op = "cancel" => c.ps # <<p>>
  BY <1>u, <1>t, Zenon DEF OutcomeOK
<1>v. ASSUME NEW c \in calls, c.op = "cancel", NEW p, c.ps = <<p>>
      PROVE  \A d \in calls \ {c}: d.op = "cancel" => d.ps # <<p>>
  BY <1>v, <1>t, Zenon DEF OutcomeOK
<1>8. ASSUME abort PROVE OutcomeOK'
  <2> DEFINE d == Call("cancel", <<active>>, turnOf[active])
  <2>1. /\ active \in Prompt /\ active \notin aborted /\ outcome[active] = <<>>
        /\ pc[active] \in {"calling", "started"}
    BY <1>8 DEF abort, Live, ServiceOK, OutcomeOK
  <2>2. d.op = "cancel" /\ d.ps = <<active>>
    BY DEF Call
  <2>3. \A c \in calls: c.op = "cancel" => c.ps # <<active>>
    BY <2>1 DEF OutcomeOK
  <2>4. /\ calls' = calls \cup {d} /\ aborted' = aborted \cup {active}
        /\ UNCHANGED <<pc, active, outcome>>
    BY <1>8 DEF abort
  <2> HIDE DEF d
  <2> QED
    BY <2>1, <2>2, <2>3, <2>4 DEF OutcomeOK
<1>9. ASSUME abortBySession PROVE OutcomeOK'
  <2> DEFINE d == Call("cancel", <<>>, None)
  <2>1. d.op = "cancel" /\ d.ps = <<>>
    BY DEF Call
  <2>2. calls' = calls \cup {d} /\ UNCHANGED <<pc, active, outcome, aborted>>
    BY <1>9 DEF abortBySession, service
  <2> HIDE DEF d
  <2> QED
    BY <2>1, <2>2 DEF OutcomeOK
<1>10. ASSUME NEW c \in calls, agentCancel(c) PROVE OutcomeOK'
  <2> DEFINE d == [c EXCEPT !.done = TRUE]
  <2>1. c.op = "cancel" /\ d.op = "cancel" /\ d.ps = c.ps
    BY <1>10 DEF agentCancel, CallsOK, CallsFor, CallRec
  <2>2. calls' = (calls \ {c}) \cup {d} /\ UNCHANGED <<pc, active, outcome, aborted>>
    BY <1>10 DEF agentCancel, service
  <2> HIDE DEF d
  <2> QED
    BY <2>1, <2>2 DEF OutcomeOK
<1>11. ASSUME NEW c \in calls, cancelReturns(c) PROVE OutcomeOK'
  <2>1. c.op = "cancel" /\ calls' = calls \ {c} /\ UNCHANGED <<pc, active, aborted>>
    BY <1>11 DEF cancelReturns
  <2>2. CASE c.ps = <<>>
    <3>1. outcome' = outcome
      BY <1>11, <2>2 DEF cancelReturns, Contains, OutcomeOK
    <3> QED
      BY <2>1, <3>1 DEF OutcomeOK
  <2>3. ASSUME NEW p \in aborted, c.ps = <<p>>, pc[p] \in {"calling", "started", "failed"}
        PROVE  OutcomeOK'
    <3>1. p \in Prompt /\ outcome[p] = <<>>
      BY <2>1, <2>3 DEF ServiceOK, OutcomeOK
    <3>2. \A q \in Prompt: Contains(c.ps, q) <=> q = p
      BY <2>3 DEF Contains
    <3> DEFINE v == Append(<<>>, "aborted")
    <3>3. v \in Outcomes
      BY <1>2
    <3>a. \A q \in Prompt: outcome'[q] = IF q = p THEN v ELSE outcome[q]
      BY <1>11, <3>1, <3>2 DEF cancelReturns
    <3>b. outcome \in [Prompt -> Outcomes] /\ outcome' = [q \in Prompt |-> outcome'[q]]
      BY <1>11 DEF OutcomeOK, cancelReturns
    <3> HIDE DEF v
    <3>c. outcome' = [outcome EXCEPT ![p] = v]
      BY <3>a, <3>b
    <3>4. outcome' \in [Prompt -> Outcomes]
      BY <1>7, <3>1, <3>3, <3>c
    <3>5. \A d \in calls': d.op = "cancel" => d.ps # <<p>>
      BY <1>v, <2>1, <2>3
    <3>6. \A q \in Prompt: outcome'[q] # <<>> => q = p \/ outcome[q] # <<>>
      BY <1>7, <3>1, <3>3, <3>c
    <3>7. \A q \in Prompt: outcome'[q] # <<>> =>
             /\ pc[q] \in {"calling", "started", "failed", "removed"}
             /\ q = active => q \in aborted
             /\ \A d \in calls': d.op = "cancel" => d.ps # <<q>>
      BY <2>1, <2>3, <3>5, <3>6 DEF OutcomeOK
    <3> QED
      BY <2>1, <3>4, <3>7 DEF OutcomeOK
  <2> QED
    BY <2>1, <2>2, <2>3 DEF OutcomeOK
<1>12. ASSUME NEW c \in calls, cancelFails(c) PROVE OutcomeOK'
  <2>1. /\ c.op = "cancel" /\ calls' = calls \ {c} /\ aborted' = aborted \ ToSet(c.ps)
        /\ UNCHANGED <<pc, active, outcome>>
    BY <1>12 DEF cancelFails
  <2>2. CASE c.ps = <<>>
    <3>1. aborted' = aborted
      BY <2>1, <2>2 DEF ToSet
    <3> QED
      BY <2>1, <3>1 DEF OutcomeOK
  <2>3. ASSUME NEW p \in aborted, c.ps = <<p>> PROVE OutcomeOK'
    <3>1. aborted' = aborted \ {p}
      BY <2>1, <2>3 DEF ToSet
    <3>2. p \in Prompt /\ outcome[p] = <<>>
      BY <2>1, <2>3 DEF ServiceOK, OutcomeOK
    <3>3. \A d \in calls': d.op = "cancel" => d.ps # <<p>>
      BY <1>v, <2>1, <2>3
    <3> QED
      BY <2>1, <2>3, <3>1, <3>2, <3>3 DEF OutcomeOK
  <2> QED
    BY <2>1, <2>2, <2>3 DEF OutcomeOK
<1>13. ASSUME NEW p \in Prompt, abortQueued(p) PROVE OutcomeOK'
  <2>1. pc[p] = "queued"
    BY <1>13 DEF abortQueued, ServiceOK, ToSet
  <2>2. /\ pc' = [pc EXCEPT ![p] = "removed"] /\ outcome[p] = <<>>
        /\ outcome' = [outcome EXCEPT ![p] = Append(<<>>, "aborted")]
        /\ UNCHANGED <<active, aborted, calls>>
    BY <1>4, <1>13, <2>1 DEF abortQueued, OutcomeOK
  <2>3. outcome' \in [Prompt -> Outcomes]
    BY <1>2, <1>7, <2>2
  <2>4. p # active /\ \A c \in calls: c.op = "cancel" => c.ps # <<p>>
    BY <1>3, <1>u, <2>1 DEF ServiceOK
  <2>5. \A q \in Prompt: outcome'[q] # <<>> => q = p \/ outcome[q] # <<>>
    BY <2>2 DEF OutcomeOK
  <2>6. \A q \in Prompt: outcome'[q] # <<>> =>
          /\ pc'[q] \in {"calling", "started", "failed", "removed"}
          /\ q = active => q \in aborted
          /\ \A c \in calls: c.op = "cancel" => c.ps # <<q>>
    BY <1>4, <2>2, <2>4, <2>5 DEF OutcomeOK, ServiceOK
  <2>7. \A q \in aborted: pc[q] \in {"calling", "started", "failed"} => pc'[q] = pc[q]
    BY <2>1, <2>2 DEF ServiceOK
  <2> QED
    BY <2>2, <2>3, <2>6, <2>7 DEF OutcomeOK
<1>14. ASSUME turnEnded, SameCancels PROVE OutcomeOK'
  <2>0. SameCancels /\ aborted' = aborted
    BY <1>14 DEF turnEnded
  <2>1. CASE active # None /\ turnOf[active] = Head(events).turn
    <3> DEFINE p == active
               x == IF Head(events).reason = "cancelled" THEN "aborted" ELSE "completed"
    <3>a. p \in Prompt /\ pc[p] \in {"calling", "started"} /\ pc \in [Prompt -> Pcs]
      BY <2>1 DEF ServiceOK
    <3>b. _startNextQueued(None, pc, calls)
      BY <1>14, <2>1 DEF turnEnded
    <3>c. active' = None \/ (active' \in Prompt /\ pc[active'] = "queued")
      BY <3>a, <3>b, <1>q, StartsMoves
    <3>1. p \in Prompt /\ pc[p] \in {"calling", "started"} /\ active' # p
      BY <1>3, <3>a, <3>c
    <3>2. CASE p \in aborted
      <4>1. outcome' = outcome
        BY <1>14, <2>1, <3>2 DEF turnEnded, endsPrompt
      <4> QED
        BY <1>6, <2>0, <4>1
    <3>3. CASE p \notin aborted
      <4>1. outcome[p] = <<>> /\ \A c \in calls: c.op = "cancel" => c.ps # <<p>>
        BY <1>u, <3>1, <3>3 DEF OutcomeOK
      <4>2. outcome' = [outcome EXCEPT ![p] = Append(<<>>, x)]
        BY <1>14, <2>1, <3>1, <3>3, <4>1 DEF turnEnded, endsPrompt, OutcomeOK
      <4>3. x \in {"aborted", "completed"}
        OBVIOUS
      <4> HIDE DEF x
      <4>4. outcome' \in [Prompt -> Outcomes]
        BY <1>2, <1>7, <3>1, <4>2, <4>3
      <4>5. \A q \in Prompt: outcome'[q] # <<>> => q = p \/ outcome[q] # <<>>
        BY <4>2 DEF OutcomeOK
      <4>6. \A c \in calls': c.op = "cancel" => c \in calls
        BY <2>0 DEF SameCancels
      <4>7. pc'[p] \in {"calling", "started", "failed"}
        BY <1>1, <3>1 DEF PcMoves
      <4>8. \A q \in Prompt: q # p /\ outcome[q] # <<>> /\ q = active' => q \in aborted
        BY <1>1, <1>3, <1>4 DEF OutcomeOK, ActiveMoves
      <4>9. \A q \in Prompt: outcome'[q] # <<>> =>
              /\ pc'[q] \in {"calling", "started", "failed", "removed"}
              /\ q = active' => q \in aborted
              /\ \A c \in calls': c.op = "cancel" => c.ps # <<q>>
        BY <1>5, <3>1, <4>1, <4>5, <4>6, <4>7, <4>8 DEF OutcomeOK
      <4>10. \A q \in aborted: pc[q] \in {"calling", "started", "failed"} =>
                               pc'[q] \in {"calling", "started", "failed"}
        BY <1>1 DEF PcMoves, ServiceOK
      <4> QED
        BY <2>0, <4>4, <4>6, <4>9, <4>10 DEF OutcomeOK
    <3> QED
      BY <3>2, <3>3
  <2>2. CASE ~(active # None /\ turnOf[active] = Head(events).turn)
    BY <1>6, <1>14, <2>0, <2>2 DEF turnEnded
  <2> QED
    BY <2>1, <2>2
<1>15. CASE Cancels
  BY <1>8, <1>9, <1>10, <1>11, <1>12, <1>15 DEF Cancels
<1>16. CASE SameCancels
  <2>1. CASE submit \/ turnStarted \/ foreignTurn
    BY <1>6, <1>16, <2>1 DEF submit, turnStarted, foreignTurn, service
  <2>2. CASE \/ \E sel \in Selections: steer(sel)
             \/ \E p \in Prompt: controlsApplied(p) \/ controlsFail(p)
    BY <1>6, <1>16, <2>2 DEF steer, controlsApplied, controlsFail, startFailed
  <2>3. CASE \E c \in calls: agentPrompt(c) \/ promptFails(c) \/ agentSteer(c) \/ steerFails(c)
    BY <1>6, <1>16, <2>3 DEF agentPrompt, promptFails, startFailed, agentSteer, steerFails
  <2>4. CASE \E t \in running: endTurn(t) \/ goalContinues(t) \/ continuationStarts(t)
    BY <1>6, <1>16, <2>4 DEF endTurn, goalContinues, continuationStarts, service
  <2> QED
    BY <1>8, <1>9, <1>10, <1>11, <1>12, <1>13, <1>14, <1>16, <2>1, <2>2, <2>3, <2>4
       DEF Next
<1> QED
  BY <1>1, <1>15, <1>16

(* A waiting prompt has a starter as long as no call fails. *)
LEMMA StarterStep == IInv /\ Next => QueueHasAStarter'
<1> SUFFICES ASSUME IInv, Next, failures' = 0, queue' # <<>>
             PROVE  active' # None \/ \E p \in Prompt: pc'[p] = "controls"
  BY DEF QueueHasAStarter
<1> USE DEF IInv
<1> DEFINE Goal == active' # None \/ \E p \in Prompt: pc'[p] = "controls"
<1>q. IsInjective(queue)
  BY DEF Next, Followed
<1>1. \A p \in Prompt: p # None
  BY DEF Prompt, None
<1>2. failures \in Nat
  BY DEF CountersOK
<1>3. ASSUME failures' = failures, queue # <<>>, active' = active,
             \A p \in Prompt: pc[p] = "controls" => pc'[p] = "controls"
      PROVE  Goal
  BY <1>3 DEF QueueHasAStarter
<1>4. CASE submit
  <2>1. submitted' \in Prompt
    BY <1>4, PromptAssumption DEF submit, ServiceOK, Prompt
  <2>2. CASE Live(active)
    BY <1>4, <2>2 DEF submit, Live
  <2>3. CASE ~Live(active)
    <3>1. StartedBy(submitted', active, pc, calls)
      BY <1>4, <2>3, StartPrompt DEF submit
    <3> QED
      BY <1>1, <2>1, <3>1 DEF StartedBy, ServiceOK
  <2> QED
    BY <2>2, <2>3
<1>5. CASE turnEnded
  <2>1. CASE active # None /\ turnOf[active] = Head(events).turn
    <3>1. _startNextQueued(None, pc, calls)
      BY <1>5, <2>1 DEF turnEnded
    <3>2. ~Live(None)
      BY DEF Live
    <3>3. PICK h \in Prompt: StartedBy(h, None, pc, calls)
      BY <1>q, <3>1, <3>2, NextQueued DEF ServiceOK, startsNone
    <3> QED
      BY <1>1, <3>3 DEF StartedBy, ServiceOK
  <2>2. CASE ~(active # None /\ turnOf[active] = Head(events).turn)
    BY <1>3, <1>5, <2>2 DEF turnEnded, counters
  <2> QED
    BY <2>1, <2>2
<1>6. CASE abort \/ abortBySession \/ turnStarted \/ foreignTurn
  BY <1>3, <1>6 DEF abort, abortBySession, turnStarted, foreignTurn, service, counters
<1>7. CASE \E sel \in Selections: steer(sel)
  BY <1>7 DEF steer, Live
<1>8. CASE \E p \in Prompt: controlsApplied(p)
  BY <1>1, <1>8 DEF controlsApplied
<1>9. ASSUME NEW p \in Prompt, abortQueued(p) PROVE Goal
  <2>1. PICK i \in DOMAIN queue: queue[i] = p
    BY <1>9 DEF abortQueued
  <2>2. pc[p] = "queued" /\ p \in ToSet(queue)
    BY <2>1 DEF ServiceOK, ToSet
  <2>3. queue # <<>>
    BY <2>2, MemberFacts DEF ServiceOK
  <2> QED
    BY <1>3, <1>9, <2>2, <2>3 DEF abortQueued, counters, ServiceOK
<1>10. CASE \/ \E p \in Prompt: controlsFail(p)
            \/ \E c \in calls: promptFails(c) \/ steerFails(c) \/ cancelFails(c)
  <2>1. failures' = failures + 1
    BY <1>10 DEF controlsFail, promptFails, startFailed, steerFails, cancelFails
  <2> QED
    BY <1>2, <2>1
<1>11. ASSUME NEW c \in calls, agentPrompt(c) PROVE Goal
  <2>1. PICK p \in Prompt: c = Call("prompt", <<p>>, None) /\ pc[p] = "calling"
    BY <1>11 DEF agentPrompt, CallsOK, CallsFor
  <2>2. c.ps[1] = p
    BY <2>1 DEF Call
  <2> QED
    BY <1>3, <1>11, <2>1, <2>2 DEF agentPrompt, counters, ServiceOK
<1>12. ASSUME NEW c \in calls, agentSteer(c) PROVE Goal
  <2>1. c.ps \in Seq(Prompt) /\ \A p \in ToSet(c.ps): pc[p] = "steering"
    BY <1>12 DEF agentSteer, CallsOK, CallsFor, CallRec
  <2>2. \A p \in Prompt: Contains(c.ps, p) => pc[p] = "steering"
    BY <2>1, MemberFacts
  <2> QED
    BY <1>3, <1>12, <2>2 DEF agentSteer, counters
<1>13. CASE \E c \in calls: agentCancel(c) \/ cancelReturns(c)
  BY <1>3, <1>13 DEF agentCancel, cancelReturns, service, counters
<1>14. CASE \E t \in running: endTurn(t) \/ goalContinues(t) \/ continuationStarts(t)
  BY <1>3, <1>14 DEF endTurn, goalContinues, continuationStarts, service, counters
<1> QED
  BY <1>4, <1>5, <1>6, <1>7, <1>8, <1>9, <1>10, <1>11, <1>12, <1>13, <1>14 DEF Next

(* The counters. *)
LEMMA CountersStep == IInv /\ Next => CountersOK'
<1> SUFFICES ASSUME IInv, Next PROVE CountersOK'
  OBVIOUS
<1> USE DEF IInv
<1> DEFINE SameCounts == UNCHANGED <<aborts, steers, foreign>> /\ failures' \in Nat
           Flag == overlapped' \in BOOLEAN
           NoMore == aborted' \subseteq aborted /\ silent' \subseteq silent
                     /\ \A c \in calls': c.op # "prompt" => \E d \in calls: d.op = c.op
<1>q. IsInjective(queue)
  BY DEF Next, Followed
<1>1. ASSUME SameCounts, Flag, NoMore PROVE CountersOK'
  BY <1>1 DEF CountersOK
<1>2. failures \in Nat /\ failures + 1 \in Nat /\ overlapped \in BOOLEAN
  BY DEF CountersOK
<1>3. \A op, ps, t: Call(op, ps, t).op = op
  BY DEF Call
<1>4. ASSUME NEW act, NEW moved \in [Prompt -> Pcs], NEW cs \in SUBSET calls,
             _startNextQueued(act, moved, cs) \/ startsNone(act, moved, cs)
      PROVE  Flag /\ \A c \in calls': c.op # "prompt" => c \in calls
  <2>1. /\ \A c: c.op # "prompt" => (c \in calls' <=> c \in cs)
        /\ \/ overlapped' = overlapped
           \/ overlapped' = (overlapped \/ \E q \in Prompt: moved[q] = "controls")
    BY <1>4, <1>q, StartsMoves
  <2>2. Flag
    BY <1>2, <2>1, Zenon
  <2> QED
    BY <2>1, <2>2
<1>5. CASE submit
  <2>1. CASE Live(active)
    BY <1>1, <1>2, <1>5, <2>1 DEF submit, counters, agent
  <2>2. CASE ~Live(active)
    <3>1. StartedBy(submitted', active, pc, calls)
      BY <1>5, <2>2, StartPrompt DEF submit
    <3>2. Flag
      BY <1>2, <3>1, Zenon DEF StartedBy
    <3>3. \A c \in calls': c.op # "prompt" => c \in calls
      BY <1>3, <3>1 DEF StartedBy
    <3> QED
      BY <1>1, <1>2, <1>5, <3>2, <3>3 DEF submit, counters, agent
  <2> QED
    BY <2>1, <2>2
<1>6. CASE turnEnded
  <2>1. SameCounts /\ UNCHANGED <<aborted, silent>>
    BY <1>2, <1>6 DEF turnEnded, counters, agent
  <2>2. CASE active # None /\ turnOf[active] = Head(events).turn
    <3>1. _startNextQueued(None, pc, calls) /\ pc \in [Prompt -> Pcs]
      BY <1>6, <2>2 DEF turnEnded, ServiceOK
    <3> QED
      BY <1>1, <1>4, <2>1, <3>1
  <2>3. CASE ~(active # None /\ turnOf[active] = Head(events).turn)
    BY <1>1, <1>2, <1>6, <2>1, <2>3 DEF turnEnded
  <2> QED
    BY <2>2, <2>3
<1>7. ASSUME NEW p \in Prompt, NEW act, NEW cs \in SUBSET calls, startFailed(p, act, cs)
      PROVE  CountersOK'
  <2> DEFINE moved == [pc EXCEPT ![p] = "failed"]
  <2>1. /\ SameCounts /\ UNCHANGED <<aborted, silent>>
        /\ _startNextQueued(act, moved, cs) \/ startsNone(act, moved, cs)
    BY <1>2, <1>7 DEF startFailed, agent
  <2>2. moved \in [Prompt -> Pcs]
    BY DEF ServiceOK, Pcs
  <2> HIDE DEF moved
  <2> QED
    BY <1>1, <1>4, <2>1, <2>2
<1>8. CASE \E p \in Prompt: controlsFail(p)
  BY <1>7, <1>8 DEF controlsFail
<1>9. ASSUME NEW c \in calls, promptFails(c) PROVE CountersOK'
  <2>1. PICK p \in Prompt: c = Call("prompt", <<p>>, None)
    BY <1>9 DEF promptFails, CallsOK, CallsFor
  <2>2. c.ps[1] = p
    BY <2>1 DEF Call
  <2> QED
    BY <1>7, <1>9, <2>2 DEF promptFails
<1>10. CASE abort \/ abortBySession
  <2>1. /\ aborts' = aborts + 1 /\ UNCHANGED <<steers, foreign, failures, overlapped, silent>>
        /\ \A c \in calls': c.op # "cancel" => c \in calls
    BY <1>3, <1>10 DEF abort, abortBySession, agent
  <2> QED
    BY <2>1 DEF CountersOK
<1>11. CASE \E sel \in Selections: steer(sel)
  <2>1. /\ steers' = steers + 1 /\ UNCHANGED <<aborts, foreign, failures, overlapped, silent, aborted>>
        /\ \A c \in calls': c.op # "steer" => c \in calls
    BY <1>3, <1>11 DEF steer, agent
  <2> QED
    BY <2>1 DEF CountersOK
<1>12. CASE turnStarted \/ \E p \in Prompt: abortQueued(p)
  BY <1>1, <1>2, <1>12 DEF turnStarted, abortQueued, service, agent, counters
<1>13. CASE \E p \in Prompt: controlsApplied(p)
  BY <1>1, <1>2, <1>3, <1>13 DEF controlsApplied, counters, agent
<1>14. CASE foreignTurn
  <2>1. /\ foreign' = foreign + 1
        /\ UNCHANGED <<aborts, steers, failures, overlapped, calls, aborted>>
    BY <1>14 DEF foreignTurn, service
  <2> QED
    BY <2>1 DEF CountersOK
<1>15. ASSUME NEW t \in running, goalContinues(t) PROVE CountersOK'
  <2>1. /\ foreign' = foreign + 1
        /\ UNCHANGED <<aborts, steers, failures, overlapped, calls, aborted>>
    BY <1>15 DEF goalContinues, service
  <2> QED
    BY <2>1 DEF CountersOK
<1>16. ASSUME NEW t \in running, endTurn(t) \/ continuationStarts(t) PROVE CountersOK'
  BY <1>1, <1>2, <1>16 DEF endTurn, continuationStarts, service, counters
<1>17. ASSUME NEW c \in calls, agentPrompt(c) \/ agentSteer(c) PROVE CountersOK'
  <2>1. /\ calls' = calls \ {c} /\ silent' = silent
        /\ UNCHANGED <<aborts, steers, foreign, failures, overlapped, aborted>>
    BY <1>17 DEF agentPrompt, agentSteer, launch, counters
  <2> QED
    BY <1>1, <1>2, <2>1
<1>18. ASSUME NEW c \in calls, agentCancel(c) PROVE CountersOK'
  <2> DEFINE d == [c EXCEPT !.done = TRUE]
  <2>1. d.op = c.op
    BY DEF CallsOK, CallsFor, CallRec
  <2>2. /\ calls' = (calls \ {c}) \cup {d}
        /\ UNCHANGED <<aborts, steers, foreign, failures, overlapped, aborted, silent>>
    BY <1>18 DEF agentCancel, counters, service
  <2> HIDE DEF d
  <2> QED
    BY <1>1, <1>2, <2>1, <2>2
<1>19. ASSUME NEW c \in calls, steerFails(c) \/ cancelReturns(c) \/ cancelFails(c)
       PROVE  CountersOK'
  BY <1>1, <1>2, <1>19 DEF steerFails, cancelReturns, cancelFails, counters, agent
<1> QED
  BY <1>5, <1>6, <1>8, <1>9, <1>10, <1>11, <1>12, <1>13, <1>14, <1>15, <1>16, <1>17, <1>18, <1>19
     DEF Next

(* The steps that leave the course of events undisturbed. *)
CalmNext ==
  \/ submit \/ turnStarted \/ turnEnded
  \/ \E p \in Prompt: controlsApplied(p) \/ controlsFail(p) \/ abortQueued(p)
  \/ \E c \in calls: agentPrompt(c) \/ promptFails(c)
  \/ \E t \in running: endTurn(t)

\* While nothing has disturbed the plain course of events, only the actions of
\* CalmNext happen.
LEMMA CalmStep == IInv /\ Next /\ Undisturbed' => Undisturbed /\ CalmNext
<1> SUFFICES ASSUME IInv, Next, Undisturbed' PROVE Undisturbed /\ CalmNext
  OBVIOUS
<1> USE DEF IInv
<1>1. aborts \in Nat /\ steers \in Nat /\ foreign \in Nat
  BY DEF CountersOK
<1>2. ~(abort \/ abortBySession)
  BY <1>1 DEF abort, abortBySession, Undisturbed
<1>3. ~(foreignTurn \/ \E t \in running: goalContinues(t))
  BY <1>1 DEF foreignTurn, goalContinues, Undisturbed
<1>4. ~(\E sel \in Selections: steer(sel))
  BY <1>1 DEF steer, Undisturbed
<1>5. CASE CalmNext
  <2>1. UNCHANGED <<aborts, steers, foreign>>
    BY <1>5 DEF CalmNext, submit, turnStarted, turnEnded, controlsApplied, controlsFail,
                startFailed, abortQueued, agentPrompt, promptFails, endTurn, counters
  <2>2. overlapped => overlapped'
    <3>1. CASE submit
      <4>1. overlapped' = overlapped \/ StartedBy(submitted', active, pc, calls)
        BY <3>1, StartPrompt, Zenon DEF submit
      <4> QED
        BY <4>1, Zenon DEF StartedBy
    <3>2. ASSUME NEW act, NEW moved, NEW cs, _startNextQueued(act, moved, cs) \/ startsNone(act, moved, cs)
          PROVE  overlapped => overlapped'
      <4>1. CASE startsNone(act, moved, cs)
        BY <4>1 DEF startsNone
      <4>2. ASSUME NEW h, _startPrompt(h, act, moved, cs) PROVE overlapped => overlapped'
        BY <4>2, Zenon DEF _startPrompt
      <4> QED
        BY <3>2, <4>1, <4>2 DEF _startNextQueued
    <3>3. CASE turnEnded
      BY <3>2, <3>3 DEF turnEnded
    <3>4. CASE \E p \in Prompt: controlsFail(p)
      BY <3>2, <3>4 DEF controlsFail, startFailed
    <3>5. CASE \E c \in calls: promptFails(c)
      BY <3>2, <3>5 DEF promptFails, startFailed
    <3>6. CASE \/ turnStarted
               \/ \E p \in Prompt: controlsApplied(p) \/ abortQueued(p)
               \/ \E c \in calls: agentPrompt(c)
               \/ \E t \in running: endTurn(t)
      BY <3>6 DEF turnStarted, controlsApplied, abortQueued, agentPrompt, endTurn
    <3> QED
      BY <1>5, <3>1, <3>3, <3>4, <3>5, <3>6 DEF CalmNext
  <2> QED
    BY <1>5, <2>1, <2>2 DEF Undisturbed
<1>6. CASE \E c \in calls: agentSteer(c) \/ steerFails(c) \/ agentCancel(c) \/ cancelReturns(c) \/ cancelFails(c)
  <2>1. aborts = 0 /\ steers = 0
    BY <1>6 DEF agentSteer, steerFails, agentCancel, cancelReturns, cancelFails, counters, Undisturbed
  <2>2. \A c \in calls: c.op \notin {"steer", "cancel"}
    BY <2>1 DEF CountersOK
  <2> QED
    BY <1>6, <2>2 DEF agentSteer, steerFails, agentCancel, cancelReturns, cancelFails
<1>7. CASE \E t \in running: continuationStarts(t)
  <2>1. foreign = 0 /\ silent # {}
    BY <1>7 DEF continuationStarts, counters, Undisturbed
  <2> QED
    BY <2>1 DEF CountersOK
<1> QED
  BY <1>2, <1>3, <1>4, <1>5, <1>6, <1>7 DEF Next, CalmNext

(* Undisturbed, a prompt is started only where no other one is under way. *)
LEMMA CalmStart ==
  ASSUME IInv, Undisturbed, Undisturbed', turnOf' = turnOf, owner' = owner, Quiet',
         NEW moved \in [Prompt -> Pcs], NEW cs,
         \A q \in Prompt: moved[q] = pc[q] \/ moved[q] = "failed",
         \A q \in Prompt: moved[q] # "calling",
         \/ startsNone(None, moved, cs) /\ \A p, q \in Prompt:
              pc[p] = "controls" /\ pc[q] = "controls" => p = q
         \/ \E h \in Prompt: moved[h] \in {"new", "queued"} /\ StartedBy(h, None, moved, cs)
  PROVE  OneAtATime'
<1> USE DEF IInv
<1>1. \A p \in Prompt: p # None
  BY DEF Prompt, None
<1>2. \A q \in Prompt: moved[q] \in {"new", "queued", "controls", "calling"} => turnOf[q] = None
  BY DEF OneAtATime
<1>3. \A p \in Prompt: turnOf'[p] # None => owner'[turnOf'[p]] = p
  BY DEF OneAtATime
<1>4. CASE /\ startsNone(None, moved, cs)
           /\ \A p, q \in Prompt: pc[p] = "controls" /\ pc[q] = "controls" => p = q
  <2>1. active' = None /\ pc' = moved
    BY <1>4 DEF startsNone
  <2>2. \A p, q \in Prompt: moved[p] = "controls" /\ moved[q] = "controls" => p = q
    BY <1>4
  <2> QED
    BY <1>2, <1>3, <2>1, <2>2 DEF OneAtATime
<1>5. ASSUME NEW h \in Prompt, moved[h] \in {"new", "queued"}, StartedBy(h, None, moved, cs)
      PROVE  OneAtATime'
  <2>1. overlapped' = (overlapped \/ \E q \in Prompt: moved[q] = "controls")
    BY <1>5, Zenon DEF StartedBy
  <2>2. \A q \in Prompt: moved[q] # "controls"
    BY <2>1, Zenon DEF Undisturbed
  <2>3. CASE pc' = [moved EXCEPT ![h] = "controls"] /\ active' = None
    <3>1. \A q \in Prompt: pc'[q] \in {"new", "queued", "controls", "calling"} => turnOf'[q] = None
      BY <1>2, <1>5, <2>3
    <3> QED
      BY <1>3, <1>5, <2>2, <2>3, <3>1 DEF OneAtATime
  <2>4. CASE pc' = [moved EXCEPT ![h] = "calling"] /\ active' = h
    <3>1. \A q \in Prompt: pc'[q] \in {"new", "queued", "controls", "calling"} => turnOf'[q] = None
      BY <1>2, <1>5, <2>4
    <3>2. pc'[active'] = "calling" /\ \A q \in Prompt: pc'[q] # "controls"
      BY <1>5, <2>2, <2>4
    <3> QED
      BY <1>3, <1>5, <2>4, <3>1, <3>2 DEF OneAtATime
  <2> QED
    BY <1>5, <2>3, <2>4 DEF StartedBy
<1> QED
  BY <1>4, <1>5

(* Undisturbed, prompts keep being handled one at a time. *)
LEMMA OneAtATimeStep == IInv /\ Next => OneAtATime'
<1> SUFFICES ASSUME IInv, Next, Undisturbed' PROVE OneAtATime'
  BY DEF OneAtATime
<1> USE DEF IInv
<1>1. Undisturbed /\ CalmNext
  BY CalmStep
<1>2. aborted = {} /\ \A p \in Prompt: p # None
  BY <1>1 DEF CountersOK, Undisturbed, Prompt, None
<1>3. ~Live(None) /\ \A a: Live(a) <=> a # None
  BY <1>2 DEF Live
<1>4. pc \in [Prompt -> Pcs] /\ queue \in Seq(Prompt) /\ IsInjective(queue)
  BY DEF ServiceOK, Next, Followed
<1>5. \A p, q \in Prompt: pc[p] = "controls" /\ pc[q] = "controls" => p = q
  BY <1>1 DEF OneAtATime
<1>6. ASSUME NEW moved \in [Prompt -> Pcs], NEW cs,
             \A q \in Prompt: moved[q] = pc[q] \/ moved[q] = "failed",
             \A q \in Prompt: moved[q] # "calling" /\ (pc[q] = "queued" => moved[q] = "queued"),
             turnOf' = turnOf, owner' = owner, Quiet',
             _startNextQueued(None, moved, cs) \/ startsNone(None, moved, cs)
      PROVE  OneAtATime'
  <2>1. CASE startsNone(None, moved, cs)
    BY <1>1, <1>5, <1>6, <2>1, CalmStart
  <2>2. ASSUME NEW h \in Prompt, h \in ToSet(queue), StartedBy(h, None, moved, cs)
        PROVE  OneAtATime'
    <3>1. moved[h] = "queued"
      BY <1>6, <2>2 DEF ServiceOK
    <3> QED
      BY <1>1, <1>6, <2>2, <3>1, CalmStart
  <2> QED
    BY <1>4, <1>6, <2>1, <2>2, NextQueued
<1>7. ASSUME active # None PROVE active \in Prompt /\ pc[active] \in {"calling", "started"}
  BY <1>7 DEF ServiceOK
<1>8. ASSUME ~Quiet PROVE active # None /\ pc[active] = "started" /\ \E t \in Turns: TurnPhase(active, t)
  BY <1>1, <1>7, <1>8 DEF OneAtATime
<1>9. events \in Seq(EventRec) /\ Len(events) \in Nat
  BY LenProperties DEF AgentOK
<1>10. ASSUME events # <<>>
       PROVE  /\ Len(events) # 0 /\ Head(events) = events[1]
              /\ Len(Tail(events)) = Len(events) - 1
              /\ \A i \in 1..(Len(events) - 1): Tail(events)[i] = events[i + 1]
  BY <1>9, <1>10, HeadTailProperties, EmptySeq
<1>11. ASSUME UNCHANGED <<active, turnOf, events, owner, running, activeTurn>>,
              \A p \in Prompt: pc'[p] # pc[p] => pc'[p] \in {"queued", "removed"} /\ pc[p] \in {"new", "queued"}
       PROVE  OneAtATime'
  <2>1. \A p \in Prompt: pc'[p] \in {"controls", "calling", "started"} => pc'[p] = pc[p]
    BY <1>11
  <2>2. active # None => pc'[active] = pc[active]
    BY <1>7, <1>11
  <2>3. \A t: TurnPhase(active, t) => TurnPhase(active, t)'
    BY <1>11 DEF TurnPhase, Started, Ended
  <2>4. Turns' = Turns /\ (Quiet => Quiet')
    BY <1>11 DEF Turns, Quiet
  <2>5. \A p \in Prompt: pc'[p] \in {"new", "queued", "controls", "calling"} => turnOf[p] = None
    BY <1>1, <1>11 DEF OneAtATime
  <2> QED
    BY <1>1, <1>11, <2>1, <2>2, <2>3, <2>4, <2>5 DEF OneAtATime
<1>12. CASE submit
  <2> DEFINE p == submitted + 1
  <2>1. p \in Prompt /\ submitted' = p /\ pc[p] = "new"
    BY <1>12, PromptAssumption DEF submit, ServiceOK, Prompt
  <2> HIDE DEF p
  <2>2. CASE Live(active)
    <3>1. pc' = [pc EXCEPT ![p] = "queued"] /\ UNCHANGED <<active, turnOf, events, owner, running, activeTurn>>
      BY <1>12, <2>1, <2>2 DEF submit, agent
    <3> QED
      BY <1>4, <1>11, <2>1, <3>1
  <2>3. CASE ~Live(active)
    <3>1. active = None
      BY <1>3, <2>3
    <3>2. StartedBy(p, None, pc, calls)
      BY <1>12, <2>1, <2>3, <3>1, StartPrompt DEF submit
    <3>3. UNCHANGED <<turnOf, events, owner, running, activeTurn>>
      BY <1>12 DEF submit, agent
    <3>4. Quiet'
      BY <1>1, <3>1, <3>3 DEF OneAtATime, Quiet
    <3>5. \A q \in Prompt: pc[q] # "calling"
      BY <1>1, <1>2, <3>1 DEF OneAtATime
    <3> QED
      BY <1>1, <1>4, <2>1, <3>2, <3>3, <3>4, <3>5, CalmStart
  <2> QED
    BY <2>2, <2>3
<1>13. CASE turnStarted
  <2>1. /\ events # <<>> /\ Head(events).kind = "started" /\ events' = Tail(events)
        /\ UNCHANGED <<pc, active, owner, running, activeTurn>>
    BY <1>13 DEF turnStarted, agent
  <2>2. ~Quiet
    BY <1>10, <2>1 DEF Quiet
  <2>3. active \in Prompt /\ pc[active] = "started"
    BY <1>7, <1>8, <2>2
  <2>4. PICK t \in Turns: TurnPhase(active, t)
    BY <1>8, <2>2
  <2>5. turnOf[active] = None /\ Started(events[1], t) /\ owner[t] = active
    BY <1>10, <2>1, <2>4 DEF TurnPhase, Started, Ended
  <2>6. turnOf' = [turnOf EXCEPT ![active] = t]
    BY <1>2, <1>10, <1>13, <2>1, <2>3, <2>5 DEF turnStarted, Started
  <2>7. turnOf'[active] = t /\ \A q \in Prompt: q # active => turnOf'[q] = turnOf[q]
    BY <2>3, <2>6 DEF AgentOK
  <2>8. TurnPhase(active, t)'
    BY <1>10, <2>1, <2>4, <2>5, <2>7 DEF TurnPhase, Started, Ended
  <2>9. Turns' = Turns /\ active # None
    BY <1>2, <2>1, <2>3 DEF Turns
  <2> QED
    BY <1>1, <2>1, <2>3, <2>5, <2>7, <2>8, <2>9 DEF OneAtATime
<1>14. CASE turnEnded
  <2>1. /\ events # <<>> /\ Head(events).kind = "ended" /\ events' = Tail(events)
        /\ UNCHANGED <<turnOf, owner, running, activeTurn>>
    BY <1>14 DEF turnEnded, agent
  <2>2. ~Quiet
    BY <1>10, <2>1 DEF Quiet
  <2>3. active \in Prompt /\ active # None /\ pc[active] = "started"
    BY <1>7, <1>8, <2>2
  <2>4. PICK t \in Turns: TurnPhase(active, t)
    BY <1>8, <2>2
  <2>5. /\ running = {} /\ activeTurn = None /\ turnOf[active] = t
        /\ Len(events) = 1 /\ events[1].turn = t
    BY <1>10, <2>1, <2>4 DEF TurnPhase, Started, Ended
  <2>6. _startNextQueued(None, pc, calls)
    BY <1>10, <1>14, <2>1, <2>3, <2>5 DEF turnEnded
  <2>7. Quiet'
    BY <1>10, <2>1, <2>5 DEF Quiet
  <2>8. \A q \in Prompt: pc[q] # "calling"
    BY <1>1, <2>3 DEF OneAtATime
  <2> QED
    BY <1>4, <1>6, <2>1, <2>6, <2>7, <2>8
<1>15. ASSUME NEW p \in Prompt, controlsApplied(p) PROVE OneAtATime'
  <2>1. /\ pc[p] = "controls" /\ pc' = [pc EXCEPT ![p] = "calling"] /\ active' = p
        /\ UNCHANGED <<turnOf, events, owner, running, activeTurn>>
    BY <1>15 DEF controlsApplied, agent
  <2>2. active = None /\ turnOf[p] = None /\ Quiet
    BY <1>1, <2>1 DEF OneAtATime
  <2>3. Quiet' /\ Turns' = Turns
    BY <2>1, <2>2 DEF Quiet, Turns
  <2>4. \A q \in Prompt: pc[q] # "calling" /\ (pc[q] = "controls" => q = p)
    BY <1>1, <1>2, <2>1, <2>2 DEF OneAtATime
  <2>5. pc'[p] = "calling" /\ \A q \in Prompt: q # p => pc'[q] = pc[q]
    BY <1>4, <2>1
  <2> QED
    BY <1>1, <2>1, <2>2, <2>3, <2>4, <2>5 DEF OneAtATime
<1>16. ASSUME NEW p \in Prompt, controlsFail(p) PROVE OneAtATime'
  <2> DEFINE moved == [pc EXCEPT ![p] = "failed"]
  <2>1. /\ pc[p] = "controls" /\ UNCHANGED <<turnOf, events, owner, running, activeTurn>>
        /\ _startNextQueued(active, moved, calls) \/ startsNone(active, moved, calls)
    BY <1>16 DEF controlsFail, startFailed, agent
  <2>2. active = None /\ Quiet
    BY <1>1, <2>1 DEF OneAtATime
  <2>3. \A q \in Prompt: pc[q] # "calling"
    BY <1>1, <1>2, <2>2 DEF OneAtATime
  <2>4. /\ moved \in [Prompt -> Pcs] /\ \A q \in Prompt: moved[q] = pc[q] \/ moved[q] = "failed"
        /\ \A q \in Prompt: moved[q] # "calling" /\ (pc[q] = "queued" => moved[q] = "queued")
    BY <1>4, <2>1, <2>3 DEF Pcs
  <2>5. Quiet'
    BY <2>1, <2>2 DEF Quiet
  <2> HIDE DEF moved
  <2> QED
    BY <1>6, <2>1, <2>2, <2>4, <2>5
<1>17. ASSUME NEW c \in calls, promptFails(c) PROVE OneAtATime'
  <2>1. PICK p \in Prompt: c = Call("prompt", <<p>>, None) /\ pc[p] = "calling"
    BY <1>17 DEF promptFails, CallsOK, CallsFor
  <2>2. c.ps[1] = p /\ active = p /\ Quiet
    BY <1>1, <2>1 DEF Call, OneAtATime
  <2> DEFINE moved == [pc EXCEPT ![p] = "failed"]
  <2>3. /\ UNCHANGED <<turnOf, events, owner, running, activeTurn>>
        /\ \/ _startNextQueued(None, moved, calls \ {c})
           \/ startsNone(None, moved, calls \ {c})
    BY <1>17, <2>2 DEF promptFails, startFailed, agent
  <2>4. \A q \in Prompt: pc[q] = "calling" => q = p
    BY <1>1, <2>2 DEF OneAtATime
  <2>5. /\ moved \in [Prompt -> Pcs] /\ \A q \in Prompt: moved[q] = pc[q] \/ moved[q] = "failed"
        /\ \A q \in Prompt: moved[q] # "calling" /\ (pc[q] = "queued" => moved[q] = "queued")
    BY <1>4, <2>1, <2>4 DEF Pcs
  <2>6. Quiet'
    BY <2>2, <2>3 DEF Quiet
  <2> HIDE DEF moved
  <2> QED
    BY <1>6, <2>3, <2>5, <2>6
<1>18. ASSUME NEW p \in Prompt, abortQueued(p) PROVE OneAtATime'
  <2>1. pc[p] = "queued"
    BY <1>18 DEF abortQueued, ServiceOK, ToSet
  <2>2. /\ pc' = [pc EXCEPT ![p] = "removed"]
        /\ UNCHANGED <<active, turnOf, events, owner, running, activeTurn>>
    BY <1>18 DEF abortQueued, agent
  <2> QED
    BY <1>4, <1>11, <2>1, <2>2
<1>19. ASSUME NEW c \in calls, agentPrompt(c) PROVE OneAtATime'
  <2>1. PICK p \in Prompt: c = Call("prompt", <<p>>, None) /\ pc[p] = "calling"
    BY <1>19 DEF agentPrompt, CallsOK, CallsFor
  <2>2. c.ps[1] = p /\ active = p /\ Quiet /\ turnOf[p] = None
    BY <1>1, <2>1 DEF Call, OneAtATime
  <2>3. pc' = [pc EXCEPT ![p] = "started"] /\ launch(p) /\ UNCHANGED <<active, turnOf>>
    BY <1>19, <2>2 DEF agentPrompt, Quiet
  <2>4. /\ owner \in Seq(Prompt \cup {None}) /\ Len(owner) \in Nat /\ Turns = 1..Len(owner)
        /\ owner' = Append(owner, p)
    BY <2>3, LenProperties DEF AgentOK, Turns, launch
  <2>t. PICK t \in Nat: t = Len(owner) + 1
    BY <2>4
  <2>5. Len(owner') = t /\ owner'[t] = p /\ \A i \in Turns: owner'[i] = owner[i]
    BY <2>4, <2>t, AppendProperties
  <2>6. owner' \in Seq(Prompt \cup {None})
    BY <2>4, AppendProperties
  <2>7. t \in Turns'
    BY <2>4, <2>5, <2>6, <2>t, LenProperties DEF Turns
  <2>8. Len(events) = 0 /\ events' = Append(events, Event("started", t, ""))
        /\ running' = {t} /\ activeTurn' = t
    BY <2>2, <2>3, <2>t DEF Quiet, launch
  <2> DEFINE e == Event("started", t, "")
  <2>9. Started(e, t)
    BY DEF Started, Event
  <2> HIDE DEF e
  <2>b. events' = Append(events, e) /\ Len(events) = 0
    BY <2>8 DEF e
  <2>10. Len(events') = Len(events) + 1 /\ events'[Len(events) + 1] = e
    BY <1>9, <2>b
  <2>c. Len(events) + 1 = 1
    BY <2>b
  <2>a. Len(events') = 1 /\ events'[1] = e
    BY <2>c, <2>10, Zenon
  <2>11. TurnPhase(p, t)'
    BY <2>2, <2>3, <2>5, <2>8, <2>9, <2>a DEF TurnPhase
  <2>12. \A q \in Prompt: turnOf'[q] # None => owner'[turnOf'[q]] = q
    BY <1>1, <2>3, <2>5 DEF OneAtATime, AgentOK
  <2>13. pc'[p] = "started" /\ \A q \in Prompt: q # p => pc'[q] = pc[q]
    BY <1>4, <2>3
  <2>14. \A q \in Prompt: pc'[q] \notin {"calling", "controls"}
    BY <1>1, <1>2, <2>2, <2>13 DEF OneAtATime
  <2> QED
    BY <1>1, <1>2, <2>2, <2>3, <2>7, <2>11, <2>12, <2>13, <2>14 DEF OneAtATime
<1>20. ASSUME NEW s \in running, endTurn(s) PROVE OneAtATime'
  <2>1. ~Quiet
    BY DEF Quiet
  <2>2. active \in Prompt /\ active # None /\ pc[active] = "started"
    BY <1>7, <1>8, <2>1
  <2>3. PICK t \in Turns: TurnPhase(active, t)
    BY <1>8, <2>1
  <2>4. s = t /\ running = {t} /\ activeTurn = t
    BY <2>3 DEF TurnPhase
  <2>5. PICK reason: events' = Append(events, Event("ended", t, reason))
    BY <1>20, <2>4 DEF endTurn
  <2>6. running' = {} /\ activeTurn' = None /\ UNCHANGED <<pc, active, turnOf, owner>>
    BY <1>20, <2>4 DEF endTurn, service
  <2> DEFINE e == Event("ended", t, reason)
  <2>7. Ended(e, t)
    BY DEF Ended, Event
  <2>8. /\ Len(events') = Len(events) + 1 /\ events'[Len(events) + 1] = e
        /\ \A i \in 1..Len(events): events'[i] = events[i]
    BY <1>9, <2>5
  <2> HIDE DEF e
  <2>9. TurnPhase(active, t)'
    <3>1. owner'[t] = active
      BY <2>3, <2>6 DEF TurnPhase
    <3>2. CASE Len(events) = 0 /\ turnOf[active] = t
      BY <2>6, <2>7, <2>8, <3>1, <3>2 DEF TurnPhase
    <3>3. CASE Len(events) = 1 /\ turnOf[active] = None /\ Started(events[1], t)
      <4>1. Len(events') = 2 /\ events'[2] = e /\ events'[1] = events[1]
        BY <2>8, <3>3
      <4> QED
        BY <2>6, <2>7, <3>1, <3>3, <4>1 DEF TurnPhase
    <3> QED
      BY <2>3, <2>4, <3>2, <3>3 DEF TurnPhase
  <2>10. Turns' = Turns
    BY <2>6 DEF Turns
  <2> QED
    BY <1>1, <2>2, <2>6, <2>9, <2>10 DEF OneAtATime
<1> QED
  BY <1>1, <1>12, <1>13, <1>14, <1>15, <1>16, <1>17, <1>18, <1>19, <1>20 DEF CalmNext

(* Undisturbed and without failures, everything stays in order. *)
LEMMA InOrderStep == IInv /\ Next => InOrder'
<1> SUFFICES ASSUME IInv, Next, Undisturbed', failures' = 0 PROVE InOrder'
  BY DEF InOrder
<1> USE DEF IInv
<1>1. Undisturbed /\ CalmNext
  BY CalmStep
<1>2. failures \in Nat /\ aborted = {} /\ (\A p \in Prompt: p # None) /\ Prompt \in SUBSET Int
  BY <1>1 DEF CountersOK, Undisturbed, Prompt, None
<1>3. ~(\E p \in Prompt: controlsFail(p)) /\ ~(\E c \in calls: promptFails(c))
  <2>1. failures' # failures + 1
    BY <1>2
  <2> QED
    BY <2>1 DEF controlsFail, promptFails, startFailed
<1>4. failures = 0
  BY <1>1, <1>3 DEF CalmNext, submit, turnStarted, turnEnded, controlsApplied, abortQueued,
                    agentPrompt, endTurn, counters
<1>5. /\ Increasing(sent) /\ Increasing(queue)
      /\ \A p \in ToSet(sent), q \in Prompt: pc[q] \in {"controls", "calling", "queued"} => p < q
      /\ \A p, q \in Prompt: pc[p] \in {"controls", "calling"} /\ pc[q] = "queued" => p < q
  BY <1>1, <1>4 DEF InOrder
<1>6. /\ queue \in Seq(Prompt) /\ IsInjective(queue) /\ pc \in [Prompt -> Pcs]
      /\ ToSet(queue) = {p \in Prompt : pc[p] = "queued"}
      /\ sent \in Seq(Prompt) /\ ToSet(sent) \subseteq Prompt
  BY MemberFacts DEF ServiceOK, SentOK, Next, Followed
<1>7. \A p \in ToSet(sent): pc[p] \in {"started", "steered"}
  BY DEF SentOK
<1>8. ASSUME sent' = sent, Increasing(queue'),
             \A p \in Prompt: pc'[p] \in {"controls", "calling", "queued"} => pc[p] \in {"controls", "calling", "queued"},
             \A p \in Prompt: pc'[p] \in {"controls", "calling"} /\ pc[p] = "queued" =>
               \A q \in Prompt: pc'[q] = "queued" => p < q,
             \A p \in Prompt: pc'[p] = "queued" => pc[p] = "queued"
      PROVE  InOrder'
  <2>1. \A p \in ToSet(sent), q \in Prompt: pc'[q] \in {"controls", "calling", "queued"} => p < q
    BY <1>5, <1>8
  <2>2. \A p, q \in Prompt: pc'[p] \in {"controls", "calling"} /\ pc'[q] = "queued" => p < q
    BY <1>5, <1>8
  <2> QED
    BY <1>5, <1>8, <2>1, <2>2 DEF InOrder
<1>9. CASE submit
  <2> DEFINE p == submitted + 1
  <2>1. /\ p \in Prompt /\ submitted' = p /\ pc[p] = "new" /\ sent' = sent
        /\ \A q \in Prompt: pc[q] # "new" => q < p
    BY <1>9, PromptAssumption DEF submit, ServiceOK, Prompt, agent
  <2> HIDE DEF p
  <2>2. \A q \in ToSet(sent): q \in Prompt /\ q < p
    BY <1>6, <1>7, <2>1
  <2>3. CASE Live(active)
    <3>1. queue' = Append(queue, p) /\ pc' = [pc EXCEPT ![p] = "queued"]
      BY <1>9, <2>1, <2>3 DEF submit, _enqueue
    <3>2. \A q \in ToSet(queue): q < p
      BY <1>6, <2>1
    <3>3. Increasing(queue')
      BY <1>2, <1>5, <1>6, <2>1, <3>1, <3>2, PushIncreasing
    <3>4. \A x \in ToSet(sent), q \in Prompt: pc'[q] \in {"controls", "calling", "queued"} => x < q
      BY <1>5, <1>6, <2>1, <2>2, <3>1
    <3>5. \A x, q \in Prompt: pc'[x] \in {"controls", "calling"} /\ pc'[q] = "queued" => x < q
      BY <1>5, <1>6, <2>1, <3>1
    <3> QED
      BY <1>5, <2>1, <3>3, <3>4, <3>5 DEF InOrder
  <2>4. CASE ~Live(active)
    <3>1. active = None /\ queue' = queue
      BY <1>2, <1>9, <2>4 DEF submit, Live
    <3>2. StartedBy(p, active, pc, calls)
      BY <1>9, <2>1, <2>4, StartPrompt DEF submit
    <3>3. \A q \in Prompt: pc[q] # "controls"
      <4>1. overlapped' = (overlapped \/ \E q \in Prompt: pc[q] = "controls")
        BY <3>2, Zenon DEF StartedBy
      <4> QED
        BY <4>1, Zenon DEF Undisturbed
    <3>4. queue = <<>>
      BY <1>4, <3>1, <3>3 DEF QueueHasAStarter
    <3>5. \A q \in Prompt: pc[q] # "queued"
      BY <1>6, <3>4, MemberFacts
    <3>6. /\ pc'[p] \in {"controls", "calling"} /\ \A q \in Prompt: q # p => pc'[q] = pc[q]
      BY <1>6, <2>1, <3>2 DEF StartedBy
    <3>7. \A x \in ToSet(sent), q \in Prompt: pc'[q] \in {"controls", "calling", "queued"} => x < q
      BY <1>5, <2>2, <3>6
    <3>8. \A q \in Prompt: pc'[q] # "queued"
      BY <2>1, <3>5, <3>6
    <3> QED
      BY <1>5, <2>1, <3>1, <3>7, <3>8 DEF InOrder
  <2> QED
    BY <2>3, <2>4
<1>10. CASE turnEnded
  <2>1. sent' = sent
    BY <1>10 DEF turnEnded, agent
  <2>2. CASE pc' = pc /\ queue' = queue
    BY <1>5, <1>8, <2>1, <2>2
  <2>3. ASSUME NEW h \in Prompt, h \in ToSet(queue), h = Head(queue), queue # <<>>, queue' = Tail(queue),
               ToSet(queue') = ToSet(queue) \ {h}, StartedBy(h, None, pc, calls)
        PROVE  InOrder'
    <3>1. Increasing(queue') /\ \A x \in ToSet(queue'): h < x
      BY <1>2, <1>5, <1>6, <2>3, PopIncreasing
    <3>2. pc'[h] \in {"controls", "calling"} /\ pc[h] = "queued" /\ \A q \in Prompt: q # h => pc'[q] = pc[q]
      BY <1>6, <2>3 DEF StartedBy
    <3>3. \A q \in Prompt: pc'[q] = "queued" => pc[q] = "queued" /\ q \in ToSet(queue')
      BY <1>6, <2>3, <3>2
    <3> QED
      BY <1>8, <2>1, <3>1, <3>2, <3>3
  <2>4. _startNextQueued(None, pc, calls) \/ (pc' = pc /\ queue' = queue)
    BY <1>10 DEF turnEnded
  <2>5. startsNone(None, pc, calls) => pc' = pc /\ queue' = queue
    BY DEF startsNone
  <2> QED
    BY <1>6, <2>2, <2>3, <2>4, <2>5, NextQueued
<1>11. ASSUME NEW p \in Prompt, controlsApplied(p) PROVE InOrder'
  <2>1. pc[p] = "controls" /\ pc' = [pc EXCEPT ![p] = "calling"] /\ UNCHANGED <<queue, sent>>
    BY <1>11 DEF controlsApplied, agent
  <2> QED
    BY <1>5, <1>6, <1>8, <2>1
<1>12. ASSUME NEW p \in Prompt, abortQueued(p) PROVE InOrder'
  <2>1. PICK i \in DOMAIN queue: queue[i] = p /\ queue' = RemoveAt(queue, i)
    BY <1>12 DEF abortQueued
  <2>2. Increasing(queue')
    BY <1>2, <1>5, <1>6, <2>1, RemoveAtIncreasing
  <2>3. pc' = [pc EXCEPT ![p] = "removed"] /\ sent' = sent
    BY <1>12 DEF abortQueued, agent
  <2> QED
    BY <1>6, <1>8, <2>2, <2>3
<1>13. ASSUME NEW c \in calls, agentPrompt(c) PROVE InOrder'
  <2>1. PICK p \in Prompt: c = Call("prompt", <<p>>, None) /\ pc[p] = "calling"
    BY <1>13 DEF agentPrompt, CallsOK, CallsFor
  <2>2. c.ps = <<p>> /\ c.ps[1] = p /\ active = p
    BY <1>1, <2>1 DEF Call, OneAtATime
  <2>3. pc' = [pc EXCEPT ![p] = "started"] /\ queue' = queue /\ sent' = sent \o <<p>>
    BY <1>13, <2>2 DEF agentPrompt
  <2>4. sent' = Append(sent, p)
    BY <1>6, <2>3, AppendIsConcat
  <2>5. Increasing(sent') /\ ToSet(sent') = ToSet(sent) \cup {p}
    BY <1>2, <1>5, <1>6, <2>1, <2>4, PushIncreasing
  <2>6. \A q \in Prompt: q # p => pc[q] \notin {"calling", "controls"}
    BY <1>1, <1>2, <2>2 DEF OneAtATime
  <2>7. pc'[p] = "started" /\ \A q \in Prompt: q # p => pc'[q] = pc[q]
    BY <1>6, <2>3
  <2>8. \A x \in ToSet(sent'), q \in Prompt: pc'[q] \in {"controls", "calling", "queued"} => x < q
    BY <1>5, <2>1, <2>5, <2>6, <2>7
  <2>9. \A x \in Prompt: pc'[x] \notin {"controls", "calling"}
    BY <2>6, <2>7
  <2> QED
    BY <1>5, <2>3, <2>5, <2>8, <2>9 DEF InOrder
<1>14. CASE turnStarted \/ \E t \in running: endTurn(t)
  <2>1. UNCHANGED <<pc, queue, sent>>
    BY <1>14 DEF turnStarted, endTurn, service, agent
  <2> QED
    BY <1>5, <1>8, <2>1
<1> QED
  BY <1>1, <1>3, <1>9, <1>10, <1>11, <1>12, <1>13, <1>14 DEF CalmNext

-----------------------------------------------------------------------------
(* The theorems. *)

(* The conjunction is inductive. *)
LEMMA NextIInv == IInv /\ Next => IInv'
BY AgentStep, ServiceStep, OnceStep, SentStep, OutcomeStep, CountersStep, StarterStep,
   OneAtATimeStep, InOrderStep, Zenon DEF IInv

LEMMA StutterIInv == IInv /\ UNCHANGED vars => IInv'
<1> SUFFICES ASSUME IInv, UNCHANGED vars PROVE IInv'
  OBVIOUS
<1> USE DEF vars, service, agent, counters
<1>1. AgentOK' /\ ServiceOK'
  BY DEF IInv, AgentOK, EventRec, Turns, ServiceOK
<1>2. CallsOK' /\ OnceOK' /\ SentOK'
  BY DEF IInv, CallsOK, OnceOK, SentOK, SentOnce
<1>3. OutcomeOK' /\ CountersOK' /\ QueueHasAStarter'
  BY DEF IInv, OutcomeOK, CountersOK, QueueHasAStarter
<1>4. OneAtATime' /\ InOrder'
  BY DEF IInv, OneAtATime, TurnPhase, Quiet, Started, Ended, Turns, InOrder, Undisturbed
<1> QED
  BY <1>1, <1>2, <1>3, <1>4 DEF IInv

(* So it holds throughout, whatever is aborted, steered, started by others or *)
(* rejected.                                                                  *)
LEMMA AlwaysIInv == Spec => []IInv
<1>1. Init => IInv
  BY InitIInv
<1>2. IInv /\ [Next]_vars => IInv'
  BY NextIInv, StutterIInv
<1> QED
  BY <1>1, <1>2, PTL DEF Spec

(* Type correctness: the queue of the service holds exactly the waiting       *)
(* prompts, and the agent works for a turn that has not ended.                *)
THEOREM PromptTypeCorrect == Spec => []PromptTypeOK
<1>1. IInv => PromptTypeOK
  BY DEF IInv, AgentOK, ServiceOK, OnceOK, PromptTypeOK
<1> QED
  BY <1>1, AlwaysIInv, PTL

(* No interleaving of abort(), the answer of cancel() and turn.ended reports a *)
(* prompt twice.                                                              *)
THEOREM PromptOneOutcome == Spec => []OneOutcome
<1>1. IInv => OneOutcome
  <2>1. IInv => outcome \in [Prompt -> Outcomes]
    BY DEF IInv, OutcomeOK
  <2>2. \A x \in Outcomes: Len(x) <= 1
    <3>1. Len(<<>>) <= 1 /\ Len(<<"aborted">>) <= 1 /\ Len(<<"completed">>) <= 1
      OBVIOUS
    <3> QED
      BY <3>1, Zenon DEF Outcomes
  <2> QED
    BY <2>1, <2>2 DEF OneOutcome
<1> QED
  BY <1>1, AlwaysIInv, PTL

(* No sequence of steers, failed steers and starts sends an input twice, but   *)
(* of a prompt that one steer named twice.                                    *)
THEOREM PromptSentOnce == Spec => []SentOnce
<1>1. IInv => SentOnce
  BY DEF IInv, SentOK
<1> QED
  BY <1>1, AlwaysIInv, PTL

(* Without failures a waiting prompt always has somebody to start it. *)
THEOREM PromptQueueHasAStarter == Spec => []QueueHasAStarter
<1>1. IInv => QueueHasAStarter
  BY DEF IInv
<1> QED
  BY <1>1, AlwaysIInv, PTL

(* Undisturbed, turn.started is always mapped to the prompt of its turn. *)
THEOREM PromptOwnTurn == Spec => []OwnTurn
<1>1. IInv => OwnTurn
  BY DEF IInv, OneAtATime, OwnTurn
<1> QED
  BY <1>1, AlwaysIInv, PTL

(* Undisturbed and without failures, inputs arrive in the order of submission. *)
THEOREM PromptFifoOrder == Spec => []FifoOrder
<1>1. IInv => FifoOrder
  BY DEF IInv, InOrder, Increasing, FifoOrder
<1> QED
  BY <1>1, AlwaysIInv, PTL
=============================================================================
