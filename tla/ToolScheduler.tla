--------------------------- MODULE ToolScheduler ----------------------------
(***************************************************************************)
(* The scheduler of the tool calls of one model step                       *)
(* (loop/tool-scheduler.ts, class ToolScheduler).                          *)
(*                                                                         *)
(* A task is identified with the number of its add() call: add() appends   *)
(* the newest task to queuedTasks and startQueuedTasks() only filters the  *)
(* array, so the array's order is the order of these numbers and both      *)
(* arrays are sets here.  A task whose promise has settled stays in        *)
(* activeTasks until the microtask that runs finish().                     *)
(***************************************************************************)
EXTENDS ToolAccess, FiniteSets

CONSTANT MaxTasks    \* bound: how many tasks a step adds

ASSUME MaxTasksAssumption == MaxTasks \in Nat

VARIABLES
  added,        \* number of add() calls so far: the tasks are 1..added
  accesses,     \* accesses[t]: the access list task t was added with
  activeTasks,  \* tasks started and not yet removed by finish()
  queuedTasks,  \* tasks waiting, in the order of their numbers
  settled       \* active tasks whose result promise has settled

vars == <<added, accesses, activeTasks, queuedTasks, settled>>

Tasks == 1..added

(* add/start/finish: both arrays hold added tasks only, and a task whose   *)
(* promise has settled is in activeTasks until finish() removes it.        *)
TypeOK ==
  /\ added \in 0..MaxTasks
  /\ accesses \in [Tasks -> AccessLists]
  /\ activeTasks \subseteq Tasks
  /\ queuedTasks \subseteq Tasks
  /\ settled \subseteq activeTasks

Init ==
  /\ added = 0
  /\ accesses = << >>
  /\ activeTasks = {}
  /\ queuedTasks = {}
  /\ settled = {}

---------------------------------------------------------------------------
conflictsWithAny(accs, list, candidates) ==
  \E candidate \in candidates : <<list, accs[candidate]>> \in Conflicts

\* Mutant: only the running tasks block.
isBlocked_ActiveOnly(accs, list, active, queuedBefore) ==
  conflictsWithAny(accs, list, active)

isBlocked(accs, list, active, queuedBefore) ==
  \/ conflictsWithAny(accs, list, active)
  \/ conflictsWithAny(accs, list, queuedBefore)

\* Mutant: a queued task is tested against the running tasks alone.
Startable_IgnoresQueue(accs, active, queued) ==
  {t \in queued : ~isBlocked(accs, accs[t], active, {})}

(* The tasks startQueuedTasks() starts.  The loop meets the queue in order *)
(* and has put every earlier task either into activeTasks or into          *)
(* stillQueued when it tests the next one, so that one is blocked exactly  *)
(* by the tasks that were active and by ALL tasks queued before it.        *)
Startable(accs, active, queued) ==
  {t \in queued : ~isBlocked(accs, accs[t], active, {u \in queued : u < t})}

(* startQueuedTasks() as written: the loop over the queue, with the two    *)
(* arrays it builds.                                                       *)
Visit(accs, arrays, task) ==
  IF isBlocked(accs, accs[task], arrays.active, arrays.stillQueued)
    THEN [arrays EXCEPT !.stillQueued = @ \cup {task}]
    ELSE [arrays EXCEPT !.active = @ \cup {task}]

startQueuedTasks(accs, active, queue) ==
  FoldLeft(LAMBDA arrays, task : Visit(accs, arrays, task),
           [active |-> active, stillQueued |-> {}], queue)

(* add(): the task is queued behind a conflicting task, or started. *)
add(list) ==
  LET t == added + 1
  IN  /\ added < MaxTasks
      /\ added' = t
      /\ accesses' = [u \in 1..t |-> IF u = t THEN list ELSE accesses[u]]
      /\ IF isBlocked(accesses, list, activeTasks, queuedTasks)
           THEN /\ queuedTasks' = queuedTasks \cup {t}
                /\ UNCHANGED activeTasks
           ELSE /\ activeTasks' = activeTasks \cup {t}
                /\ UNCHANGED queuedTasks
      /\ UNCHANGED settled

(* start(): the started tool's promise resolves or rejects. *)
settle(t) ==
  /\ t \in activeTasks \ settled
  /\ settled' = settled \cup {t}
  /\ UNCHANGED <<added, accesses, activeTasks, queuedTasks>>

\* Mutant: the settled task stays in the bookkeeping.
finish_KeepsSettled(t) ==
  LET remaining == activeTasks \ {t}
      startable == Startable(accesses, remaining, queuedTasks)
  IN  /\ t \in settled
      /\ activeTasks' = remaining \cup startable
      /\ queuedTasks' = queuedTasks \ startable
      /\ UNCHANGED <<added, accesses, settled>>

\* Mutant: startQueuedTasks() is not called.
finish_StartsNothing(t) ==
  /\ t \in settled
  /\ activeTasks' = activeTasks \ {t}
  /\ settled' = settled \ {t}
  /\ UNCHANGED <<added, accesses, queuedTasks>>

(* finish(): the task leaves activeTasks and startQueuedTasks() runs. *)
finish(t) ==
  LET remaining == activeTasks \ {t}
      startable == Startable(accesses, remaining, queuedTasks)
  IN  /\ t \in settled
      /\ activeTasks' = remaining \cup startable
      /\ queuedTasks' = queuedTasks \ startable
      /\ settled' = settled \ {t}
      /\ UNCHANGED <<added, accesses>>

Next ==
  \/ \E list \in AccessLists : add(list)
  \/ \E t \in Tasks : settle(t)
  \/ \E t \in Tasks : finish(t)

(* A tool's promise settles (tool-call.ts bounds a cancelled tool by a     *)
(* grace timer) and the finally callback of a settled promise runs.        *)
Fairness ==
  \A t \in 1..MaxTasks :
    /\ WF_vars(t \in Tasks /\ settle(t))
    /\ WF_vars(t \in Tasks /\ finish(t))

Spec == Init /\ [][Next]_vars
FairSpec == Spec /\ Fairness

---------------------------------------------------------------------------
(* Properties *)

(* Tasks that were added and have not finished. *)
Pending == activeTasks \cup queuedTasks

(* isBlocked/start: two tools never run together when one of them may      *)
(* change a file the other one touches, whatever spelling of the path they *)
(* were called with.                                                       *)
NoSharedWriteOverlap ==
  \A t, u \in activeTasks : t # u => <<accesses[t], accesses[u]>> \notin SharedWrites

(* add/startQueuedTasks: the scheduler runs a task exactly when no         *)
(* conflicting task added before it is still pending.  No task overtakes a *)
(* conflicting one, none runs beside one, and none is left in the queue    *)
(* once nothing stands in its way.                                         *)
RunsExactlyUnblocked ==
  \A t \in Pending :
    t \in activeTasks <=>
      \A u \in Pending : u < t => <<accesses[t], accesses[u]>> \notin Conflicts

(* The array queuedTasks with these members: in the order they were added. *)
Queues(tasks) ==
  {queue \in [1..Cardinality(tasks) -> tasks] :
     \A i, j \in DOMAIN queue : i < j => queue[i] < queue[j]}

(* startQueuedTasks: the set Startable starts is the one the source's loop *)
(* starts, for every task that may leave activeTasks next.                 *)
StartableIsTheLoop ==
  \A t \in activeTasks : \A queue \in Queues(queuedTasks) :
    LET remaining == activeTasks \ {t}
        startable == Startable(accesses, remaining, queuedTasks)
    IN  startQueuedTasks(accesses, remaining, queue)
          = [active |-> remaining \cup startable,
             stillQueued |-> queuedTasks \ startable]

(* finish: a task that has been started is never put back into the queue   *)
(* and a task that left the scheduler never comes back.                    *)
NoRestart ==
  [][/\ activeTasks \cap queuedTasks' = {}
     /\ \A t \in Tasks : t \notin Pending => t \notin Pending']_vars

(* finish: every task the scheduler has accepted is eventually done, as    *)
(* long as running tools settle.                                           *)
EveryTaskFinishes ==
  \A t \in 1..MaxTasks : t \in Pending ~> t \notin Pending
=============================================================================
