--------------------------- MODULE FullCompaction ---------------------------
(***************************************************************************)
(* The life of a full compaction (agent/compaction/full.ts): it summarizes *)
(* the history it saw when it began, rewrites the history, puts the        *)
(* reminders back and only then stops being `compacting`.  A cancelled     *)
(* compaction's worker ends later than `compacting` is cleared.            *)
(*                                                                         *)
(* The history is a sequence: a number n > 0 is the n-th submitted input,  *)
(* 0 is anything else (the message of a step, which exists from step.begin *)
(* on, tool results, summaries).  While recorded tool calls await their    *)
(* results, appendMessage() parks what it is given instead.                *)
(***************************************************************************)
EXTENDS Naturals, Sequences, SequencesExt, FiniteSets

CONSTANT MaxCompactions    \* bound: compactions in one behaviour

ASSUME MaxCompactionsAssumption == MaxCompactions \in Nat

VARIABLES
  history,      \* agent.context.history
  origins,      \* origins[n]: where input n came from, "user" or "note"
  exchange,     \* the worker whose calls are in pendingToolResultIds, or 0
  parked,       \* context.deferredMessages, behind the open tool exchange
  summarized,   \* inputs that survive only in a summary
  dropped,      \* inputs a compaction dropped from deferredMessages
  compacting,   \* the number of the compaction in this.compacting, or 0
  compactions   \* all compactions begun so far

compactionVars == <<compacting, compactions>>
historyVars == <<history, exchange, parked>>
contextVars == <<historyVars, origins, summarized, dropped>>

isRealUserInput(item) == item # 0 /\ origins[item] = "user"

(* filter(): the items at the positions K of a sequence, in their order.   *)
(* A set of one sequence, given by the positions in ascending order.       *)
Ascending(K) ==
  {f \in [1..Cardinality(K) -> K] :
     (\A i, j \in DOMAIN f : i < j => f[i] < f[j]) /\ K = {f[i] : i \in DOMAIN f}}
Filtered(seq, K) == {[j \in DOMAIN f |-> seq[f[j]]] : f \in Ascending(K)}

CompactionInit ==
  /\ history = << >> /\ origins = << >> /\ exchange = 0 /\ parked = << >>
  /\ summarized = {} /\ dropped = {}
  /\ compacting = 0 /\ compactions = << >>

hasOpenToolExchange == exchange # 0

appendMessage(items) ==
  /\ IF hasOpenToolExchange
       THEN parked' = parked \o items /\ UNCHANGED history
       ELSE history' = history \o items /\ UNCHANGED parked
  /\ UNCHANGED exchange

(* The history with the open exchange closed by its results, or by made-up *)
(* ones, the parked messages flushed behind them, and further items.       *)
Settled(items) ==
  (IF hasOpenToolExchange THEN Append(history, 0) ELSE history) \o parked \o items

(* closePendingToolResults(), then what is appended to a closed exchange.  *)
ClosesWith(hist) == history' = hist /\ exchange' = 0 /\ parked' = << >>

(* begin(): a second begin() while one is in progress does nothing.  An    *)
(* automatic compaction is begun by a turn, which then waits for it.       *)
begin(source) ==
  /\ compacting = 0
  /\ history # << >>
  /\ Len(compactions) < MaxCompactions
  /\ compactions' = Append(compactions,
       [pc |-> "summarizing", aborted |-> FALSE, blockedByTurn |-> (source = "auto"),
        original |-> history])
  /\ compacting' = Len(compactions) + 1

(* The compactions after cancel(), which aborts the one in this.compacting *)
(* and forgets it, and does nothing when there is none.                    *)
Cancelled ==
  IF compacting = 0 THEN compactions ELSE [compactions EXCEPT ![compacting].aborted = TRUE]

(* The worker of compaction c is over, its promise resolved or rejected.   *)
Over(cs, c, how) == [cs EXCEPT ![c].pc = how, ![c].original = << >>]

\* Mutant: a waiting turn never hears of a failure.
IsOver_DoneOnly(c) == compactions[c].pc = "done"

IsOver(c) == compactions[c].pc \in {"done", "failed"}

(* The tail that arrived while the summarizer ran. *)
NewTail(c) == SubSeq(history, Len(compactions[c].original) + 1, Len(history))

\* Mutant: only the prefix is compared.
Compactable_AnyTail(c) == IsPrefix(compactions[c].original, history)

(* The prefix is what was summarized and nothing behind it would vanish. *)
Compactable(c) ==
  /\ IsPrefix(compactions[c].original, history)
  /\ \A i \in DOMAIN NewTail(c) : isRealUserInput(NewTail(c)[i])

(* applyCompaction(): the user's messages are kept, then the summary.      *)
(* Earlier summaries, pinned in the source, are one 0 with the new one;    *)
(* the token budget for kept messages is assumed not to be exceeded.  The  *)
(* pending calls are forgotten, and with them what was parked behind them. *)
applyCompaction(c) ==
  /\ \E kept \in Filtered(history, {i \in DOMAIN history : isRealUserInput(history[i])}) :
       ClosesWith(Append(kept, 0))
  /\ dropped' = dropped \cup (ToSet(parked) \ {0})
  /\ summarized' = summarized \cup
       {n \in ToSet(compactions[c].original) : n # 0 /\ ~isRealUserInput(n)}
  /\ compactions' = [compactions EXCEPT ![c].pc = "reinjecting", ![c].original = << >>]
  /\ UNCHANGED compacting

(* compactionRound(): the summary of an un-aborted round arrives. *)
summaryArrives(c) == compactions[c].pc = "summarizing" /\ ~compactions[c].aborted

(* An aborted round ends on its signal. *)
roundAborts(c) ==
  /\ compactions[c].pc = "summarizing" /\ compactions[c].aborted
  /\ compactions' = Over(compactions, c, "done")
  /\ UNCHANGED compacting

(* The history moved on under the summarizer: cancel() and no result. *)
roundBails(c) ==
  /\ summaryArrives(c) /\ ~Compactable(c)
  /\ compactions' = Over(Cancelled, c, "done")
  /\ compacting' = 0

(* The catch of compactionWorker(): the error goes to a turn that waits.   *)
workerFails(c) ==
  /\ summaryArrives(c) \/ compactions[c].pc = "reinjecting"
  /\ compactions' = Over(Cancelled, c,
       IF compacting # 0 /\ compactions[compacting].blockedByTurn THEN "failed" ELSE "done")
  /\ compacting' = 0

\* Mutant: the compaction is over, for the agent it is not.
markCompleted_KeepsFlag(c) ==
  /\ compactions[c].pc = "reinjecting"
  /\ compactions' = Over(compactions, c, "done")
  /\ UNCHANGED compacting

(* The reminders are back: markCompleted().  Nobody looks at the signal.   *)
markCompleted(c) ==
  /\ compactions[c].pc = "reinjecting"
  /\ compactions' = Over(compactions, c, "done")
  /\ compacting' = 0
=============================================================================
