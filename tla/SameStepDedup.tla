--------------------------- MODULE SameStepDedup ----------------------------
(***************************************************************************)
(* The same-step half of ToolCallDeduplicator (agent/turn/tool-dedup.ts):  *)
(* a second call with the same tool and arguments in one model step is not *)
(* executed; its result is the first one's, through a deferred that the    *)
(* first call's finalization resolves.                                     *)
(*                                                                         *)
(* A call is [id, key]; its key stands for the tool's name and canonical   *)
(* arguments, pinned at registration (callKeyByCallId).  A deferred is     *)
(* "none" (no entry in stepDeferreds), "open", or the result it resolved   *)
(* to.                                                                     *)
(***************************************************************************)
CONSTANT Key     \* the (tool name, arguments) pairs of the instance

NoDedup ==
  [ deferreds  |-> [k \in Key |-> "none"],
    registered |-> {},     \* callKeyByCallId
    synthetic  |-> {},     \* syntheticCallIds
    original   |-> {} ]    \* originalCallIndex

\* Mutant: the deferreds of the last step are kept.
beginStep_KeepsDeferreds(dedup) == [NoDedup EXCEPT !.deferreds = dedup.deferreds]

(* beginStep() resolves and forgets the deferreds of the last step.  What  *)
(* they resolve to ("lost") can only be read by a call still waiting.      *)
beginStep(dedup) == NoDedup

(* checkSameStep() is synchronous: the first call of a key opens its       *)
(* deferred, a later one becomes a synthetic duplicate.                    *)
checkSameStep(dedup, call) ==
  IF dedup.deferreds[call.key] # "none"
    THEN [dedup EXCEPT !.registered = @ \cup {call.id},
                       !.synthetic = @ \cup {call.id}]
    ELSE [dedup EXCEPT !.registered = @ \cup {call.id},
                       !.original = @ \cup {call.id},
                       !.deferreds[call.key] = "open"]

IsDuplicate(dedup, call) == call.id \in dedup.synthetic

(* registerSkipped(): a call that bypassed the prepare hook. *)
registerSkipped(dedup, call) ==
  IF call.id \in dedup.registered THEN dedup ELSE checkSameStep(dedup, call)

(* finalizeResult() of a duplicate awaits the original's deferred. *)
MustWait(dedup, call) ==
  LET d == registerSkipped(dedup, call)
  IN  IsDuplicate(d, call) /\ d.deferreds[call.key] = "open"

(* The result finalizeResult() returns once it need not wait. *)
FinalOutcome(dedup, call, outcome) ==
  LET d == registerSkipped(dedup, call)
  IN  IF IsDuplicate(d, call) THEN d.deferreds[call.key] ELSE outcome

\* Mutant: only a successful result resolves the deferred.
finalizeResult_OnSuccess(dedup, call, outcome) ==
  LET d == registerSkipped(dedup, call)
      resolved == IF call.id \in d.original /\ outcome = "ok"
                    THEN [d.deferreds EXCEPT ![call.key] = outcome]
                    ELSE d.deferreds
  IN  [ deferreds  |-> resolved,
        registered |-> d.registered \ {call.id},
        synthetic  |-> d.synthetic \ {call.id},
        original   |-> d.original \ {call.id} ]

(* The bookkeeping finalizeResult() leaves behind. *)
finalizeResult(dedup, call, outcome) ==
  LET d == registerSkipped(dedup, call)
      resolved == IF call.id \in d.original
                    THEN [d.deferreds EXCEPT ![call.key] = outcome]
                    ELSE d.deferreds
  IN  [ deferreds  |-> resolved,
        registered |-> d.registered \ {call.id},
        synthetic  |-> d.synthetic \ {call.id},
        original   |-> d.original \ {call.id} ]
=============================================================================
