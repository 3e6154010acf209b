--------------------------- MODULE StepTranscript ---------------------------
(***************************************************************************)
(* What a model step promises about its transcript, whatever happens       *)
(* inside it: once the final response is known its tool calls are recorded *)
(* one by one in provider order; each gets exactly one result; results     *)
(* come in provider order too; the step never ends with a call whose       *)
(* result is missing; and a call is left open for its result only where no *)
(* two calls have one id, so that a result belongs to one call.            *)
(***************************************************************************)
EXTENDS Naturals, Sequences, SequencesExt

CONSTANT MaxBatch     \* bound: calls in one response

VARIABLES
  response,  \* ids of the calls of the final response, empty before it is known
  calls,     \* ids of the tool.call events
  results,   \* ids of the tool.result events
  ended      \* the step has been sealed or abandoned

transcript == <<response, calls, results, ended>>

TInit == response = << >> /\ calls = << >> /\ results = << >> /\ ~ended

IsResponse(ids) == Len(ids) \in 1..MaxBatch

Receive ==
  /\ ~ended /\ response = << >>
  /\ IsResponse(response')
  /\ UNCHANGED <<calls, results, ended>>

Announces == calls' = Append(calls, response[Len(calls) + 1])

Announce ==
  /\ ~ended /\ Len(calls) < Len(response)
  /\ IsInjective(response)
  /\ Announces
  /\ UNCHANGED <<response, results, ended>>

Answer ==
  /\ ~ended /\ Len(results) < Len(calls)
  /\ results' = Append(results, calls[Len(results) + 1])
  /\ UNCHANGED <<response, calls, ended>>

(* A call the step closes on the spot: both events in one go. *)
AnnounceAndAnswer ==
  /\ ~ended /\ Len(results) = Len(calls) /\ Len(calls) < Len(response)
  /\ Announces
  /\ results' = calls'
  /\ UNCHANGED <<response, ended>>

End ==
  /\ ~ended
  /\ Len(results) = Len(calls)
  /\ Len(calls) \in {0, Len(response)}
  /\ ended'
  /\ UNCHANGED <<response, calls, results>>

(* A response whose calls are dropped ends the step in the same breath. *)
ReceiveAndEnd ==
  /\ ~ended /\ response = << >>
  /\ response' = << >> \/ IsResponse(response')
  /\ ended'
  /\ UNCHANGED <<calls, results>>

(* The turn goes on with another step: after one that has ended, or in     *)
(* place of one that was given up before its response was known.           *)
NextStep ==
  /\ ended \/ response = << >>
  /\ response' = << >> /\ calls' = << >> /\ results' = << >>
  /\ ~ended'

TNext ==
  \/ Receive \/ Announce \/ Answer \/ AnnounceAndAnswer \/ End \/ ReceiveAndEnd
  \/ NextStep

TSpec == TInit /\ [][TNext]_transcript
=============================================================================
