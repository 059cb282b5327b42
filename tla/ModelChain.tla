-------------------------------- MODULE ModelChain --------------------------------
(***************************************************************************)
(* One call of a model client (lulu/llm): complete() or stream(), of the   *)
(* Anthropic client or of one that speaks the OpenAI API, over the chain   *)
(* of a model and its fallbacks.  The provider may answer or fail in any   *)
(* way, and a stream may break after any of its deltas; who consumes a     *)
(* stream may drop it.  AgentTurn's Complete and Die are the outcomes.     *)
(***************************************************************************)
EXTENDS Naturals, SequencesExt

CONSTANTS
  Chain,       \* _model_chain(): the model and its fallback_models
  MaxDeltas,   \* bound: the text deltas of one answer
  MaxCalls     \* bound: its tool calls

ASSUME ChainAssumption == Len(Chain) \in Nat \ {0} /\ MaxDeltas \in Nat /\ MaxCalls \in Nat

VARIABLES
  call,     \* which client, operation and whether tools are passed
  pc,
  failed,   \* how the models asked so far have failed, in order
  calls,    \* the tool calls of the answer
  out       \* what the caller has got: events, each with the position of its model

vars == <<call, pc, failed, calls, out>>

Calls == [client : {"anthropic", "openai"}, op : {"complete", "stream"}, tools : BOOLEAN]
Failures == {"transient", "rejected", "other"}
Ends == {"answered", "unavailable", "incompatible", "raised", "dropped"}

\* The model being asked: last_error is of the one before.
Model == Len(failed) + 1

Event(kind) == [kind |-> kind, model |-> Model]
Text == Event("text")
Call == Event("call")
Usage == Event("usage")

Emitted(event) == Cardinality({i \in DOMAIN out : out[i] = event})

\* The deltas come from the provider one at a time only here.
Live == call.client = "anthropic" /\ call.op = "stream"
Streams == call.op = "stream"

Init ==
  /\ call \in Calls
  /\ pc = "ask"
  /\ failed = <<>>
  /\ calls = 0
  /\ out = <<>>

\* The request is accepted: an answer, or the beginning of a stream.
Accept ==
  /\ pc = "ask" /\ Live
  /\ pc' = "stream"
  /\ UNCHANGED <<call, failed, calls, out>>

\* A text_delta is yielded.
Delta ==
  /\ pc = "stream"
  /\ Emitted(Text) < MaxDeltas
  /\ out' = Append(out, Text)
  /\ UNCHANGED <<call, pc, failed, calls>>

\* get_final_message: the tool calls and the usage are known.
Final(n) ==
  /\ pc = "stream" /\ n \in 0..MaxCalls /\ (n > 0 => call.tools)
  /\ calls' = n
  /\ pc' = "calls"
  /\ UNCHANGED <<call, failed, out>>

\* A whole answer: complete() returns it, the OpenAI stream() emits it as events.
Respond(n, text) ==
  LET said == IF text THEN <<Text>> ELSE <<>> IN
  /\ pc = "ask" /\ ~Live /\ n \in 0..MaxCalls /\ (n > 0 => call.tools)
  /\ calls' = n
  /\ \/ /\ Streams
        /\ out' = said
        /\ pc' = "calls"
     \/ /\ ~Streams
        /\ out' = said \o [i \in 1..n |-> Call] \o <<Usage>>
        /\ pc' = "answered"
  /\ UNCHANGED <<call, failed>>

\* Mutant of AfterFailure: any failure moves on to the next model.
AfterAnyFailure(failure) == IF Model < Len(Chain) THEN "ask" ELSE "unavailable"

\* A transient failure moves on to the next model in the chain, if there is one; anything
\* else ends the call at once.
AfterFailure(failure) ==
  CASE failure = "transient" -> IF Model < Len(Chain) THEN "ask" ELSE "unavailable"
    [] failure = "rejected"  -> IF call.client = "openai" /\ call.tools THEN "incompatible" ELSE "raised"
    [] failure = "other"     -> "raised"

\* Mutant of Fail: the answer may break off between its calls too.
FailAnywhere(failure) ==
  /\ pc \in {"ask", "stream", "calls"}
  /\ failed' = Append(failed, failure)
  /\ pc' = AfterFailure(failure)
  /\ UNCHANGED <<call, calls, out>>

\* The provider fails: on the request, or in the middle of a stream, whose deltas have
\* been yielded already.
Fail(failure) ==
  /\ pc \in {"ask", "stream"}
  /\ failed' = Append(failed, failure)
  /\ pc' = AfterFailure(failure)
  /\ UNCHANGED <<call, calls, out>>

\* The calls, one event each.
EmitCall ==
  /\ pc = "calls"
  /\ Emitted(Call) < calls
  /\ out' = Append(out, Call)
  /\ UNCHANGED <<call, pc, failed, calls>>

\* Mutant of EmitUsage: the usage comes before the calls.
EmitUsageEarly ==
  /\ pc = "calls"
  /\ out' = Append(out, Usage)
  /\ pc' = "answered"
  /\ UNCHANGED <<call, failed, calls>>

EmitUsage ==
  /\ pc = "calls"
  /\ Emitted(Call) = calls
  /\ out' = Append(out, Usage)
  /\ pc' = "answered"
  /\ UNCHANGED <<call, failed, calls>>

\* A consumer closes the generator at a yield.
Drop ==
  /\ Streams /\ out # <<>> /\ pc \in {"stream", "calls"}
  /\ pc' = "dropped"
  /\ UNCHANGED <<call, failed, calls, out>>

Over == pc \in Ends /\ UNCHANGED vars

Next == \/ Accept \/ Delta \/ (\E n \in 0..MaxCalls : Final(n))
        \/ (\E n \in 0..MaxCalls, text \in BOOLEAN : Respond(n, text))
        \/ (\E failure \in Failures : Fail(failure))
        \/ EmitCall \/ EmitUsage \/ Drop
        \/ Over

Spec == Init /\ [][Next]_vars

-----------------------------------------------------------------------------------
(* Properties.                                                             *)

Transient(failures) == \A i \in DOMAIN failures : failures[i] = "transient"

\* Models are asked in the order of the chain, and each only because all before it were
\* out for the moment; a bad key or request is not tried on another model, and the chain is
\* said to be exhausted only if every model of it was asked.
FallsBackOnTransientErrors ==
  CASE pc = "unavailable"                -> Transient(failed) /\ Len(failed) = Len(Chain)
    [] pc \in {"raised", "incompatible"} -> Transient(Front(failed)) /\ Last(failed) # "transient"
    [] OTHER                             -> Transient(failed) /\ Len(failed) < Len(Chain)

\* client.py: a UsageDelta is always the last event of a stream, and there is one if and only
\* if the model has answered: with all its calls, that model's, after its text.
UsageEndsTheAnswer ==
  /\ \A i \in DOMAIN out : out[i].kind = "usage" => i = Len(out) /\ pc = "answered"
  /\ \A i, j \in DOMAIN out : (i < j /\ out[j].kind = "text") => out[i].kind = "text"
  /\ pc = "answered" => Last(out) = Usage /\ Emitted(Call) = calls

\* Whatever a caller has got is of the model that answers in the end, or text that a broken
\* Anthropic stream had yielded before: in every other case a call that fails gives nothing.
OnlyBrokenStreamsLeaveText ==
  \A i \in DOMAIN out : (out[i].model < Model \/ pc \in {"unavailable", "incompatible", "raised"}) =>
    /\ Live /\ out[i].kind = "text" /\ out[i].model \in DOMAIN failed
    /\ \A j \in i + 1..Len(out) : out[i].model <= out[j].model

===================================================================================
