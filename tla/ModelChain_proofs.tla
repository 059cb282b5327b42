---------------------------- MODULE ModelChain_proofs -----------------------------
(***************************************************************************)
(* Theorems about ModelChain, for a chain of any length and answers of any *)
(* size.                                                                   *)
(***************************************************************************)
EXTENDS ModelChain, FiniteSetTheorems, SequenceTheorems, TLAPS

-----------------------------------------------------------------------------------
(* The inductive invariant.                                                *)

Kinds == {"text", "call", "usage"}
Events == [kind : Kinds, model : Nat \ {0}]
Active == {"ask", "stream", "calls"}

TypeOK ==
  /\ call \in Calls
  /\ pc \in Active \cup Ends
  /\ failed \in Seq(Failures)
  /\ calls \in 0..MaxCalls
  /\ out \in Seq(Events)

\* The events of a model are together, in the order of the chain, and begin with text; only a
\* model that has answered is no longer being asked, and only text of a stream outlives one
\* that has failed.
Received ==
  /\ \A i, j \in DOMAIN out : i < j =>
       /\ out[i].model <= out[j].model
       /\ out[j].kind = "text" => out[i].kind = "text"
  /\ \A i \in DOMAIN out :
       /\ out[i].model <= Model
       /\ out[i].model < Model => Live /\ out[i].kind = "text"
       /\ out[i].kind = "usage" => i = Len(out) /\ pc = "answered"
       /\ pc \in {"ask", "unavailable", "incompatible", "raised"} => out[i].model < Model
       /\ pc = "stream" => out[i].kind = "text"

\* Deltas come from a live stream, and an answer ends with the usage, after all its calls.
Phases ==
  /\ pc = "stream" => Live
  /\ pc = "answered" => out # <<>> /\ Last(out) = Usage /\ Emitted(Call) = calls

IInv == TypeOK /\ FallsBackOnTransientErrors /\ Received /\ Phases

-----------------------------------------------------------------------------------
(* Facts about sequences.                                                  *)

\* Appending, element by element.
LEMMA Appended ==
  ASSUME NEW S, NEW s \in Seq(S), NEW e \in S
  PROVE  /\ Append(s, e) \in Seq(S) /\ Append(s, e) # <<>>
         /\ Len(s) \in Nat /\ Len(Append(s, e)) = Len(s) + 1
         /\ DOMAIN s = 1..Len(s) /\ DOMAIN Append(s, e) = 1..Len(s) + 1
         /\ \A i \in DOMAIN s : Append(s, e)[i] = s[i]
         /\ Append(s, e)[Len(s) + 1] = e
         /\ Front(Append(s, e)) = s /\ Last(Append(s, e)) = e
<1>1. /\ Append(s, e) \in Seq(S) /\ Len(s) \in Nat /\ Len(Append(s, e)) = Len(s) + 1
      /\ DOMAIN s = 1..Len(s) /\ DOMAIN Append(s, e) = 1..Len(s) + 1
      /\ \A i \in DOMAIN s : Append(s, e)[i] = s[i]
      /\ Append(s, e)[Len(s) + 1] = e
  OBVIOUS
<1>2. Append(s, e) # <<>>
  BY <1>1
<1>3. Last(Append(s, e)) = e
  BY <1>1 DEF Last
<1>4. Front(Append(s, e)) = s
  <2> DEFINE f == SubSeq(Append(s, e), 1, Len(s))
  <2>1. /\ f \in Seq(S) /\ Len(f) = Len(s)
        /\ \A i \in 1..Len(s) : f[i] = Append(s, e)[i]
    BY <1>1
  <2>2. f = s
    BY <1>1, <2>1, SeqEqual
  <2> QED BY <1>1, <2>2 DEF Front
<1> QED BY <1>1, <1>2, <1>3, <1>4

\* What has been received, event by event.
LEMMA Elements ==
  ASSUME out \in Seq(Events)
  PROVE  /\ DOMAIN out = 1..Len(out) /\ Len(out) \in Nat
         /\ \A i \in DOMAIN out : i \in Nat /\ out[i] \in Events /\ out[i].model \in Nat \ {0}
<1>1. DOMAIN out = 1..Len(out) /\ Len(out) \in Nat
  OBVIOUS
<1>2. \A i \in DOMAIN out : i \in Nat /\ out[i] \in Events
  BY <1>1, ElementOfSeq
<1> QED BY <1>1, <1>2 DEF Events

\* Appending another event leaves the number of the calls as it was.
LEMMA CountKept ==
  ASSUME out \in Seq(Events), NEW e \in Events, NEW f, e # f, out' = Append(out, e)
  PROVE  Cardinality({i \in DOMAIN out' : out'[i] = f}) = Emitted(f)
<1>1. {i \in DOMAIN out' : out'[i] = f} = {i \in DOMAIN out : out[i] = f}
  BY Appended
<1> QED BY <1>1 DEF Emitted

\* The events of the model being asked.
LEMMA EventsAreEvents ==
  ASSUME failed \in Seq(Failures)
  PROVE  /\ Len(failed) \in Nat /\ Model \in Nat \ {0}
         /\ Text \in Events /\ Call \in Events /\ Usage \in Events
         /\ Text # Usage /\ Call # Usage /\ Text # Call
         /\ Text.kind = "text" /\ Call.kind = "call" /\ Usage.kind = "usage"
         /\ Text.model = Model /\ Call.model = Model /\ Usage.model = Model
  BY DEF Text, Call, Usage, Event, Model, Events, Kinds

-----------------------------------------------------------------------------------
(* Each step keeps the invariant.                                          *)

LEMMA Start == Init => IInv
<1> SUFFICES ASSUME Init PROVE IInv
  OBVIOUS
<1>1. TypeOK
  BY ChainAssumption DEF Init, TypeOK, Active
<1>2. FallsBackOnTransientErrors
  BY ChainAssumption DEF Init, FallsBackOnTransientErrors, Transient
<1>3. Received /\ Phases
  BY DEF Init, Received, Phases
<1> QED BY <1>1, <1>2, <1>3 DEF IInv

\* The provider fails, on the request or in a stream: all there is, is text of a stream.
LEMMA FailKeeps ==
  ASSUME IInv, NEW failure \in Failures, Fail(failure)
  PROVE  IInv'
<1>1. /\ failed' \in Seq(Failures) /\ Len(failed') = Len(failed) + 1 /\ Len(failed) \in Nat
      /\ DOMAIN failed' = 1..Len(failed) + 1 /\ DOMAIN failed = 1..Len(failed)
      /\ \A i \in DOMAIN failed : failed'[i] = failed[i]
      /\ failed'[Len(failed) + 1] = failure
      /\ Front(failed') = failed /\ Last(failed') = failure
  BY Appended DEF IInv, TypeOK, Fail
<1>2. Transient(failed) /\ Len(failed) < Len(Chain) /\ pc \in {"ask", "stream"}
  BY DEF IInv, FallsBackOnTransientErrors, Fail
<1>3. pc' \in {"ask", "unavailable", "raised", "incompatible"}
  BY DEF Fail, AfterFailure, Failures
<1>4. TypeOK'
  BY <1>1, <1>3 DEF IInv, TypeOK, Fail, Active, Ends
<1>5. FallsBackOnTransientErrors'
  <2>1. CASE failure = "transient"
    <3>1. Transient(failed')
      BY <1>1, <1>2, <2>1 DEF Transient
    <3>2. pc' = IF Len(failed) + 1 < Len(Chain) THEN "ask" ELSE "unavailable"
      BY <2>1 DEF Fail, AfterFailure, Model
    <3> QED BY <1>1, <1>2, <3>1, <3>2, ChainAssumption DEF FallsBackOnTransientErrors
  <2>2. CASE failure # "transient"
    <3>1. pc' \in {"raised", "incompatible"}
      BY <2>2 DEF Fail, AfterFailure, Failures
    <3>2. Transient(Front(failed')) /\ Last(failed') # "transient"
      BY <1>1, <1>2, <2>2
    <3> QED BY <3>1, <3>2 DEF FallsBackOnTransientErrors
  <2> QED BY <2>1, <2>2
<1>6. Model' = Model + 1 /\ Model \in Nat /\ UNCHANGED <<call, out>> /\ (Live' <=> Live)
  BY <1>1 DEF Model, Fail, Live
<1>7. \A i \in DOMAIN out : out[i].model \in Nat
  BY Elements DEF IInv, TypeOK
<1>8. \A i \in DOMAIN out : out[i].kind = "text" /\ out[i].model <= Model /\ Live
  BY <1>2, <1>6, <1>7 DEF IInv, Received, Phases
<1>9. Received'
  BY <1>3, <1>6, <1>7, <1>8 DEF IInv, Received
<1>10. Phases'
  BY <1>3 DEF Phases
<1> QED BY <1>4, <1>5, <1>9, <1>10 DEF IInv

\* An event of the model being asked is added to what the caller has got.
LEMMA EventKeeps ==
  ASSUME IInv, NEW kind \in Kinds, out' = Append(out, Event(kind)),
         UNCHANGED <<call, failed, calls>>,
         \/ kind = "text" /\ pc = "stream" /\ pc' = "stream"
         \/ kind = "call" /\ pc = "calls" /\ pc' = "calls"
         \/ kind = "usage" /\ pc = "calls" /\ pc' = "answered" /\ Emitted(Call) = calls
  PROVE  IInv'
<1> DEFINE e == Event(kind)
<1>1. /\ e \in Events /\ e.kind = kind /\ e.model = Model /\ Model \in Nat \ {0}
      /\ out \in Seq(Events) /\ Model' = Model /\ (Live' <=> Live)
  BY EventsAreEvents DEF IInv, TypeOK, Event, Events, Model, Live
<1>2. /\ out' \in Seq(Events) /\ out' # <<>> /\ Len(out) \in Nat /\ Len(out') = Len(out) + 1
      /\ DOMAIN out = 1..Len(out) /\ DOMAIN out' = 1..Len(out) + 1
      /\ \A i \in DOMAIN out : out'[i] = out[i]
      /\ out'[Len(out) + 1] = e /\ Last(out') = e
  BY <1>1, Appended
<1>3. TypeOK'
  BY <1>2 DEF IInv, TypeOK, Active, Ends
<1>4. FallsBackOnTransientErrors'
  BY DEF IInv, FallsBackOnTransientErrors
<1>5. \A i \in DOMAIN out : out[i].model \in Nat /\ out[i].model <= Model /\ out[i].kind # "usage"
  BY <1>1, Elements DEF IInv, Received
<1>6. Received'
  <2>1. ASSUME NEW i \in DOMAIN out', NEW j \in DOMAIN out', i < j
        PROVE  /\ out'[i].model <= out'[j].model
               /\ out'[j].kind = "text" => out'[i].kind = "text"
    <3>1. i \in DOMAIN out
      BY <1>2, <2>1
    <3>2. CASE j \in DOMAIN out
      BY <1>2, <2>1, <3>1, <3>2 DEF IInv, Received
    <3>3. CASE j = Len(out) + 1
      BY <1>1, <1>2, <1>5, <3>1, <3>3 DEF IInv, Received
    <3> QED BY <1>2, <3>2, <3>3
  <2>2. ASSUME NEW i \in DOMAIN out'
        PROVE  /\ out'[i].model <= Model'
               /\ out'[i].model < Model' => Live' /\ out'[i].kind = "text"
               /\ out'[i].kind = "usage" => i = Len(out') /\ pc' = "answered"
               /\ pc' = "stream" => out'[i].kind = "text"
    <3>1. CASE i \in DOMAIN out
      BY <1>1, <1>2, <1>5, <3>1 DEF IInv, Received
    <3>2. CASE i = Len(out) + 1
      BY <1>1, <1>2, <3>2
    <3> QED BY <1>2, <3>1, <3>2
  <2> QED BY <2>1, <2>2 DEF Received
<1>7. Phases'
  <2>1. CASE pc' = "answered"
    <3>1. e = Usage /\ Usage' = Usage /\ Call' = Call /\ e # Call
      BY <1>1, <2>1, EventsAreEvents DEF Usage, Call, Event, Model, IInv, TypeOK
    <3>2. Cardinality({i \in DOMAIN out' : out'[i] = Call}) = calls
      BY <1>1, <2>1, <3>1, CountKept
    <3>3. Emitted(Call)' = calls'
      BY <3>1, <3>2 DEF Emitted
    <3> QED BY <1>2, <2>1, <3>1, <3>3 DEF Phases
  <2>2. CASE pc' # "answered"
    BY <1>1, <2>2 DEF IInv, Phases
  <2> QED BY <2>1, <2>2
<1> QED BY <1>3, <1>4, <1>6, <1>7 DEF IInv

\* A whole answer: before it, this caller has got nothing.
LEMMA RespondKeeps ==
  ASSUME IInv, NEW n \in 0..MaxCalls, NEW text \in BOOLEAN, Respond(n, text)
  PROVE  IInv'
<1> DEFINE said == IF text THEN <<Text>> ELSE <<>>
           asked == [i \in 1..n |-> Call]
           all == said \o asked \o <<Usage>>
<1>1. /\ pc = "ask" /\ ~Live /\ calls' = n /\ pc' \in {"calls", "answered"}
      /\ UNCHANGED <<call, failed>> /\ Model' = Model /\ n \in Nat
  BY ChainAssumption DEF Respond, Model
<1>2. /\ Model \in Nat \ {0} /\ Text \in Events /\ Call \in Events /\ Usage \in Events
      /\ Text # Usage /\ Call # Usage /\ Text # Call
      /\ Text.kind = "text" /\ Call.kind = "call" /\ Usage.kind = "usage"
      /\ Text.model = Model /\ Call.model = Model /\ Usage.model = Model
      /\ Text' = Text /\ Call' = Call /\ Usage' = Usage
  BY <1>1, EventsAreEvents DEF IInv, TypeOK, Text, Call, Usage, Event
<1>3. FallsBackOnTransientErrors'
  BY <1>1 DEF IInv, FallsBackOnTransientErrors
<1>4. /\ said \in Seq(Events) /\ Len(said) \in {0, 1}
      /\ \A i \in 1..Len(said) : said[i] = Text
  BY <1>2
<1>5. asked \in Seq(Events) /\ Len(asked) = n /\ \A i \in 1..n : asked[i] = Call
  BY <1>1, <1>2
<1>6. CASE Streams /\ out' = said /\ pc' = "calls"
  <2>1. TypeOK'
    BY <1>1, <1>4, <1>6 DEF IInv, TypeOK, Active, Ends
  <2>2. \A i \in DOMAIN out' : out'[i] = Text
    BY <1>4, <1>6
  <2>3. Received'
    BY <1>1, <1>2, <1>6, <2>2 DEF Received
  <2>4. Phases'
    BY <1>6 DEF Phases
  <2> QED BY <1>3, <2>1, <2>3, <2>4 DEF IInv
<1>7. CASE ~Streams /\ out' = all /\ pc' = "answered"
  <2> DEFINE k == Len(said)
  <2>1. /\ all \in Seq(Events) /\ Len(all) = k + n + 1 /\ DOMAIN all = 1..k + n + 1
        /\ \A i \in 1..k + n + 1 :
             all[i] = IF i <= k THEN Text ELSE IF i <= k + n THEN Call ELSE Usage
    <3>1. /\ said \o asked \in Seq(Events) /\ Len(said \o asked) = k + n
          /\ \A i \in 1..k + n : (said \o asked)[i] = IF i <= k THEN said[i] ELSE asked[i - k]
      BY <1>4, <1>5, ConcatProperties
    <3>2. <<Usage>> \in Seq(Events) /\ Len(<<Usage>>) = 1 /\ <<Usage>>[1] = Usage
      BY <1>2
    <3> HIDE DEF said, asked
    <3>3. /\ all \in Seq(Events) /\ Len(all) = k + n + 1
          /\ \A i \in 1..k + n + 1 :
               all[i] = IF i <= k + n THEN (said \o asked)[i] ELSE <<Usage>>[i - (k + n)]
      BY <3>1, <3>2, ConcatProperties
    <3> QED BY <1>1, <1>4, <1>5, <3>1, <3>2, <3>3
  <2> HIDE DEF said, asked, all
  <2>2. TypeOK'
    BY <1>1, <1>7, <2>1 DEF IInv, TypeOK, Active, Ends
  <2>3. Received'
    <3>1. \A i \in DOMAIN out' :
            /\ i \in 1..k + n + 1 /\ out'[i].model = Model
            /\ out'[i].kind = "text" => i <= k
            /\ i <= k => out'[i].kind = "text"
            /\ out'[i].kind = "usage" => i = k + n + 1
      BY <1>1, <1>2, <1>4, <1>7, <2>1
    <3>2. Len(out') = k + n + 1 /\ k \in Nat
      BY <1>4, <1>7, <2>1
    <3> QED BY <1>1, <1>2, <1>7, <3>1, <3>2 DEF Received
  <2>4. {i \in DOMAIN out' : out'[i] = Call} = k + 1..k + n
    BY <1>1, <1>2, <1>4, <1>7, <2>1
  <2>5. Cardinality(k + 1..k + n) = n
    BY <1>1, <1>4, FS_Interval
  <2>6. Emitted(Call)' = n
    BY <1>2, <2>4, <2>5 DEF Emitted
  <2>7. out' # <<>> /\ Last(out') = Usage'
    BY <1>1, <1>2, <1>4, <1>7, <2>1 DEF Last
  <2>8. Phases'
    BY <1>1, <1>7, <2>6, <2>7 DEF Phases
  <2> QED BY <1>3, <2>2, <2>3, <2>8 DEF IInv
<1> QED BY <1>6, <1>7 DEF Respond

LEMMA Invariance == Spec => []IInv
<1>1. IInv /\ [Next]_vars => IInv'
  <2> SUFFICES ASSUME IInv, [Next]_vars PROVE IInv'
    OBVIOUS
  <2>1. CASE Accept
    <3>1. UNCHANGED <<call, failed, calls, out, Model>> /\ pc = "ask" /\ pc' = "stream" /\ Live /\ Live'
      BY <2>1 DEF Accept, Model, Live
    <3> QED BY <3>1 DEF IInv, TypeOK, Active, Ends, FallsBackOnTransientErrors, Received, Phases
  <2>2. CASE Delta
    BY <2>2, EventKeeps DEF Delta, Text, Kinds
  <2>3. ASSUME NEW n \in 0..MaxCalls, Final(n) PROVE IInv'
    <3>1. UNCHANGED <<call, failed, out, Model, Live>> /\ pc = "stream" /\ pc' = "calls" /\ calls' = n
      BY <2>3 DEF Final, Model, Live
    <3> QED BY <3>1 DEF IInv, TypeOK, Active, Ends, FallsBackOnTransientErrors, Received, Phases
  <2>4. ASSUME NEW n \in 0..MaxCalls, NEW text \in BOOLEAN, Respond(n, text) PROVE IInv'
    BY <2>4, RespondKeeps
  <2>5. ASSUME NEW failure \in Failures, Fail(failure) PROVE IInv'
    BY <2>5, FailKeeps
  <2>6. CASE EmitCall
    BY <2>6, EventKeeps DEF EmitCall, Call, Kinds
  <2>7. CASE EmitUsage
    BY <2>7, EventKeeps DEF EmitUsage, Usage, Kinds
  <2>8. CASE Drop
    <3>1. UNCHANGED <<call, failed, calls, out, Model, Live>> /\ pc \in {"stream", "calls"} /\ pc' = "dropped"
      BY <2>8 DEF Drop, Model, Live
    <3> QED BY <3>1 DEF IInv, TypeOK, Active, Ends, FallsBackOnTransientErrors, Received, Phases
  <2>9. CASE UNCHANGED vars
    BY <2>9 DEF vars, IInv, TypeOK, FallsBackOnTransientErrors, Received, Phases, Model, Live,
                Emitted, Usage, Call, Event
  <2> QED BY <2>1, <2>2, <2>3, <2>4, <2>5, <2>6, <2>7, <2>8, <2>9 DEF Next, Over
<1> QED BY Start, <1>1, PTL DEF Spec

-----------------------------------------------------------------------------------
(* The theorems.                                                           *)

\* A call's events, failures and state are what the code can produce, whatever the provider
\* does.
THEOREM TypeCorrect == Spec => []TypeOK
BY Invariance, PTL DEF IInv

\* Along a chain of any length: a model is asked only because all before it were out for the
\* moment, and the chain is exhausted only when each of them was.
THEOREM FallbackFollowsTheChain == Spec => []FallsBackOnTransientErrors
BY Invariance, PTL DEF IInv

\* However a stream is cut and whoever answers in the end, the usage is the last event, and it
\* comes after exactly the calls of the answer.
THEOREM AnswersEndWithUsage == Spec => []UsageEndsTheAnswer
<1>1. IInv => UsageEndsTheAnswer
  BY DEF IInv, Received, Phases, UsageEndsTheAnswer
<1> QED BY <1>1, Invariance, PTL

\* A model that fails leaves a caller nothing, except the text of a stream that broke.
THEOREM OnlyTextSurvives == Spec => []OnlyBrokenStreamsLeaveText
<1>1. ASSUME IInv, NEW i \in DOMAIN out,
             out[i].model < Model \/ pc \in {"unavailable", "incompatible", "raised"}
      PROVE  /\ Live /\ out[i].kind = "text" /\ out[i].model \in DOMAIN failed
             /\ \A j \in i + 1..Len(out) : out[i].model <= out[j].model
  <2>1. out \in Seq(Events) /\ failed \in Seq(Failures)
    BY <1>1 DEF IInv, TypeOK
  <2>2. /\ DOMAIN out = 1..Len(out) /\ Len(out) \in Nat /\ i \in Nat
        /\ DOMAIN failed = 1..Len(failed) /\ Len(failed) \in Nat
        /\ out[i].model \in Nat \ {0}
    BY <2>1, Elements
  <2>3. out[i].model < Model
    BY <1>1 DEF IInv, Received
  <2>4. Live /\ out[i].kind = "text"
    BY <1>1, <2>3 DEF IInv, Received
  <2>5. out[i].model \in DOMAIN failed
    BY <2>2, <2>3 DEF Model
  <2>6. \A j \in i + 1..Len(out) : out[i].model <= out[j].model
    BY <1>1, <2>2 DEF IInv, Received
  <2> QED BY <2>4, <2>5, <2>6
<1>2. IInv => OnlyBrokenStreamsLeaveText
  BY <1>1 DEF OnlyBrokenStreamsLeaveText
<1> QED BY <1>2, Invariance, PTL

===================================================================================
