----------------------------- MODULE AgentTurn_proofs -----------------------------
(***************************************************************************)
(* Theorems about AgentTurn, for any number of workers, turns, calls and   *)
(* iterations, any tools and any modes: the shape of a turn and of what it *)
(* leaves in the log, the audit of its calls, the pairing of calls and     *)
(* results, and what is recorded and remembered of a turn.                 *)
(***************************************************************************)
EXTENDS AgentTurn, SequenceTheorems, FiniteSetTheorems, WellFoundedInduction, TLAPS

-----------------------------------------------------------------------------------
(* The shape of a turn.                                                    *)

Pcs == {"idle", "ready", "model", "check", "ask", "dispatch", "running", "remember", "append"}
Results == {"ran", "refused"}

Doing == [pc : Pcs, turn : 0..MaxTurns, iter : 0..MaxIterations, messages : Seq(Message),
          base : Nat, usages : Seq(Usages), results : Seq(Results),
          tool : Tools \cup {None}, escalated : BOOLEAN]

Between == {"idle", "ready"}
Calls == {"check", "ask", "dispatch", "running"}

\* A prompt comes before the first response.
Numbered(m) == (m.kind = "prompt" => m.iter = 0) /\ (m.kind = "reply" => m.iter # 0)

\* What comes next in a turn: the results of a response's calls, or the next response.
Follows(m, next) ==
  \/ Calling(m) /\ Answers(m, next)
  \/ m.kind # "reply" /\ next.kind = "reply" /\ next.iter = m.iter + 1

\* The responses whose usage has been written, if the first message that is not is m.
Settled(m) == IF m.kind = "reply" THEN m.iter - 1 ELSE m.iter

\* The usages of the responses not written yet, in order.
Owes(d, m) ==
  /\ Len(d.usages) = d.iter - Settled(m)
  /\ \A k \in 1..Len(d.usages) : d.usages[k] = <<d.turn, Settled(m) + k>>

\* What the end of the conversation is, in each phase of the turn.
Phase(d, last) ==
  CASE d.pc = "model" -> last.kind # "reply" /\ d.iter < MaxIterations
    [] d.pc \in Calls -> Calling(last) /\ Len(d.results) < last.calls
    [] OTHER          -> ~Calling(last)

\* From the message at base + 1 on, the messages are of this turn and follow one another.
\* That one is the prompt until the turn is written to the log.
InTurn(d) ==
  /\ d.turn # 0 /\ d.base < Len(d.messages)
  /\ \A i \in d.base + 1..Len(d.messages) :
       d.messages[i].turn = d.turn /\ d.messages[i].iter <= d.iter
  /\ \A i \in d.base + 1..Len(d.messages) - 1 : Follows(d.messages[i], d.messages[i + 1])
  /\ d.messages[Len(d.messages)].iter = d.iter
  /\ Phase(d, d.messages[Len(d.messages)])
  /\ \/ d.messages[d.base + 1].kind = "prompt"
     \/ /\ d.pc = "append" /\ d.base # 0
        /\ d.messages[d.base].turn = d.turn
        /\ Follows(d.messages[d.base], d.messages[d.base + 1])
  /\ Owes(d, d.messages[d.base + 1])

Good(d) ==
  /\ d \in Doing
  /\ \A i \in DOMAIN d.messages : Numbered(d.messages[i]) /\ d.messages[i].usage = NoUsage
  /\ d.base <= Len(d.messages)
  /\ d.pc \notin Between => InTurn(d)

\* A line of the log is torn, or a message with the usage of the response it is.
Line(m) ==
  \/ m \in {Torn, Merged}
  \/ /\ m \in Message /\ Numbered(m)
     /\ m.usage = IF m.kind = "reply" THEN <<m.turn, m.iter>> ELSE NoUsage

Ran == {e.call : e \in effects}

Shape ==
  /\ worker \in [Workers -> Doing]
  /\ \A w \in Workers : Good(worker[w]) /\ worker[w].turn <= turns
  /\ file \in Seq(Message \cup {Torn, Merged})
  /\ \A i \in DOMAIN file : Line(file[i])
  /\ log \in [CallIds -> Seq(Outcomes)]
  /\ effects \subseteq [call : CallIds, escalated : BOOLEAN]
  /\ commands \subseteq Ran
  /\ memory \subseteq [turn : Turns, text : Usages]
  /\ turns \in 0..MaxTurns /\ lost \subseteq 1..turns /\ mixed \in BOOLEAN

-----------------------------------------------------------------------------------
(* Facts about numbers and sequences.                                      *)

\* The largest of a set of numbers that has one.
LEMMA MaxIsMember ==
  ASSUME NEW S, NEW n \in Nat, S \subseteq 0..n, S # {}
  PROVE  Max(S) \in S /\ \A x \in S : Max(S) >= x
<1> DEFINE T == {k \in Nat : \A s \in S : s <= k}
<1>1. n \in T /\ T \subseteq Nat
  OBVIOUS
<1>2. PICK k \in T : \A j \in T : ~(<<j, k>> \in OpToRel(<, Nat))
  BY <1>1, WFMin, NatLessThanWellFounded
<1>3. \A j \in T : ~(j < k)
  BY <1>2 DEF OpToRel
<1>4. k \in S
  <2>1. CASE k = 0
    <3>1. PICK s \in S : TRUE
      OBVIOUS
    <3>2. s <= k /\ s \in Nat
      OBVIOUS
    <3> QED BY <2>1, <3>2
  <2>2. CASE k # 0 /\ k \notin S
    <3>1. k - 1 \in Nat /\ k - 1 < k
      BY <2>2
    <3>2. \A s \in S : s <= k - 1
      BY <2>2
    <3> QED BY <1>3, <3>1, <3>2
  <2> QED BY <2>1, <2>2
<1>5. k \in S /\ \A x \in S : k >= x
  BY <1>4
<1> QED BY <1>5, Zenon DEF Max

\* Appending, element by element.
LEMMA Added ==
  ASSUME NEW S, NEW s \in Seq(S), NEW e \in S
  PROVE  /\ Append(s, e) \in Seq(S)
         /\ Len(s) \in Nat /\ Len(Append(s, e)) = Len(s) + 1
         /\ DOMAIN s = 1..Len(s) /\ DOMAIN Append(s, e) = 1..Len(s) + 1
         /\ \A i \in 1..Len(s) : Append(s, e)[i] = s[i]
         /\ Append(s, e)[Len(s) + 1] = e /\ Last(Append(s, e)) = e
BY DEF Last

\* A sequence, element by element.
LEMMA Elements ==
  ASSUME NEW S, NEW s \in Seq(S)
  PROVE  /\ Len(s) \in Nat /\ DOMAIN s = 1..Len(s)
         /\ \A i \in 1..Len(s) : s[i] \in S
BY ElementOfSeq

\* The end of a sequence.
LEMMA Rest ==
  ASSUME NEW S, NEW s \in Seq(S), NEW b \in Nat, b < Len(s)
  PROVE  LET u == SubSeq(s, b + 1, Len(s)) IN
         /\ Len(u) = Len(s) - b /\ Head(u) = s[b + 1]
<1> DEFINE u == SubSeq(s, b + 1, Len(s))
<1>1. Len(s) \in Nat /\ \A i \in b + 1..Len(s) : s[i] \in S
  BY Elements
<1>2. /\ u \in Seq(S) /\ Len(u) = Len(s) - b
      /\ \A i \in 1..Len(s) - (b + 1) + 1 : u[i] = s[b + 1 + i - 1]
  BY <1>1, SubSeqProperties
<1>3. 1 \in 1..Len(s) - (b + 1) + 1 /\ b + 1 + 1 - 1 = b + 1
  BY <1>1
<1>4. u[1] = s[b + 1]
  BY <1>2, <1>3
<1>5. Head(u) = u[1]
  BY <1>1, <1>2
<1> QED BY <1>2, <1>4, <1>5

\* ... and all of it but the end.
LEMMA FrontIs ==
  ASSUME NEW S, NEW s \in Seq(S), s # <<>>
  PROVE  /\ Len(s) \in Nat /\ Len(s) > 0
         /\ Front(s) \in Seq(S) /\ Len(Front(s)) = Len(s) - 1
         /\ \A i \in 1..Len(s) - 1 : Front(s)[i] = s[i]
<1> DEFINE n == Len(s) - 1
           f == SubSeq(s, 1, n)
<1>1. Len(s) \in Nat /\ Len(s) > 0 /\ \A i \in 1..Len(s) : s[i] \in S
  BY Elements
<1>2. n \in Nat /\ n - 1 + 1 = n /\ \A i \in 1..n : s[i] \in S
  BY <1>1
<1> HIDE DEF n
<1>3. /\ f \in Seq(S) /\ Len(f) = (IF 1 <= n THEN n - 1 + 1 ELSE 0)
      /\ \A i \in 1..n - 1 + 1 : f[i] = s[1 + i - 1]
  BY <1>2, SubSeqProperties
<1>4. Len(f) = n /\ \A i \in 1..n : f[i] = s[i]
  BY <1>2, <1>3
<1> QED BY <1>1, <1>3, <1>4 DEF Front, n

\* A sequence of usages numbered from k + 1 on, without its first.
LEMMA Shorter ==
  ASSUME NEW S, NEW s \in Seq(S), NEW t, NEW k \in Int, Len(s) > 0,
         \A i \in 1..Len(s) : s[i] = <<t, k + i>>
  PROVE  /\ Tail(s) \in Seq(S) /\ Len(Tail(s)) = Len(s) - 1
         /\ \A i \in 1..Len(Tail(s)) : Tail(s)[i] = <<t, (k + 1) + i>>
<1>1. Len(s) \in Nat /\ s # <<>>
  BY Elements
<1>2. /\ Tail(s) \in Seq(S) /\ Len(Tail(s)) = Len(s) - 1
      /\ \A i \in 1..Len(Tail(s)) : Tail(s)[i] = s[i + 1]
  BY <1>1, HeadTailProperties
<1>3. ASSUME NEW i \in 1..Len(Tail(s))
      PROVE  Tail(s)[i] = <<t, (k + 1) + i>>
  <2>1. i + 1 \in 1..Len(s) /\ k + (i + 1) = (k + 1) + i
    BY <1>1, <1>2
  <2> QED BY <1>2, <2>1
<1> QED BY <1>2, <1>3

-----------------------------------------------------------------------------------
(* Facts about a turn.                                                     *)

\* A response is settled when it is written.
LEMMA Settles ==
  ASSUME NEW m \in Message, NEW next \in Message, Follows(m, next)
  PROVE  /\ Settled(m) \in Int
         /\ next.kind # "prompt"
         /\ m.kind = "reply" => Settled(next) = Settled(m) + 1
         /\ m.kind # "reply" => Settled(next) = Settled(m)
<1>1. m.iter \in Nat /\ next.iter \in Nat
  BY DEF Message
<1>2. CASE Calling(m) /\ Answers(m, next)
  <2>1. m.kind = "reply" /\ next.kind = "results" /\ next.iter = m.iter
    BY <1>2 DEF Calling, Answers
  <2> QED BY <1>1, <2>1 DEF Settled
<1>3. CASE m.kind # "reply" /\ next.kind = "reply" /\ next.iter = m.iter + 1
  BY <1>1, <1>3 DEF Settled
<1> QED BY <1>2, <1>3 DEF Follows

\* What a worker is doing, field by field.
LEMMA Fields ==
  ASSUME NEW d \in Doing
  PROVE  /\ d.pc \in Pcs /\ d.turn \in 0..MaxTurns /\ d.turn \in Nat
         /\ d.iter \in 0..MaxIterations /\ d.iter \in Nat
         /\ d.messages \in Seq(Message) /\ d.base \in Nat /\ d.usages \in Seq(Usages)
         /\ d.results \in Seq(Results) /\ d.tool \in Tools \cup {None} /\ d.escalated \in BOOLEAN
         /\ Len(d.messages) \in Nat /\ DOMAIN d.messages = 1..Len(d.messages)
         /\ \A i \in 1..Len(d.messages) : d.messages[i] \in Message
         /\ Len(d.usages) \in Nat /\ Len(d.results) \in Nat
         /\ MaxTurns \in Nat /\ MaxIterations \in Nat /\ MaxCalls \in Nat
<1>1. /\ d.pc \in Pcs /\ d.turn \in 0..MaxTurns /\ d.iter \in 0..MaxIterations
      /\ d.messages \in Seq(Message) /\ d.base \in Nat /\ d.usages \in Seq(Usages)
      /\ d.results \in Seq(Results) /\ d.tool \in Tools \cup {None} /\ d.escalated \in BOOLEAN
  BY DEF Doing
<1> QED BY <1>1, Elements, TurnAssumption

LEMMA MessageFields ==
  ASSUME NEW m \in Message
  PROVE  /\ m.turn \in Turns /\ m.turn \in Nat \ {0} /\ m.iter \in 0..MaxIterations /\ m.iter \in Nat
         /\ m.kind \in {"prompt", "reply", "results"} /\ m.text \in BOOLEAN
         /\ m.calls \in 0..MaxCalls /\ m.calls \in Nat /\ m.results \in Seq(Results)
         /\ m.kind # "torn"
BY TurnAssumption DEF Message, Turns, Results

\* A worker without a turn.
LEMMA IdleIsGood ==
  /\ Idle \in Doing /\ Good(Idle)
  /\ Idle.pc = "idle" /\ Idle.turn = 0 /\ Idle.messages = <<>>
<1>1. /\ Idle.pc = "idle" /\ Idle.turn = 0 /\ Idle.iter = 0 /\ Idle.messages = <<>>
      /\ Idle.base = 0
  BY DEF Idle
<1>2. Idle \in Doing
  BY TurnAssumption DEF Idle, Doing, Pcs, Results
<1> QED BY <1>1, <1>2 DEF Good, Between

\* A REPL keeps the conversation.
LEMMA ReadyIsGood ==
  ASSUME NEW d, Good(d)
  PROVE  /\ Good([Idle EXCEPT !.pc = "ready", !.messages = d.messages])
         /\ [Idle EXCEPT !.pc = "ready", !.messages = d.messages].messages = d.messages
         /\ [Idle EXCEPT !.pc = "ready", !.messages = d.messages].pc = "ready"
         /\ [Idle EXCEPT !.pc = "ready", !.messages = d.messages].turn = 0
<1> DEFINE n == [Idle EXCEPT !.pc = "ready", !.messages = d.messages]
<1>1. /\ n.pc = "ready" /\ n.turn = 0 /\ n.iter = 0 /\ n.messages = d.messages /\ n.base = 0
      /\ n.usages = <<>> /\ n.results = <<>> /\ n.tool = None /\ n.escalated = FALSE
  BY DEF Idle
<1>2. d \in Doing /\ \A i \in DOMAIN d.messages : Numbered(d.messages[i]) /\ d.messages[i].usage = NoUsage
  BY DEF Good
<1>3. n \in Doing
  <2>1. d.messages \in Seq(Message) /\ "ready" \in Pcs
    BY <1>2, Fields DEF Pcs
  <2> QED BY <2>1, IdleIsGood DEF Doing
<1>4. Len(d.messages) \in Nat
  BY <1>2, Fields
<1> HIDE DEF n
<1>5. Good(n)
  BY <1>1, <1>2, <1>3, <1>4 DEF Good, Between
<1> QED BY <1>1, <1>5 DEF n

\* A worker at the beginning of a turn.
Started(history, t) ==
  [Idle EXCEPT !.pc = IF LoopsOn(0) THEN "model" ELSE "remember", !.turn = t,
               !.messages = Append(history, Prompt(t)), !.base = Len(history)]

\* A turn begins with the prompt.
LEMMA StartIsGood ==
  ASSUME NEW history \in Seq(Message), NEW t \in Turns,
         \A i \in DOMAIN history : Numbered(history[i]) /\ history[i].usage = NoUsage
  PROVE  /\ Good(Started(history, t))
         /\ Started(history, t).turn = t /\ Started(history, t).iter = 0
         /\ Started(history, t).messages = Append(history, Prompt(t))
         /\ Started(history, t).pc \in {"model", "remember"}
<1> DEFINE d == Started(history, t)
<1>1. /\ d.pc = IF LoopsOn(0) THEN "model" ELSE "remember"
      /\ d.turn = t /\ d.iter = 0 /\ d.messages = Append(history, Prompt(t))
      /\ d.base = Len(history) /\ d.usages = <<>> /\ d.results = <<>>
      /\ d.tool = None /\ d.escalated = FALSE
  BY DEF Started, Idle
<1>2. /\ Prompt(t) \in Message /\ Prompt(t).kind = "prompt" /\ Prompt(t).iter = 0
      /\ Prompt(t).turn = t /\ Prompt(t).usage = NoUsage
  BY TurnAssumption DEF Prompt, Message
<1>3. /\ d.messages \in Seq(Message) /\ Len(history) \in Nat
      /\ Len(d.messages) = Len(history) + 1 /\ DOMAIN d.messages = 1..Len(history) + 1
      /\ DOMAIN history = 1..Len(history)
      /\ \A i \in 1..Len(history) : d.messages[i] = history[i]
      /\ d.messages[Len(history) + 1] = Prompt(t)
  BY <1>1, <1>2, Added
<1>4. d \in Doing
  <2>1. /\ (IF LoopsOn(0) THEN "model" ELSE "remember") \in Pcs
        /\ t \in 0..MaxTurns /\ Append(history, Prompt(t)) \in Seq(Message) /\ Len(history) \in Nat
    BY <1>1, <1>3, TurnAssumption DEF Pcs, Turns
  <2> QED BY <2>1, IdleIsGood DEF Doing, Started
<1> HIDE DEF d
<1>5. \A i \in DOMAIN d.messages : Numbered(d.messages[i]) /\ d.messages[i].usage = NoUsage
  BY <1>2, <1>3 DEF Numbered
<1>6. InTurn(d)
  <2>1. Phase(d, Prompt(t))
    BY <1>1, <1>2, TurnAssumption DEF Phase, LoopsOn, Calling, Calls
  <2>2. Owes(d, Prompt(t))
    BY <1>1, <1>2 DEF Owes, Settled
  <2>3. t # 0
    BY TurnAssumption DEF Turns
  <2> QED BY <1>1, <1>2, <1>3, <2>1, <2>2, <2>3 DEF InTurn
<1>7. Good(d)
  BY <1>1, <1>3, <1>4, <1>5, <1>6 DEF Good
<1> QED BY <1>1, <1>7 DEF d

\* A message is added that follows the last.
LEMMA GrownIsGood ==
  ASSUME NEW d \in Doing, Good(d), d.pc \notin Between, d.pc # "append",
         NEW m \in Message, Numbered(m), m.usage = NoUsage, m.turn = d.turn,
         Follows(d.messages[Len(d.messages)], m),
         NEW n \in Doing, n.pc \notin Between,
         n.turn = d.turn, n.base = d.base, n.messages = Append(d.messages, m), n.iter = m.iter,
         n.iter >= d.iter, Phase(n, m), Owes(n, d.messages[d.base + 1])
  PROVE  Good(n)
<1>1. /\ d.messages \in Seq(Message) /\ Len(d.messages) \in Nat /\ d.base \in Nat
      /\ d.iter \in Nat /\ n.iter \in Nat
      /\ DOMAIN d.messages = 1..Len(d.messages)
      /\ \A i \in 1..Len(d.messages) : d.messages[i] \in Message
  BY Fields
<1>2. /\ n.messages \in Seq(Message) /\ Len(n.messages) = Len(d.messages) + 1
      /\ DOMAIN n.messages = 1..Len(d.messages) + 1
      /\ \A i \in 1..Len(d.messages) : n.messages[i] = d.messages[i]
      /\ n.messages[Len(d.messages) + 1] = m
  BY <1>1, Added
<1>3. InTurn(d) /\ d.messages[d.base + 1].kind = "prompt" /\ d.base < Len(d.messages)
  BY DEF Good, InTurn
<1>4. \A i \in 1..Len(d.messages) : d.messages[i].iter \in Nat
  BY <1>1, MessageFields
<1>5. \A i \in n.base + 1..Len(n.messages) :
        n.messages[i].turn = n.turn /\ n.messages[i].iter <= n.iter
  BY <1>1, <1>2, <1>3, <1>4 DEF InTurn
<1>6. \A i \in n.base + 1..Len(n.messages) - 1 : Follows(n.messages[i], n.messages[i + 1])
  <2> SUFFICES ASSUME NEW i \in n.base + 1..Len(n.messages) - 1
               PROVE  Follows(n.messages[i], n.messages[i + 1])
    OBVIOUS
  <2>1. CASE i = Len(d.messages)
    BY <1>1, <1>2, <2>1
  <2>2. CASE i < Len(d.messages)
    BY <1>1, <1>2, <1>3, <2>2 DEF InTurn
  <2> QED BY <1>1, <1>2, <2>1, <2>2
<1>7. n.messages[n.base + 1] = d.messages[d.base + 1]
  BY <1>1, <1>2, <1>3
<1>8. InTurn(n)
  BY <1>1, <1>2, <1>3, <1>5, <1>6, <1>7 DEF InTurn
<1>9. \A i \in DOMAIN n.messages : Numbered(n.messages[i]) /\ n.messages[i].usage = NoUsage
  BY <1>1, <1>2 DEF Good
<1> QED BY <1>1, <1>2, <1>3, <1>8, <1>9 DEF Good

\* Going on with the same messages: a call is asked for, dispatched or running, or the turn is
\* remembered.
LEMMA MovedIsGood ==
  ASSUME NEW d \in Doing, Good(d), NEW n \in Doing,
         n.turn = d.turn, n.iter = d.iter, n.messages = d.messages, n.base = d.base,
         n.usages = d.usages, n.results = d.results,
         \/ d.pc \in Calls /\ n.pc \in Calls
         \/ d.pc = "remember" /\ n.pc = "append"
  PROVE  Good(n)
<1>1. InTurn(d) /\ n.pc \notin Between
  BY DEF Good, Between, Calls
<1>2. Phase(n, d.messages[Len(d.messages)])
  <2>1. Phase(d, d.messages[Len(d.messages)])
    BY <1>1 DEF InTurn
  <2>2. CASE d.pc \in Calls /\ n.pc \in Calls
    BY <2>1, <2>2 DEF Phase, Calls
  <2>3. CASE d.pc = "remember" /\ n.pc = "append"
    BY <2>1, <2>3 DEF Phase, Calls
  <2> QED BY <2>2, <2>3
<1>3. d.messages[d.base + 1].kind = "prompt"
  BY <1>1 DEF InTurn, Calls
<1>4. Owes(n, d.messages[d.base + 1])
  BY <1>1 DEF InTurn, Owes
<1>5. InTurn(n)
  BY <1>1, <1>2, <1>3, <1>4 DEF InTurn
<1> QED BY <1>5 DEF Good

Reply(d, text, calls) ==
  [turn |-> d.turn, iter |-> d.iter + 1, kind |-> "reply", text |-> text,
   calls |-> calls, results |-> <<>>, usage |-> NoUsage]

\* A worker that has a response.
Completed(d, text, calls) ==
  [d EXCEPT !.pc = IF calls = 0 THEN "remember" ELSE "check", !.iter = d.iter + 1,
            !.messages = Append(d.messages, Reply(d, text, calls)),
            !.usages = Append(d.usages, <<d.turn, d.iter + 1>>), !.results = <<>>]

\* A response: its usage is owed, its calls, if any, come next.
LEMMA CompletedIsGood ==
  ASSUME NEW d \in Doing, Good(d), d.pc = "model", NEW text \in BOOLEAN, NEW calls \in 0..MaxCalls
  PROVE  LET n == Completed(d, text, calls) IN
         /\ Good(n) /\ n.turn = d.turn /\ n.iter = d.iter + 1 /\ n.results = <<>>
         /\ n.messages = Append(d.messages, Reply(d, text, calls))
         /\ n.pc = IF calls = 0 THEN "remember" ELSE "check"
<1> DEFINE reply == Reply(d, text, calls)
           n == Completed(d, text, calls)
<1>1. /\ d.iter \in Nat /\ d.turn \in Nat /\ d.messages \in Seq(Message) /\ d.usages \in Seq(Usages)
      /\ d.base \in Nat /\ Len(d.messages) \in Nat /\ Len(d.usages) \in Nat
      /\ calls \in Nat /\ MaxIterations \in Nat /\ d.turn \in 0..MaxTurns
      /\ \A i \in 1..Len(d.messages) : d.messages[i] \in Message
  BY Fields
<1>2. /\ InTurn(d) /\ d.iter < MaxIterations /\ d.turn # 0
      /\ d.messages[Len(d.messages)].kind # "reply" /\ d.messages[Len(d.messages)].iter = d.iter
      /\ d.messages[d.base + 1].kind = "prompt" /\ d.base < Len(d.messages)
      /\ Owes(d, d.messages[d.base + 1])
  <2>1. InTurn(d)
    BY DEF Good, Between
  <2>2. Phase(d, d.messages[Len(d.messages)])
    BY <2>1 DEF InTurn
  <2>3. d.iter < MaxIterations /\ d.messages[Len(d.messages)].kind # "reply"
    BY <2>2 DEF Phase, Calls
  <2> QED BY <2>1, <2>3 DEF InTurn
<1>3. d.turn \in Turns /\ d.iter + 1 \in 1..MaxIterations /\ <<d.turn, d.iter + 1>> \in Usages
  BY <1>1, <1>2 DEF Turns, Usages
<1>4. /\ reply \in Message /\ reply.turn = d.turn /\ reply.iter = d.iter + 1 /\ reply.kind = "reply"
      /\ reply.calls = calls /\ reply.usage = NoUsage
  <2>1. d.iter + 1 \in 0..MaxIterations /\ <<>> \in Seq(Results)
    BY <1>3
  <2> QED BY <1>3, <2>1 DEF Reply, Message, Results
<1>5. Numbered(reply) /\ Follows(d.messages[Len(d.messages)], reply)
  BY <1>1, <1>2, <1>4 DEF Numbered, Follows
<1>6. /\ n.pc = (IF calls = 0 THEN "remember" ELSE "check") /\ n.iter = d.iter + 1
      /\ n.messages = Append(d.messages, reply)
      /\ n.usages = Append(d.usages, <<d.turn, d.iter + 1>>) /\ n.results = <<>>
      /\ n.turn = d.turn /\ n.base = d.base
  BY DEF Completed, Doing
<1>7. n \in Doing
  <2>1. /\ (IF calls = 0 THEN "remember" ELSE "check") \in Pcs /\ d.iter + 1 \in 0..MaxIterations
        /\ Append(d.messages, reply) \in Seq(Message) /\ <<>> \in Seq(Results)
        /\ Append(d.usages, <<d.turn, d.iter + 1>>) \in Seq(Usages)
    BY <1>1, <1>3, <1>4, Added DEF Pcs
  <2> QED BY <2>1 DEF Completed, Doing
<1> HIDE DEF n, reply
<1>8. Phase(n, reply)
  BY <1>1, <1>4, <1>6 DEF Phase, Calls, Calling
<1>9. Owes(n, d.messages[d.base + 1])
  <2>1. /\ d.messages[d.base + 1] \in Message /\ d.messages[d.base + 1].iter = 0
        /\ Settled(d.messages[d.base + 1]) = 0
    BY <1>1, <1>2 DEF Good, Numbered, Settled
  <2>2. /\ Len(d.usages) = d.iter
        /\ \A k \in 1..Len(d.usages) : d.usages[k] = <<d.turn, k>>
    BY <1>1, <1>2, <2>1 DEF Owes
  <2>3. /\ Len(n.usages) = d.iter + 1
        /\ \A k \in 1..d.iter : n.usages[k] = d.usages[k]
        /\ n.usages[d.iter + 1] = <<d.turn, d.iter + 1>>
    BY <1>1, <1>3, <1>6, <2>2, Added
  <2>4. \A k \in 1..Len(n.usages) : n.usages[k] = <<n.turn, k>>
    BY <1>1, <1>6, <2>2, <2>3
  <2>5. \A k \in 1..Len(n.usages) : Settled(d.messages[d.base + 1]) + k = k
    BY <1>1, <2>1, <2>3
  <2>6. Len(n.usages) = n.iter - Settled(d.messages[d.base + 1])
    BY <1>1, <1>6, <2>1, <2>3
  <2> QED BY <2>4, <2>5, <2>6 DEF Owes
<1>10. n.pc \notin Between /\ n.iter >= d.iter
  BY <1>1, <1>6 DEF Between
<1>11. Good(n)
  BY <1>1, <1>4, <1>5, <1>6, <1>7, <1>8, <1>9, <1>10, GrownIsGood DEF Between
<1> QED BY <1>6, <1>11 DEF n, reply

\* A call is answered: the next, or all their results in one message.
LEMMA AnsweredIsGood ==
  ASSUME Shape, NEW w \in Workers, worker[w].pc \in Calls, NEW result \in Results, Answered(w, result)
  PROVE  \E n : /\ Set(w, n) /\ Good(n) /\ n.turn = worker[w].turn /\ n.iter = worker[w].iter
                /\ n.base = worker[w].base
                /\ \/ /\ n.pc = "check" /\ n.results = Append(worker[w].results, result)
                      /\ n.messages = worker[w].messages
                   \/ /\ n.pc \in {"model", "remember"}
                      /\ n.pc = "remember" => n.iter = MaxIterations
                      /\ \E m \in Message :
                           /\ n.messages = Append(worker[w].messages, m)
                           /\ m.turn = worker[w].turn
                           /\ Follows(worker[w].messages[Len(worker[w].messages)], m)
<1> DEFINE d == worker[w]
           results == Append(d.results, result)
           last == d.messages[Len(d.messages)]
           message == [turn |-> d.turn, iter |-> d.iter, kind |-> "results", text |-> FALSE,
                       calls |-> 0, results |-> results, usage |-> NoUsage]
<1>1. d \in Doing /\ Good(d) /\ d.pc \notin Between /\ d.pc # "append"
  BY DEF Shape, Calls, Between
<1>2. /\ d.iter \in 0..MaxIterations /\ d.iter \in Nat /\ MaxIterations \in Nat
      /\ d.turn \in 0..MaxTurns /\ d.messages \in Seq(Message)
      /\ d.results \in Seq(Results) /\ Len(d.results) \in Nat /\ Len(d.messages) \in Nat
      /\ d.base \in Nat
      /\ \A i \in 1..Len(d.messages) : d.messages[i] \in Message
  BY <1>1, Fields
<1>3. /\ InTurn(d) /\ Calling(last) /\ Len(d.results) < last.calls /\ last.iter = d.iter
      /\ d.messages[d.base + 1].kind = "prompt" /\ d.base < Len(d.messages)
      /\ last.turn = d.turn /\ d.turn # 0
  <2>1. InTurn(d)
    BY <1>1 DEF Good
  <2>2. d.base < Len(d.messages) /\ Len(d.messages) \in d.base + 1..Len(d.messages)
    BY <1>2, <2>1 DEF InTurn
  <2>3. last.turn = d.turn /\ last.iter = d.iter /\ Phase(d, last)
    BY <2>1, <2>2 DEF InTurn
  <2>4. Calling(last) /\ Len(d.results) < last.calls
    BY <2>3 DEF Phase, Calls
  <2> QED BY <1>1, <2>1, <2>2, <2>3, <2>4 DEF InTurn
<1>4. last = Last(d.messages) /\ last \in Message /\ last.calls \in Nat
  BY <1>2, <1>3, MessageFields DEF Last
<1>5. results \in Seq(Results) /\ Len(results) = Len(d.results) + 1
  BY <1>2, Added
<1>6. CASE Len(results) < last.calls
  <2> DEFINE n == [d EXCEPT !.pc = "check", !.results = results, !.tool = None, !.escalated = FALSE]
  <2>1. Set(w, n)
    BY <1>4, <1>6 DEF Answered
  <2>2. n \in Doing
    BY <1>1, <1>5 DEF Doing, Pcs
  <2>3. /\ n.pc = "check" /\ n.turn = d.turn /\ n.iter = d.iter /\ n.messages = d.messages
        /\ n.base = d.base /\ n.usages = d.usages /\ n.results = results
    BY <1>1 DEF Doing
  <2> HIDE DEF n
  <2>4. Good(n)
    <3>1. n.pc \in Calls /\ n.pc \notin Between
      BY <2>3 DEF Calls, Between
    <3>2. Phase(n, last)
      BY <1>3, <1>6, <2>3, <3>1 DEF Phase, Calls
    <3>3. Owes(n, d.messages[d.base + 1])
      BY <1>3, <2>3 DEF InTurn, Owes
    <3>4. InTurn(n)
      BY <1>3, <2>3, <3>2, <3>3 DEF InTurn
    <3> QED BY <1>1, <2>2, <2>3, <3>4 DEF Good
  <2> QED BY <2>1, <2>3, <2>4
<1>7. CASE ~(Len(results) < last.calls)
  <2> DEFINE n == [d EXCEPT !.pc = IF LoopsOn(d.iter) THEN "model" ELSE "remember",
                            !.messages = Append(d.messages, message), !.results = <<>>,
                            !.tool = None, !.escalated = FALSE]
  <2>1. Set(w, n)
    BY <1>4, <1>7, Zenon DEF Answered
  <2>2. /\ message \in Message /\ message.turn = d.turn /\ message.iter = d.iter
        /\ message.kind = "results" /\ message.usage = NoUsage /\ message.results = results
    <3>1. d.turn \in Turns /\ 0 \in 0..MaxCalls
      BY <1>2, <1>3, TurnAssumption DEF Turns
    <3> QED BY <1>2, <1>5, <3>1 DEF Message, Results
  <2> HIDE DEF message
  <2>3. Numbered(message) /\ Follows(last, message)
    BY <1>3, <1>4, <1>5, <1>7, <1>2, <2>2 DEF Numbered, Follows, Answers
  <2>4. n \in Doing
    <3>1. /\ (IF LoopsOn(d.iter) THEN "model" ELSE "remember") \in Pcs
          /\ Append(d.messages, message) \in Seq(Message) /\ <<>> \in Seq(Results)
      BY <1>2, <2>2, Added DEF Pcs
    <3> QED BY <1>1, <3>1 DEF Doing
  <2>5. /\ n.pc = (IF LoopsOn(d.iter) THEN "model" ELSE "remember") /\ n.turn = d.turn
        /\ n.iter = d.iter /\ n.messages = Append(d.messages, message)
        /\ n.base = d.base /\ n.usages = d.usages
    BY <1>1 DEF Doing
  <2> HIDE DEF n
  <2>6. Phase(n, message)
    BY <1>2, <2>2, <2>5 DEF Phase, LoopsOn, Calling, Calls
  <2>7. Owes(n, d.messages[d.base + 1])
    BY <1>3, <2>5 DEF InTurn, Owes
  <2>8. n.pc \notin Between /\ n.pc \in {"model", "remember"} /\ n.iter = message.iter /\ n.iter >= d.iter
    BY <1>2, <2>2, <2>5 DEF Between
  <2>9. Good(n)
    BY <1>1, <2>2, <2>3, <2>4, <2>5, <2>6, <2>7, <2>8, GrownIsGood
  <2>10. n.pc = "remember" => n.iter = MaxIterations
    BY <1>2, <2>5 DEF LoopsOn
  <2> QED BY <2>1, <2>2, <2>3, <2>5, <2>8, <2>9, <2>10
<1> QED BY <1>6, <1>7

\* The message to be written next.
LEMMA NextMessage ==
  ASSUME NEW w \in Workers, Good(worker[w]), At(w, "append")
  PROVE  LET d == worker[w]  m == d.messages[d.base + 1]  IN
         /\ d \in Doing /\ InTurn(d) /\ d.base + 1 \in 1..Len(d.messages)
         /\ Head(Unwritten(w)) = m /\ Len(Unwritten(w)) = Len(d.messages) - d.base
         /\ m \in Message /\ Numbered(m) /\ m.usage = NoUsage
         /\ m.turn = d.turn /\ m.iter <= d.iter /\ Owes(d, m)
<1> DEFINE d == worker[w]
           m == d.messages[d.base + 1]
<1>1. d \in Doing /\ InTurn(d) /\ d.base < Len(d.messages)
  BY DEF Good, Between, At, InTurn
<1>2. /\ d.messages \in Seq(Message) /\ d.base \in Nat /\ Len(d.messages) \in Nat
      /\ DOMAIN d.messages = 1..Len(d.messages)
      /\ \A i \in 1..Len(d.messages) : d.messages[i] \in Message
  BY <1>1, Fields
<1>3. d.base + 1 \in 1..Len(d.messages) /\ d.base + 1 \in d.base + 1..Len(d.messages)
  BY <1>1, <1>2
<1>4. Head(Unwritten(w)) = m /\ Len(Unwritten(w)) = Len(d.messages) - d.base
  BY <1>1, <1>2, Rest DEF Unwritten
<1>5. m \in Message /\ Numbered(m) /\ m.usage = NoUsage
  BY <1>2, <1>3 DEF Good
<1>6. m.turn = d.turn /\ m.iter <= d.iter /\ Owes(d, m)
  BY <1>1, <1>3 DEF InTurn
<1> QED BY <1>1, <1>3, <1>4, <1>5, <1>6

\* A usage is owed to a response, and it is the next one; to nothing else.
LEMMA NextUsage ==
  ASSUME NEW w \in Workers, Good(worker[w]), At(w, "append")
  PROVE  LET d == worker[w]  m == d.messages[d.base + 1]  IN
         /\ m.kind = "reply" => /\ Len(d.usages) > 0 /\ Head(d.usages) = <<m.turn, m.iter>>
                                /\ UsageFor(m, d.usages) = <<m.turn, m.iter>>
                                /\ <<m.turn, m.iter>> \in Usages
         /\ m.kind # "reply" => UsageFor(m, d.usages) = NoUsage
<1> DEFINE d == worker[w]
           m == d.messages[d.base + 1]
<1>1. /\ d \in Doing /\ m \in Message /\ Numbered(m) /\ m.turn = d.turn
      /\ m.iter <= d.iter /\ Owes(d, m)
  BY NextMessage
<1>2. /\ d.iter \in Nat /\ d.usages \in Seq(Usages) /\ Len(d.usages) \in Nat /\ m.iter \in Nat
      /\ m.turn \in Turns /\ m.iter \in 0..MaxIterations
  BY <1>1, Fields, MessageFields
<1>3. CASE m.kind = "reply"
  <2>1. Settled(m) = m.iter - 1 /\ m.iter # 0
    BY <1>1, <1>3 DEF Settled, Numbered
  <2>2. Len(d.usages) > 0 /\ d.usages[1] = <<d.turn, Settled(m) + 1>>
    <3>1. Len(d.usages) = d.iter - (m.iter - 1)
      BY <1>1, <2>1 DEF Owes
    <3>2. 1 \in 1..Len(d.usages)
      BY <1>1, <1>2, <3>1
    <3> QED BY <1>1, <3>2 DEF Owes
  <2>3. d.usages # <<>> /\ Head(d.usages) = d.usages[1]
    BY <1>2, <2>2
  <2>4. Settled(m) + 1 = m.iter
    BY <1>2, <2>1
  <2>5. <<m.turn, m.iter>> \in Usages
    BY <1>2, <2>1, TurnAssumption DEF Usages
  <2> QED BY <1>1, <1>3, <2>2, <2>3, <2>4, <2>5 DEF UsageFor
<1>4. CASE m.kind # "reply"
  BY <1>4 DEF UsageFor
<1> QED BY <1>3, <1>4

\* A worker that has written a message and has more to write.
Written(w) ==
  [worker[w] EXCEPT !.base = worker[w].base + 1,
                    !.usages = IF UsageFor(Head(Unwritten(w)), worker[w].usages) = NoUsage
                                 THEN worker[w].usages ELSE Tail(worker[w].usages)]

\* A message is written: the next one, and the usage that is owed to it, are next.
LEMMA WrittenIsGood ==
  ASSUME NEW w \in Workers, Good(worker[w]), At(w, "append"), Len(Unwritten(w)) > 1
  PROVE  LET n == Written(w) IN
         /\ Good(n) /\ n.pc = "append" /\ n.turn = worker[w].turn /\ n.iter = worker[w].iter
         /\ n.base = worker[w].base + 1 /\ n.messages = worker[w].messages
<1> DEFINE d == worker[w]
           n == Written(w)
           b == d.base + 1
           m == d.messages[b]
           next == d.messages[b + 1]
           usages == IF UsageFor(m, d.usages) = NoUsage THEN d.usages ELSE Tail(d.usages)
<1>1. /\ d \in Doing /\ InTurn(d) /\ b \in 1..Len(d.messages) /\ d.pc = "append"
      /\ Head(Unwritten(w)) = m /\ Len(d.messages) - d.base > 1
      /\ m \in Message /\ Numbered(m) /\ m.turn = d.turn /\ m.iter <= d.iter /\ Owes(d, m)
  BY NextMessage DEF At
<1>2. /\ d.messages \in Seq(Message) /\ d.base \in Nat /\ Len(d.messages) \in Nat
      /\ d.usages \in Seq(Usages) /\ Len(d.usages) \in Nat /\ d.iter \in Nat
      /\ \A i \in 1..Len(d.messages) : d.messages[i] \in Message
  BY <1>1, Fields
<1>3. /\ b < Len(d.messages) /\ b + 1 \in 1..Len(d.messages) /\ b \in Nat
      /\ b \in d.base + 1..Len(d.messages) - 1
  <2>1. d.base + 1 < Len(d.messages)
    BY <1>1, <1>2
  <2> QED BY <1>2, <2>1
<1>4. Follows(m, next) /\ next \in Message /\ Numbered(next)
  <2>1. \A i \in d.base + 1..Len(d.messages) - 1 : Follows(d.messages[i], d.messages[i + 1])
    BY <1>1 DEF InTurn
  <2>2. Follows(m, next) /\ next \in Message
    BY <1>2, <1>3, <2>1
  <2>3. DOMAIN d.messages = 1..Len(d.messages) /\ \A i \in DOMAIN d.messages : Numbered(d.messages[i])
    BY <1>1, Fields DEF Good
  <2> QED BY <1>3, <2>2, <2>3
<1>5. /\ Settled(m) \in Int
      /\ m.kind = "reply" => Settled(next) = Settled(m) + 1
      /\ m.kind # "reply" => Settled(next) = Settled(m)
  BY <1>1, <1>4, Settles
<1>6. /\ n.base = b /\ n.usages = usages /\ n.messages = d.messages /\ n.turn = d.turn
      /\ n.iter = d.iter /\ n.pc = "append"
  BY <1>1 DEF Doing, Written
<1> HIDE DEF n
<1>7. usages \in Seq(Usages) /\ Owes(n, next)
  <2>0. /\ Len(d.usages) = d.iter - Settled(m)
        /\ \A k \in 1..Len(d.usages) : d.usages[k] = <<d.turn, Settled(m) + k>>
    BY <1>1 DEF Owes
  <2>1. CASE m.kind = "reply"
    <3>1. Len(d.usages) > 0 /\ UsageFor(m, d.usages) # NoUsage
      BY <2>1, NextUsage, TurnAssumption DEF Usages, Turns
    <3>2. usages = Tail(d.usages)
      BY <3>1
    <3>3. /\ Tail(d.usages) \in Seq(Usages) /\ Len(Tail(d.usages)) = Len(d.usages) - 1
          /\ \A k \in 1..Len(Tail(d.usages)) : Tail(d.usages)[k] = <<d.turn, (Settled(m) + 1) + k>>
      <4> DEFINE q == d.usages
                 k == Settled(m)
                 t == d.turn
      <4>1. q \in Seq(Usages) /\ k \in Int /\ Len(q) > 0 /\ \A i \in 1..Len(q) : q[i] = <<t, k + i>>
        BY <1>2, <1>5, <2>0, <3>1
      <4> HIDE DEF q, k, t
      <4>2. /\ Tail(q) \in Seq(Usages) /\ Len(Tail(q)) = Len(q) - 1
            /\ \A i \in 1..Len(Tail(q)) : Tail(q)[i] = <<t, (k + 1) + i>>
        BY <4>1, Shorter
      <4> QED BY <4>2 DEF q, k, t
    <3>4. Len(Tail(d.usages)) = d.iter - (Settled(m) + 1)
      BY <1>2, <1>5, <2>0, <3>3
    <3> HIDE DEF usages
    <3> QED BY <1>5, <1>6, <2>1, <3>2, <3>3, <3>4 DEF Owes
  <2>2. CASE m.kind # "reply"
    <3>1. usages = d.usages
      BY <2>2, NextUsage
    <3> HIDE DEF usages
    <3> QED BY <1>2, <1>5, <1>6, <2>0, <2>2, <3>1 DEF Owes
  <2> QED BY <2>1, <2>2
<1>8. n \in Doing
  <2>1. n = [d EXCEPT !.base = b, !.usages = usages]
    BY <1>1 DEF n, Written
  <2> HIDE DEF usages
  <2> QED BY <1>1, <1>3, <1>7, <2>1 DEF Doing
<1> HIDE DEF usages
<1>9. InTurn(n)
  <2>1. /\ n.turn # 0 /\ n.base < Len(n.messages)
        /\ \A i \in n.base + 1..Len(n.messages) :
             n.messages[i].turn = n.turn /\ n.messages[i].iter <= n.iter
        /\ \A i \in n.base + 1..Len(n.messages) - 1 : Follows(n.messages[i], n.messages[i + 1])
        /\ n.messages[Len(n.messages)].iter = n.iter
    <3>1. /\ d.turn # 0
          /\ \A i \in d.base + 1..Len(d.messages) :
               d.messages[i].turn = d.turn /\ d.messages[i].iter <= d.iter
          /\ \A i \in d.base + 1..Len(d.messages) - 1 : Follows(d.messages[i], d.messages[i + 1])
          /\ d.messages[Len(d.messages)].iter = d.iter
      BY <1>1 DEF InTurn
    <3>2. b + 1..Len(d.messages) \subseteq d.base + 1..Len(d.messages)
      BY <1>2
    <3>3. b + 1..Len(d.messages) - 1 \subseteq d.base + 1..Len(d.messages) - 1
      BY <1>2
    <3> HIDE DEF b
    <3> QED BY <1>3, <1>6, <3>1, <3>2, <3>3
  <2>2. Phase(n, n.messages[Len(n.messages)])
    BY <1>1, <1>6 DEF InTurn, Phase, Calls
  <2>3. /\ n.pc = "append" /\ n.base # 0 /\ n.messages[n.base].turn = n.turn
        /\ Follows(n.messages[n.base], n.messages[n.base + 1])
    BY <1>1, <1>2, <1>3, <1>4, <1>6
  <2> QED BY <1>6, <1>7, <2>1, <2>2, <2>3 DEF InTurn
<1>10. Good(n)
  BY <1>2, <1>3, <1>6, <1>8, <1>9 DEF Good
<1> QED BY <1>6, <1>10 DEF n

-----------------------------------------------------------------------------------
(* Each step keeps the shape.                                              *)

\* One worker moves on.
LEMMA OneWorker ==
  ASSUME Shape, NEW w \in Workers, NEW n, Set(w, n), Good(n), n.turn <= turns',
         turns \in Nat, turns' \in Nat, turns <= turns'
  PROVE  /\ worker' \in [Workers -> Doing]
         /\ \A v \in Workers : Good(worker'[v]) /\ worker'[v].turn <= turns'
         /\ \A v \in Workers : worker'[v] = IF v = w THEN n ELSE worker[v]
<1>1. worker' = [worker EXCEPT ![w] = n] /\ n \in Doing /\ worker \in [Workers -> Doing]
  BY DEF Set, Shape, Good
<1>2. /\ worker' \in [Workers -> Doing]
      /\ \A v \in Workers : worker'[v] = IF v = w THEN n ELSE worker[v]
  BY <1>1
<1>3. \A v \in Workers : worker[v].turn \in Nat /\ Good(worker[v]) /\ worker[v].turn <= turns
  BY Fields DEF Shape
<1>4. \A v \in Workers : Good(worker'[v]) /\ worker'[v].turn <= turns'
  BY <1>2, <1>3
<1> QED BY <1>2, <1>4

\* Nothing is changed but one worker, which goes on with its turn or gives it up.
LEMMA OnlyWorker ==
  ASSUME Shape, NEW w \in Workers, NEW n, Set(w, n), Good(n), n.turn \in {0, worker[w].turn},
         UNCHANGED turns
  PROVE  /\ worker' \in [Workers -> Doing]
         /\ \A v \in Workers : Good(worker'[v]) /\ worker'[v].turn <= turns'
         /\ \A v \in Workers : worker'[v] = IF v = w THEN n ELSE worker[v]
<1>1. turns \in Nat /\ turns' = turns /\ worker[w].turn <= turns
  BY TurnAssumption DEF Shape
<1>2. n.turn <= turns'
  BY <1>1
<1> QED BY <1>1, <1>2, OneWorker

\* The call being executed is one of the response at the end of the conversation.
LEMMA CurrentIsACall ==
  ASSUME Shape, NEW w \in Workers, worker[w].pc \in Calls
  PROVE  /\ Current(w) \in CallIds
         /\ Current(w)[1] = worker[w].turn /\ Current(w)[2] = worker[w].iter
         /\ Current(w)[3] = Len(worker[w].results) + 1
         /\ worker[w].turn \in Turns /\ worker[w].iter \in 1..MaxIterations
<1> DEFINE d == worker[w]
           last == d.messages[Len(d.messages)]
<1>1. d \in Doing /\ InTurn(d)
  BY DEF Shape, Good, Calls, Between
<1>2. /\ d.turn \in 0..MaxTurns /\ d.turn # 0 /\ d.iter \in 0..MaxIterations
      /\ Len(d.results) \in Nat /\ Len(d.messages) \in Nat /\ d.base \in Nat
      /\ d.base < Len(d.messages) /\ \A i \in 1..Len(d.messages) : d.messages[i] \in Message
  BY <1>1, Fields DEF InTurn
<1>3. /\ Calling(last) /\ Len(d.results) < last.calls /\ last.iter = d.iter /\ last \in Message
      /\ Numbered(last)
  <2>1. Phase(d, last) /\ last.iter = d.iter
    BY <1>1 DEF InTurn
  <2>2. Calling(last) /\ Len(d.results) < last.calls
    BY <2>1 DEF Phase, Calls
  <2>3. Len(d.messages) \in 1..Len(d.messages)
    BY <1>2
  <2> QED BY <1>1, <1>2, <2>1, <2>2, <2>3, Fields DEF Shape, Good
<1>4. last.calls \in 0..MaxCalls /\ last.iter # 0 /\ MaxCalls \in Nat
  BY <1>3, TurnAssumption DEF Message, Calling, Numbered
<1>5. Len(d.results) + 1 \in 1..MaxCalls
  BY <1>2, <1>3, <1>4
<1>6. d.turn \in Turns /\ d.iter \in 1..MaxIterations
  BY <1>2, <1>3, <1>4, TurnAssumption DEF Turns
<1> QED BY <1>5, <1>6 DEF Current, CallIds

\* What a line makes of the log.
LEMMA AppendedIs ==
  ASSUME Shape, NEW line \in Message \cup {Torn, Merged}
  PROVE  LET after == Appended(file, line) IN
         /\ after \in Seq(Message \cup {Torn, Merged})
         /\ (file = <<>> \/ Last(file) # Torn) => after = Append(file, line)
         /\ (file # <<>> /\ Last(file) = Torn /\ line = Torn) => after = file
         /\ (file # <<>> /\ Last(file) = Torn /\ line # Torn) =>
              /\ Len(after) = Len(file) /\ after[Len(file)] = Merged
              /\ \A i \in 1..Len(file) - 1 : after[i] = file[i]
<1> DEFINE L == Message \cup {Torn, Merged}
           after == Appended(file, line)
<1>1. file \in Seq(L) /\ Len(file) \in Nat /\ \A i \in 1..Len(file) : file[i] \in L
  BY Elements DEF Shape
<1>2. CASE file = <<>> \/ Last(file) # Torn
  <2>1. after = Append(file, line)
    BY <1>2 DEF Appended
  <2> QED BY <1>1, <1>2, <2>1, Added
<1>3. CASE file # <<>> /\ Last(file) = Torn /\ line = Torn
  BY <1>1, <1>3 DEF Appended
<1>4. CASE file # <<>> /\ Last(file) = Torn /\ line # Torn
  <2>1. after = Append(Front(file), Merged)
    BY <1>4 DEF Appended
  <2>2. /\ Front(file) \in Seq(L) /\ Len(Front(file)) = Len(file) - 1 /\ Len(file) > 0
        /\ \A i \in 1..Len(file) - 1 : Front(file)[i] = file[i]
    BY <1>1, <1>4, FrontIs
  <2>3. /\ after \in Seq(L) /\ Len(after) = Len(file) /\ after[Len(file)] = Merged
        /\ \A i \in 1..Len(file) - 1 : after[i] = file[i]
    <3>1. /\ Append(Front(file), Merged) \in Seq(L)
          /\ Len(Append(Front(file), Merged)) = (Len(file) - 1) + 1
          /\ \A i \in 1..Len(file) - 1 : Append(Front(file), Merged)[i] = Front(file)[i]
          /\ Append(Front(file), Merged)[(Len(file) - 1) + 1] = Merged
      BY <2>2, Added
    <3> QED BY <1>1, <2>1, <2>2, <3>1
  <2> QED BY <1>4, <2>3
<1> QED BY <1>2, <1>3, <1>4

\* The log has lines, whatever is appended.
LEMMA LogHasLines ==
  ASSUME Shape, NEW line \in Message \cup {Torn, Merged}, Line(line)
  PROVE  /\ Appended(file, line) \in Seq(Message \cup {Torn, Merged})
         /\ \A i \in DOMAIN Appended(file, line) : Line(Appended(file, line)[i])
<1> DEFINE L == Message \cup {Torn, Merged}
           after == Appended(file, line)
<1>1. /\ file \in Seq(L) /\ Len(file) \in Nat /\ DOMAIN file = 1..Len(file)
      /\ \A i \in 1..Len(file) : Line(file[i])
  BY Elements DEF Shape
<1>2. after \in Seq(L) /\ DOMAIN after = 1..Len(after)
  BY AppendedIs, Elements
<1>3. CASE file = <<>> \/ Last(file) # Torn
  <2>1. after = Append(file, line)
    BY <1>3, AppendedIs
  <2> HIDE DEF after
  <2>2. /\ DOMAIN after = 1..Len(file) + 1 /\ after[Len(file) + 1] = line
        /\ \A i \in 1..Len(file) : after[i] = file[i]
    BY <1>1, <2>1, Added
  <2>3. \A i \in DOMAIN after : Line(after[i])
    BY <1>1, <2>2
  <2> QED BY <1>2, <2>3 DEF after
<1>4. CASE file # <<>> /\ Last(file) = Torn /\ line = Torn
  BY <1>1, <1>4, AppendedIs
<1>5. CASE file # <<>> /\ Last(file) = Torn /\ line # Torn
  <2>1. /\ Len(after) = Len(file) /\ after[Len(file)] = Merged
        /\ \A i \in 1..Len(file) - 1 : after[i] = file[i]
    BY <1>5, AppendedIs
  <2>2. Line(Merged)
    BY DEF Line
  <2> HIDE DEF after
  <2>3. \A i \in DOMAIN after : Line(after[i])
    BY <1>1, <1>2, <2>1, <2>2
  <2> QED BY <1>2, <2>3 DEF after
<1> QED BY <1>3, <1>4, <1>5

\* What a worker loads of a log that can be loaded.
LEMMA LoadedIs ==
  ASSUME Shape, Loadable
  PROVE  /\ Loaded \in Seq(Message) /\ Len(Loaded) = Len(file) /\ DOMAIN Loaded = DOMAIN file
         /\ \A i \in DOMAIN Loaded :
              /\ file[i] \in Message /\ Loaded[i] = [file[i] EXCEPT !.usage = NoUsage]
              /\ Numbered(Loaded[i]) /\ Loaded[i].usage = NoUsage
<1>1. /\ Len(file) \in Nat /\ DOMAIN file = 1..Len(file) /\ \A i \in DOMAIN file : Line(file[i])
  BY Elements DEF Shape
<1>2. ASSUME NEW i \in DOMAIN file
      PROVE  /\ file[i] \in Message /\ Loaded[i] = [file[i] EXCEPT !.usage = NoUsage]
             /\ Loaded[i] \in Message /\ Numbered(Loaded[i]) /\ Loaded[i].usage = NoUsage
  <2>1. file[i] \notin {Torn, Merged}
    BY DEF Loadable, Torn, Merged
  <2>2. file[i] \in Message /\ Numbered(file[i])
    BY <1>1, <2>1 DEF Line
  <2>3. Loaded[i] = [file[i] EXCEPT !.usage = NoUsage]
    BY DEF Loaded
  <2>4. /\ Loaded[i] \in Message /\ Loaded[i].usage = NoUsage
        /\ Loaded[i].kind = file[i].kind /\ Loaded[i].iter = file[i].iter
    BY <2>2, <2>3 DEF Message
  <2> QED BY <2>2, <2>3, <2>4 DEF Numbered
<1>3. DOMAIN Loaded = 1..Len(file)
  BY <1>1 DEF Loaded
<1>4. Loaded \in [1..Len(file) -> Message]
  BY <1>1, <1>2, <1>3 DEF Loaded
<1>5. Loaded \in Seq(Message) /\ Len(Loaded) = Len(file)
  BY <1>1, <1>4, SeqDef
<1> QED BY <1>1, <1>2, <1>3, <1>5

\* What is remembered is a response's text, or nothing.
LEMMA TextsAreOfResponses ==
  ASSUME NEW d, Good(d)
  PROVE  LastText(d.messages) = None \/ LastText(d.messages) \in Usages
<1> DEFINE said == Said(d.messages)
<1>1. /\ Len(d.messages) \in Nat /\ DOMAIN d.messages = 1..Len(d.messages)
      /\ \A i \in 1..Len(d.messages) : d.messages[i] \in Message /\ Numbered(d.messages[i])
  BY Fields DEF Good
<1>2. CASE said = {}
  BY <1>2 DEF LastText
<1>3. CASE said # {}
  <2>1. said \subseteq 0..Len(d.messages)
    BY <1>1 DEF Said
  <2>2. PICK i \in said : i = Max(said)
    BY <1>1, <1>3, <2>1, MaxIsMember
  <2>3. i \in 1..Len(d.messages) /\ d.messages[i].kind = "reply"
    BY <1>1 DEF Said
  <2>4. d.messages[i].turn \in Turns /\ d.messages[i].iter \in 1..MaxIterations
    BY <1>1, <2>3, TurnAssumption DEF Message, Numbered
  <2>5. LastText(d.messages) = <<d.messages[i].turn, d.messages[i].iter>>
    BY <1>3, <2>2 DEF LastText
  <2> QED BY <2>4, <2>5 DEF Usages
<1> QED BY <1>2, <1>3

LEMMA ShapeAtStart == Init => Shape
<1> SUFFICES ASSUME Init PROVE Shape
  OBVIOUS
<1>1. log \in [CallIds -> Seq(Outcomes)]
  BY DEF Init
<1>2. \A w \in Workers : worker[w] \in Doing /\ Good(worker[w]) /\ worker[w].turn <= turns
  BY IdleIsGood DEF Init
<1>3. worker \in [Workers -> Doing]
  BY IdleIsGood DEF Init
<1>4. /\ file \in Seq(Message \cup {Torn, Merged}) /\ \A i \in DOMAIN file : Line(file[i])
  BY DEF Init
<1>5. turns \in 0..MaxTurns /\ lost \subseteq 1..turns /\ mixed \in BOOLEAN
  <2>1. turns = 0 /\ lost = {} /\ mixed = FALSE
    BY DEF Init
  <2>2. turns \in 0..MaxTurns /\ lost \subseteq 1..turns
    BY <2>1, TurnAssumption
  <2>3. mixed \in BOOLEAN
    BY <2>1, Zenon
  <2> QED BY <2>2, <2>3
<1> QED BY <1>1, <1>2, <1>3, <1>4, <1>5 DEF Init, Shape

LEMMA ShapeStart ==
  ASSUME Shape, NEW w \in Workers, Start(w)
  PROVE  Shape'
<1> DEFINE history == IF At(w, "idle") THEN Loaded ELSE worker[w].messages
           n == Started(history, turns + 1)
<1>1. /\ turns \in Nat /\ turns < MaxTurns /\ turns' = turns + 1 /\ turns + 1 \in Turns
      /\ MaxTurns \in Nat
  BY TurnAssumption DEF Shape, Start, Turns
<1>2. /\ history \in Seq(Message)
      /\ \A i \in DOMAIN history : Numbered(history[i]) /\ history[i].usage = NoUsage
  <2>1. CASE At(w, "idle")
    BY <2>1, LoadedIs DEF Start
  <2>2. CASE ~At(w, "idle")
    BY <2>2, Fields DEF Shape, Good
  <2> QED BY <2>1, <2>2
<1>3. Set(w, n)
  BY DEF Start, Started
<1> HIDE DEF history
<1>4. Good(n) /\ n.turn = turns + 1
  BY <1>1, <1>2, StartIsGood
<1> HIDE DEF n
<1>5. /\ worker' \in [Workers -> Doing]
      /\ \A v \in Workers : Good(worker'[v]) /\ worker'[v].turn <= turns'
  BY <1>1, <1>3, <1>4, OneWorker
<1>6. turns' \in 0..MaxTurns /\ lost' \subseteq 1..turns' /\ mixed' \in BOOLEAN
  <2>1. lost \subseteq 1..turns /\ UNCHANGED lost
    BY DEF Shape, Start
  <2>2. mixed' \in BOOLEAN
    BY DEF Start, Shape
  <2> QED BY <1>1, <2>1, <2>2
<1> QED BY <1>5, <1>6 DEF Shape, Start, Ran

LEMMA ShapeComplete ==
  ASSUME Shape, NEW w \in Workers, NEW text \in BOOLEAN, NEW calls \in 0..MaxCalls,
         Complete(w, text, calls)
  PROVE  Shape'
<1> DEFINE d == worker[w]
           n == Completed(d, text, calls)
<1>1. Set(w, n) /\ d.pc = "model"
  BY DEF Complete, At, Completed, Reply
<1>2. d \in Doing /\ Good(d)
  BY DEF Shape
<1>3. Good(n) /\ n.turn = d.turn
  BY <1>1, <1>2, CompletedIsGood
<1> HIDE DEF n
<1>4. /\ worker' \in [Workers -> Doing]
      /\ \A v \in Workers : Good(worker'[v]) /\ worker'[v].turn <= turns'
  BY <1>1, <1>3, OnlyWorker DEF Complete
<1> QED BY <1>4 DEF Shape, Complete, Ran

\* What is recorded of a call.
LEMMA LoggedIs ==
  ASSUME Shape, NEW w \in Workers, worker[w].pc \in Calls, NEW outcome \in Outcomes, Logged(w, outcome)
  PROVE  /\ log' \in [CallIds -> Seq(Outcomes)]
         /\ log'[Current(w)] = Append(log[Current(w)], outcome)
         /\ \A c \in CallIds : c # Current(w) => log'[c] = log[c]
<1>1. Current(w) \in CallIds
  BY CurrentIsACall
<1>2. log \in [CallIds -> Seq(Outcomes)]
  BY DEF Shape
<1>3. Append(log[Current(w)], outcome) \in Seq(Outcomes)
  BY <1>1, <1>2
<1>4. log' = [log EXCEPT ![Current(w)] = Append(log[Current(w)], outcome)]
  BY DEF Logged
<1> QED BY <1>1, <1>2, <1>3, <1>4

\* A call moves from one of its phases to the next.
LEMMA CallMoves ==
  ASSUME Shape, NEW w \in Workers, worker[w].pc \in Calls, NEW pc \in Calls,
         NEW tool \in Tools \cup {None}, NEW escalated \in BOOLEAN, UNCHANGED turns,
         Set(w, [worker[w] EXCEPT !.pc = pc, !.tool = tool, !.escalated = escalated])
  PROVE  /\ worker' \in [Workers -> Doing]
         /\ \A v \in Workers : Good(worker'[v]) /\ worker'[v].turn <= turns'
         /\ \A v \in Workers : v # w => worker'[v] = worker[v]
         /\ worker'[w].pc = pc /\ worker'[w].turn = worker[w].turn /\ worker'[w].iter = worker[w].iter
         /\ worker'[w].messages = worker[w].messages /\ worker'[w].base = worker[w].base
         /\ worker'[w].results = worker[w].results /\ worker'[w].usages = worker[w].usages
         /\ worker'[w].tool = tool /\ worker'[w].escalated = escalated
<1> DEFINE d == worker[w]
           n == [d EXCEPT !.pc = pc, !.tool = tool, !.escalated = escalated]
<1>1. d \in Doing /\ Good(d)
  BY DEF Shape
<1>2. /\ n.pc = pc /\ n.turn = d.turn /\ n.iter = d.iter /\ n.messages = d.messages
      /\ n.base = d.base /\ n.usages = d.usages /\ n.results = d.results
      /\ n.tool = tool /\ n.escalated = escalated
  BY <1>1 DEF Doing
<1>3. n \in Doing
  BY <1>1 DEF Doing, Pcs, Calls
<1>4. Set(w, n)
  OBVIOUS
<1> HIDE DEF n
<1>5. Good(n)
  BY <1>1, <1>2, <1>3, MovedIsGood
<1> QED BY <1>2, <1>4, <1>5, OnlyWorker

\* A call that is answered leaves everything but its worker to others.
LEMMA AnsweredMoves ==
  ASSUME Shape, NEW w \in Workers, worker[w].pc \in Calls, NEW result \in Results, Answered(w, result),
         UNCHANGED turns
  PROVE  /\ worker' \in [Workers -> Doing]
         /\ \A v \in Workers : Good(worker'[v]) /\ worker'[v].turn <= turns'
         /\ \A v \in Workers : v # w => worker'[v] = worker[v]
         /\ worker'[w].turn = worker[w].turn /\ worker'[w].iter = worker[w].iter
         /\ worker'[w].base = worker[w].base
         /\ \/ /\ worker'[w].pc = "check" /\ worker'[w].results = Append(worker[w].results, result)
               /\ worker'[w].messages = worker[w].messages
            \/ /\ worker'[w].pc \in {"model", "remember"}
               /\ worker'[w].pc = "remember" => worker'[w].iter = MaxIterations
               /\ \E m \in Message :
                    /\ worker'[w].messages = Append(worker[w].messages, m)
                    /\ m.turn = worker[w].turn
                    /\ Follows(worker[w].messages[Len(worker[w].messages)], m)
<1>1. PICK n : /\ Set(w, n) /\ Good(n) /\ n.turn = worker[w].turn /\ n.iter = worker[w].iter
               /\ n.base = worker[w].base
               /\ \/ /\ n.pc = "check" /\ n.results = Append(worker[w].results, result)
                     /\ n.messages = worker[w].messages
                  \/ /\ n.pc \in {"model", "remember"}
                     /\ n.pc = "remember" => n.iter = MaxIterations
                     /\ \E m \in Message :
                          /\ n.messages = Append(worker[w].messages, m)
                          /\ m.turn = worker[w].turn
                          /\ Follows(worker[w].messages[Len(worker[w].messages)], m)
  BY AnsweredIsGood
<1>2. /\ worker' \in [Workers -> Doing]
      /\ \A v \in Workers : Good(worker'[v]) /\ worker'[v].turn <= turns'
      /\ \A v \in Workers : worker'[v] = IF v = w THEN n ELSE worker[v]
  BY <1>1, OnlyWorker
<1> QED BY <1>1, <1>2

\* What decides a call and how it goes on.
LEMMA CheckCases ==
  ASSUME Shape, NEW w \in Workers, NEW tool \in Tools, NEW flagged \in Flags(tool),
         NEW contested \in Contests(tool), Check(w, tool, flagged, contested)
  PROVE  /\ worker[w].pc = "check"
         /\ UNCHANGED <<file, commands, effects, memory, turns, lost, mixed>>
         /\ \/ Logged(w, "auto_denied") /\ Answered(w, "refused")
            \/ /\ UNCHANGED log
               /\ \E escalated \in BOOLEAN :
                    Set(w, [worker[w] EXCEPT !.pc = "ask", !.tool = tool, !.escalated = escalated])
            \/ /\ Logged(w, "auto_allowed") /\ ~flagged /\ ~contested
               /\ Set(w, [worker[w] EXCEPT !.pc = "dispatch", !.tool = tool, !.escalated = FALSE])
<1>0. worker[w].pc = "check" /\ UNCHANGED <<file, commands, effects, memory, turns, lost, mixed>>
  BY DEF Check, At
<1>1. flagged \in BOOLEAN /\ contested \in BOOLEAN /\ (flagged => tool = "bash")
      /\ (contested => tool \in LOCKABLE_TOOLS)
  BY DEF Flags, Contests
<1> DEFINE judged == [worker[w] EXCEPT !.tool = tool, !.escalated = flagged \/ contested]
<1>2. PICK mode \in Modes :
        \/ /\ Decide(mode, tool, flagged, contested) = "deny"
           /\ Logged(w, "auto_denied") /\ Answered(w, "refused")
        \/ /\ Decide(mode, tool, flagged, contested) = "ask"
           /\ Set(w, [judged EXCEPT !.pc = "ask"]) /\ UNCHANGED log
        \/ /\ Decide(mode, tool, flagged, contested) = "allow"
           /\ Logged(w, "auto_allowed") /\ Set(w, [judged EXCEPT !.pc = "dispatch"])
  BY DEF Check
<1>3. \A pc : [judged EXCEPT !.pc = pc] =
                [worker[w] EXCEPT !.pc = pc, !.tool = tool, !.escalated = flagged \/ contested]
  BY DEF Shape, Doing
<1>4. Decide(mode, tool, flagged, contested) = "allow" => ~flagged /\ ~contested
  BY <1>1 DEF Decide, Escalated, LOCKABLE_TOOLS, READ_ONLY_TOOLS
<1>5. (~flagged /\ ~contested) => (flagged \/ contested) = FALSE
  OBVIOUS
<1>6. (flagged \/ contested) \in BOOLEAN
  OBVIOUS
<1> HIDE DEF judged
<1>7. CASE Decide(mode, tool, flagged, contested) = "deny" /\ Logged(w, "auto_denied") /\ Answered(w, "refused")
  BY <1>0, <1>7
<1>8. CASE /\ Decide(mode, tool, flagged, contested) = "ask"
           /\ Set(w, [judged EXCEPT !.pc = "ask"]) /\ UNCHANGED log
  <2>1. Set(w, [worker[w] EXCEPT !.pc = "ask", !.tool = tool, !.escalated = flagged \/ contested])
    BY <1>3, <1>8, Zenon
  <2>2. \E escalated \in BOOLEAN :
          Set(w, [worker[w] EXCEPT !.pc = "ask", !.tool = tool, !.escalated = escalated])
    BY <1>6, <2>1, Zenon
  <2> QED BY <1>0, <1>8, <2>2
<1>9. CASE /\ Decide(mode, tool, flagged, contested) = "allow"
           /\ Logged(w, "auto_allowed") /\ Set(w, [judged EXCEPT !.pc = "dispatch"])
  <2>1. Set(w, [worker[w] EXCEPT !.pc = "dispatch", !.tool = tool, !.escalated = FALSE])
    BY <1>3, <1>4, <1>5, <1>9, Zenon
  <2> QED BY <1>0, <1>4, <1>9, <2>1
<1> QED BY <1>2, <1>7, <1>8, <1>9

LEMMA ShapeCheck ==
  ASSUME Shape, NEW w \in Workers, NEW tool \in Tools, NEW flagged \in Flags(tool),
         NEW contested \in Contests(tool), Check(w, tool, flagged, contested)
  PROVE  Shape'
<1>1. /\ worker[w].pc \in Calls
      /\ UNCHANGED <<file, commands, effects, memory, turns, lost, mixed>>
  BY CheckCases DEF Calls
<1>2. /\ worker' \in [Workers -> Doing]
      /\ \A v \in Workers : Good(worker'[v]) /\ worker'[v].turn <= turns'
      /\ log' \in [CallIds -> Seq(Outcomes)]
  <2>1. CASE Logged(w, "auto_denied") /\ Answered(w, "refused")
    BY <1>1, <2>1, LoggedIs, AnsweredMoves DEF Outcomes, Results
  <2>2. ASSUME UNCHANGED log, NEW escalated \in BOOLEAN,
               Set(w, [worker[w] EXCEPT !.pc = "ask", !.tool = tool, !.escalated = escalated])
        PROVE  /\ worker' \in [Workers -> Doing]
               /\ \A v \in Workers : Good(worker'[v]) /\ worker'[v].turn <= turns'
               /\ log' \in [CallIds -> Seq(Outcomes)]
    <3>1. "ask" \in Calls
      BY DEF Calls
    <3> QED BY <1>1, <2>2, <3>1, CallMoves DEF Shape
  <2>3. CASE /\ Logged(w, "auto_allowed") /\ ~flagged /\ ~contested
             /\ Set(w, [worker[w] EXCEPT !.pc = "dispatch", !.tool = tool, !.escalated = FALSE])
    <3>1. FALSE \in BOOLEAN /\ "dispatch" \in Calls
      BY DEF Calls
    <3> QED BY <1>1, <2>3, <3>1, LoggedIs, CallMoves DEF Outcomes
  <2>4. \/ Logged(w, "auto_denied") /\ Answered(w, "refused")
        \/ /\ UNCHANGED log
           /\ \E escalated \in BOOLEAN :
                Set(w, [worker[w] EXCEPT !.pc = "ask", !.tool = tool, !.escalated = escalated])
        \/ /\ Logged(w, "auto_allowed") /\ ~flagged /\ ~contested
           /\ Set(w, [worker[w] EXCEPT !.pc = "dispatch", !.tool = tool, !.escalated = FALSE])
    BY CheckCases
  <2> QED BY <2>1, <2>2, <2>3, <2>4
<1> QED BY <1>1, <1>2 DEF Shape, Ran

\* Asked, a human allows the call.
LEMMA ApproveMoves ==
  ASSUME Shape, NEW w \in Workers, Approve(w)
  PROVE  /\ worker[w].pc = "ask" /\ Logged(w, "approved")
         /\ UNCHANGED <<file, commands, effects, memory, turns, lost, mixed>>
         /\ Set(w, [worker[w] EXCEPT !.pc = "dispatch", !.tool = worker[w].tool,
                                     !.escalated = worker[w].escalated])
         /\ worker[w].tool \in Tools \cup {None} /\ worker[w].escalated \in BOOLEAN
<1>1. worker[w] \in Doing /\ Set(w, [worker[w] EXCEPT !.pc = "dispatch"])
  BY DEF Shape, Approve
<1>2. [worker[w] EXCEPT !.pc = "dispatch"] =
        [worker[w] EXCEPT !.pc = "dispatch", !.tool = worker[w].tool, !.escalated = worker[w].escalated]
  BY <1>1 DEF Doing
<1>3. Set(w, [worker[w] EXCEPT !.pc = "dispatch", !.tool = worker[w].tool,
                               !.escalated = worker[w].escalated])
  BY <1>1, <1>2, Zenon
<1> QED BY <1>1, <1>3, Fields DEF Approve, At

LEMMA ShapeAnswer ==
  ASSUME Shape, NEW w \in Workers, Approve(w) \/ Refuse(w)
  PROVE  Shape'
<1>1. CASE Approve(w)
  <2>1. worker[w].pc \in Calls /\ "dispatch" \in Calls /\ "approved" \in Outcomes
    BY <1>1, ApproveMoves DEF Calls, Outcomes
  <2>2. /\ worker' \in [Workers -> Doing] /\ UNCHANGED turns
        /\ \A v \in Workers : Good(worker'[v]) /\ worker'[v].turn <= turns'
        /\ log' \in [CallIds -> Seq(Outcomes)]
    BY <1>1, <2>1, ApproveMoves, CallMoves, LoggedIs
  <2> QED BY <1>1, <2>2 DEF Shape, Approve, Ran
<1>2. CASE Refuse(w)
  <2>1. worker[w].pc \in Calls /\ "refused" \in Results /\ "denied" \in Outcomes
    BY <1>2 DEF Refuse, At, Calls, Outcomes, Results
  <2>2. /\ worker' \in [Workers -> Doing]
        /\ \A v \in Workers : Good(worker'[v]) /\ worker'[v].turn <= turns'
        /\ log' \in [CallIds -> Seq(Outcomes)]
    BY <1>2, <2>1, AnsweredMoves, LoggedIs DEF Refuse
  <2> QED BY <1>2, <2>2 DEF Shape, Refuse, Ran
<1> QED BY <1>1, <1>2

\* A shell command is started.
LEMMA RunMoves ==
  ASSUME Shape, NEW w \in Workers, worker[w].pc = "dispatch",
         Set(w, [worker[w] EXCEPT !.pc = "running"]), UNCHANGED turns
  PROVE  /\ worker' \in [Workers -> Doing]
         /\ \A v \in Workers : Good(worker'[v]) /\ worker'[v].turn <= turns'
         /\ \A v \in Workers : v # w => worker'[v] = worker[v]
         /\ worker'[w].pc = "running" /\ worker'[w].turn = worker[w].turn
         /\ worker'[w].iter = worker[w].iter /\ worker'[w].results = worker[w].results
         /\ worker'[w].messages = worker[w].messages
<1>1. worker[w] \in Doing /\ "running" \in Calls /\ worker[w].pc \in Calls
  BY DEF Shape, Calls
<1>2. [worker[w] EXCEPT !.pc = "running"] =
        [worker[w] EXCEPT !.pc = "running", !.tool = worker[w].tool, !.escalated = worker[w].escalated]
  BY <1>1 DEF Doing
<1>3. Set(w, [worker[w] EXCEPT !.pc = "running", !.tool = worker[w].tool,
                               !.escalated = worker[w].escalated])
  BY <1>2, Zenon
<1> QED BY <1>1, <1>3, Fields, CallMoves

LEMMA ShapeDispatch ==
  ASSUME Shape, NEW w \in Workers, Dispatch(w)
  PROVE  Shape'
<1>1. /\ worker[w].pc = "dispatch" /\ worker[w].pc \in Calls /\ "ran" \in Results
      /\ UNCHANGED <<file, log, memory, turns, lost, mixed>>
  BY DEF Dispatch, At, Calls, Results
<1>2. Current(w) \in CallIds /\ worker[w].escalated \in BOOLEAN
  BY <1>1, CurrentIsACall, Fields DEF Shape
<1>3. /\ effects' \subseteq [call : CallIds, escalated : BOOLEAN]
      /\ Ran' = Ran \cup {Current(w)}
  <2> DEFINE e == [call |-> Current(w), escalated |-> worker[w].escalated]
  <2>1. effects' = effects \cup {e} /\ e.call = Current(w)
    BY DEF Dispatch
  <2>2. e \in [call : CallIds, escalated : BOOLEAN]
    BY <1>2
  <2> HIDE DEF e
  <2> QED BY <2>1, <2>2 DEF Shape, Ran
<1>4. commands' \subseteq Ran'
  BY <1>3 DEF Dispatch, Shape
<1>5. /\ worker' \in [Workers -> Doing]
      /\ \A v \in Workers : Good(worker'[v]) /\ worker'[v].turn <= turns'
  BY <1>1, RunMoves, AnsweredMoves DEF Dispatch
<1> QED BY <1>1, <1>3, <1>4, <1>5 DEF Shape

LEMMA ShapeEnd ==
  ASSUME Shape, NEW w \in Workers, Exit(w) \/ Expire(w)
  PROVE  Shape'
<1>1. /\ worker[w].pc \in Calls /\ "ran" \in Results /\ Answered(w, "ran")
      /\ commands' \subseteq commands
      /\ UNCHANGED <<file, log, effects, memory, turns, lost, mixed>>
  BY DEF Exit, Expire, Waits, At, Calls, Results
<1>2. /\ worker' \in [Workers -> Doing]
      /\ \A v \in Workers : Good(worker'[v]) /\ worker'[v].turn <= turns'
  BY <1>1, AnsweredMoves
<1> QED BY <1>1, <1>2 DEF Shape, Ran

LEMMA ShapeEndCommand ==
  ASSUME Shape, NEW c \in commands, EndCommand(c)
  PROVE  Shape'
BY DEF Shape, EndCommand, Ran

\* The turn is over but for its record.
LEMMA RememberMoves ==
  ASSUME Shape, NEW w \in Workers, Remember(w)
  PROVE  /\ worker' \in [Workers -> Doing]
         /\ \A v \in Workers : Good(worker'[v]) /\ worker'[v].turn <= turns'
         /\ \A v \in Workers : v # w => worker'[v] = worker[v]
         /\ worker[w].pc = "remember" /\ worker'[w].pc = "append"
         /\ worker'[w].turn = worker[w].turn /\ worker'[w].iter = worker[w].iter
         /\ worker'[w].messages = worker[w].messages /\ worker'[w].base = worker[w].base
<1> DEFINE d == worker[w]
           n == [d EXCEPT !.pc = "append"]
<1>1. d \in Doing /\ Good(d) /\ d.pc = "remember" /\ Set(w, n) /\ UNCHANGED turns
  BY DEF Shape, Remember, At
<1>2. /\ n.pc = "append" /\ n.turn = d.turn /\ n.iter = d.iter /\ n.messages = d.messages
      /\ n.base = d.base /\ n.usages = d.usages /\ n.results = d.results
  BY <1>1 DEF Doing
<1>3. n \in Doing
  BY <1>1 DEF Doing, Pcs
<1> HIDE DEF n
<1>4. Good(n)
  BY <1>1, <1>2, <1>3, MovedIsGood
<1> QED BY <1>1, <1>2, <1>4, OnlyWorker

LEMMA ShapeRemember ==
  ASSUME Shape, NEW w \in Workers, Remember(w)
  PROVE  Shape'
<1>1. /\ worker' \in [Workers -> Doing]
      /\ \A v \in Workers : Good(worker'[v]) /\ worker'[v].turn <= turns'
  BY RememberMoves
<1>2. memory' \subseteq [turn : Turns, text : Usages]
  <2> DEFINE d == worker[w]
             text == LastText(d.messages)
  <2>1. d \in Doing /\ Good(d) /\ d.turn # 0 /\ d.turn \in 0..MaxTurns
    BY RememberMoves, Fields DEF Shape, Good, Between, InTurn
  <2>2. d.turn \in Turns
    BY <2>1, TurnAssumption DEF Turns
  <2>3. text = None \/ text \in Usages
    BY <2>1, TextsAreOfResponses
  <2>4. memory' = IF text = None THEN memory ELSE memory \cup {[turn |-> d.turn, text |-> text]}
    BY DEF Remember
  <2> HIDE DEF text
  <2> QED BY <2>2, <2>3, <2>4 DEF Shape
<1> QED BY <1>1, <1>2 DEF Shape, Remember, Ran

\* A message of the turn is written, with the usage owed to it; the turn ends with the last.
LEMMA AppendMoves ==
  ASSUME Shape, NEW w \in Workers, AppendMessage(w)
  PROVE  LET d == worker[w]
             m == d.messages[d.base + 1]
             line == [m EXCEPT !.usage = UsageFor(m, d.usages)]
         IN
         /\ d.pc = "append" /\ file' = Appended(file, line)
         /\ line \in Message /\ Line(line)
         /\ line.kind = m.kind /\ line.turn = m.turn /\ line.iter = m.iter
         /\ line.calls = m.calls /\ line.results = m.results /\ line.text = m.text
         /\ worker' \in [Workers -> Doing]
         /\ \A v \in Workers : Good(worker'[v]) /\ worker'[v].turn <= turns'
         /\ \A v \in Workers : v # w => worker'[v] = worker[v]
         /\ \/ /\ worker'[w].pc = "append" /\ worker'[w].turn = d.turn
               /\ worker'[w].messages = d.messages /\ worker'[w].base = d.base + 1
            \/ /\ worker'[w].pc \in Between /\ worker'[w].turn = 0
               /\ worker'[w].messages \in {<<>>, d.messages}
               /\ d.base + 1 = Len(d.messages)
<1> DEFINE d == worker[w]
           m == d.messages[d.base + 1]
           usage == UsageFor(m, d.usages)
           line == [m EXCEPT !.usage = usage]
<1>1. /\ d \in Doing /\ Good(d) /\ At(w, "append") /\ d.pc = "append" /\ UNCHANGED turns
  BY DEF Shape, AppendMessage, At
<1>2. /\ Head(Unwritten(w)) = m /\ Len(Unwritten(w)) = Len(d.messages) - d.base
      /\ d.base + 1 \in 1..Len(d.messages) /\ m \in Message /\ Numbered(m)
  BY <1>1, NextMessage
<1>3. /\ m.kind = "reply" => usage = <<m.turn, m.iter>> /\ usage \in Usages
      /\ m.kind # "reply" => usage = NoUsage
  BY <1>1, NextUsage
<1>4. file' = Appended(file, line)
  BY <1>2 DEF AppendMessage
<1>5. /\ line \in Message /\ line.usage = usage
      /\ line.kind = m.kind /\ line.turn = m.turn /\ line.iter = m.iter
      /\ line.calls = m.calls /\ line.results = m.results
  <2>1. usage \in Usages \cup {NoUsage}
    BY <1>3
  <2> HIDE DEF usage
  <2> QED BY <1>2, <2>1 DEF Message
<1>6. Line(line)
  <2> HIDE DEF line
  <2> QED BY <1>2, <1>3, <1>5 DEF Line, Numbered
<1>7. Len(d.messages) \in Nat /\ d.base \in Nat
  BY <1>1, Fields
<1>8. CASE Len(Unwritten(w)) > 1
  <2> DEFINE n == Written(w)
  <2>1. Set(w, n)
    BY <1>2, <1>8 DEF AppendMessage, Written
  <2>3. /\ Good(n) /\ n.pc = "append" /\ n.turn = d.turn /\ n.base = d.base + 1
        /\ n.messages = d.messages
    BY <1>1, <1>8, WrittenIsGood
  <2> HIDE DEF n
  <2>4. /\ worker' \in [Workers -> Doing]
        /\ \A v \in Workers : Good(worker'[v]) /\ worker'[v].turn <= turns'
        /\ \A v \in Workers : worker'[v] = IF v = w THEN n ELSE worker[v]
    BY <1>1, <2>1, <2>3, OnlyWorker
  <2> QED BY <1>1, <1>4, <1>5, <1>6, <2>3, <2>4
<1>9. CASE ~(Len(Unwritten(w)) > 1)
  <2> DEFINE ready == [Idle EXCEPT !.pc = "ready", !.messages = d.messages]
  <2>1. d.base + 1 = Len(d.messages)
    BY <1>2, <1>7, <1>9
  <2>2. Set(w, Idle) \/ Set(w, ready)
    BY <1>9 DEF AppendMessage
  <2>3. /\ Good(Idle) /\ Idle.pc = "idle" /\ Idle.turn = 0 /\ Idle.messages = <<>>
        /\ Good(ready) /\ ready.pc = "ready" /\ ready.turn = 0 /\ ready.messages = d.messages
    BY <1>1, IdleIsGood, ReadyIsGood
  <2> HIDE DEF ready
  <2>4. PICK n \in {Idle, ready} : Set(w, n)
    BY <2>2
  <2>5. /\ Good(n) /\ n.pc \in Between /\ n.turn = 0 /\ n.messages \in {<<>>, d.messages}
    BY <2>3 DEF Between
  <2>6. /\ worker' \in [Workers -> Doing]
        /\ \A v \in Workers : Good(worker'[v]) /\ worker'[v].turn <= turns'
        /\ \A v \in Workers : worker'[v] = IF v = w THEN n ELSE worker[v]
    BY <1>1, <2>4, <2>5, OnlyWorker
  <2> QED BY <1>1, <1>4, <1>5, <1>6, <2>1, <2>5, <2>6
<1> QED BY <1>8, <1>9

LEMMA ShapeAppendMessage ==
  ASSUME Shape, NEW w \in Workers, AppendMessage(w)
  PROVE  Shape'
<1> DEFINE d == worker[w]
           m == d.messages[d.base + 1]
           line == [m EXCEPT !.usage = UsageFor(m, d.usages)]
<1>1. /\ file' = Appended(file, line) /\ line \in Message /\ Line(line)
      /\ worker' \in [Workers -> Doing]
      /\ \A v \in Workers : Good(worker'[v]) /\ worker'[v].turn <= turns'
  BY AppendMoves
<1> HIDE DEF line
<1>2. file' \in Seq(Message \cup {Torn, Merged}) /\ \A i \in DOMAIN file' : Line(file'[i])
  BY <1>1, LogHasLines
<1>3. mixed' \in BOOLEAN
  BY DEF AppendMessage, Shape
<1> QED BY <1>1, <1>2, <1>3 DEF Shape, AppendMessage, Ran

\* A worker that stops has nothing to say.
LEMMA StopMoves ==
  ASSUME Shape, NEW w \in Workers, Set(w, Idle), UNCHANGED turns
  PROVE  /\ worker' \in [Workers -> Doing]
         /\ \A v \in Workers : Good(worker'[v]) /\ worker'[v].turn <= turns'
         /\ \A v \in Workers : worker'[v] = IF v = w THEN Idle ELSE worker[v]
BY IdleIsGood, OnlyWorker

LEMMA ShapeDie ==
  ASSUME Shape, NEW w \in Workers, Die(w) \/ Quit(w)
  PROVE  Shape'
<1>1. UNCHANGED turns /\ Set(w, Idle)
  BY DEF Die, Quit
<1>2. /\ worker' \in [Workers -> Doing]
      /\ \A v \in Workers : Good(worker'[v]) /\ worker'[v].turn <= turns'
  BY <1>1, StopMoves
<1>3. CASE Die(w)
  <2>1. file' = file \/ file' = Appended(file, Torn)
    BY <1>3 DEF Die
  <2>2. Line(Torn)
    BY DEF Line
  <2>3. file' \in Seq(Message \cup {Torn, Merged}) /\ \A i \in DOMAIN file' : Line(file'[i])
    BY <2>1, <2>2, LogHasLines DEF Shape
  <2>4. lost' \subseteq 1..turns'
    <3>1. worker[w].turn \in Nat \ {0} /\ worker[w].turn <= turns /\ turns \in Nat
      BY <1>3, Fields DEF Shape, Die, Busy, Good, InTurn, Between
    <3>2. worker[w].turn \in 1..turns
      BY <3>1
    <3> QED BY <1>1, <1>3, <3>2 DEF Die, Shape
  <2>5. mixed' \in BOOLEAN
    BY <1>3 DEF Die, Shape
  <2> QED BY <1>1, <1>2, <1>3, <2>3, <2>4, <2>5 DEF Shape, Die, Ran
<1>4. CASE Quit(w)
  BY <1>2, <1>4 DEF Shape, Quit, Ran
<1> QED BY <1>3, <1>4

\* Whatever happens, a worker's turn and the log keep their shape.
LEMMA ShapeAlways == Spec => []Shape
<1>1. Shape /\ [Next]_vars => Shape'
  <2> SUFFICES ASSUME Shape, [Next]_vars PROVE Shape'
    OBVIOUS
  <2>1. ASSUME NEW w \in Workers, Start(w) PROVE Shape'
    BY <2>1, ShapeStart
  <2>2. ASSUME NEW w \in Workers, Proceed(w) PROVE Shape'
    BY <2>2, ShapeComplete, ShapeCheck, ShapeAnswer, ShapeDispatch, ShapeEnd, ShapeRemember,
       ShapeAppendMessage DEF Proceed
  <2>3. ASSUME NEW w \in Workers, Exit(w) \/ Die(w) \/ Quit(w) PROVE Shape'
    BY <2>3, ShapeEnd, ShapeDie
  <2>4. ASSUME NEW c \in commands, EndCommand(c) PROVE Shape'
    BY <2>4, ShapeEndCommand
  <2>5. CASE UNCHANGED vars
    BY <2>5 DEF vars, Shape, Ran
  <2> QED BY <2>1, <2>2, <2>3, <2>4, <2>5 DEF Next
<1> QED BY ShapeAtStart, <1>1, PTL DEF Spec

\* The turns, the session log, the permissions log and the memory have their shapes, and no
\* turn asks the model more often than max_iterations, whatever the number of workers.
THEOREM TypeCorrect == Spec => []TypeOK
<1>1. ASSUME Shape PROVE TypeOK
  <2>1. ASSUME NEW w \in Workers
        PROVE  /\ worker[w].pc \in Pcs /\ worker[w].turn \in 0..turns
               /\ worker[w].iter \in 0..MaxIterations
               /\ worker[w].messages \in Seq(Message)
               /\ worker[w].base \in 0..Len(worker[w].messages)
               /\ worker[w].usages \in Seq(Usages) /\ worker[w].results \in Seq(Results)
               /\ worker[w].tool \in Tools \cup {None} /\ worker[w].escalated \in BOOLEAN
    <3>1. Good(worker[w]) /\ worker[w] \in Doing /\ worker[w].turn <= turns /\ turns \in Nat
      BY <1>1, TurnAssumption DEF Shape
    <3>2. worker[w].turn \in Nat /\ worker[w].base \in Nat /\ Len(worker[w].messages) \in Nat
      BY <3>1, Fields
    <3>3. worker[w].base <= Len(worker[w].messages)
      BY <3>1 DEF Good
    <3> QED BY <3>1, <3>2, <3>3, Fields
  <2> QED BY <1>1, <2>1 DEF Shape, TypeOK, Pcs, Results, Ran
<1> QED BY <1>1, ShapeAlways, PTL

\* Each assistant message is recorded with the usage of the model call that made it.
THEOREM UsagesAreTheirOwn == Spec => []UsageIsItsOwn
<1>1. ASSUME Shape PROVE UsageIsItsOwn
  <2> SUFFICES ASSUME NEW i \in DOMAIN file, file[i].kind # "torn"
               PROVE  file[i].usage = IF file[i].kind = "reply" THEN <<file[i].turn, file[i].iter>>
                                                               ELSE NoUsage
    BY DEF UsageIsItsOwn
  <2>1. Line(file[i]) /\ file[i] \notin {Torn, Merged}
    BY <1>1 DEF Shape, Torn, Merged
  <2> QED BY <2>1 DEF Line
<1> QED BY <1>1, ShapeAlways, PTL

-----------------------------------------------------------------------------------
(* The audit of the calls.                                                 *)

\* The call a worker is at.
CallOf(d) == <<d.turn, d.iter, Len(d.results) + 1>>

\* A turn has this call behind it, or is executing it.
Past(d, c) ==
  \/ d.pc \in {"remember", "append"}
  \/ c[2] < d.iter
  \/ c[2] = d.iter /\ d.pc = "model"
  \/ c[2] = d.iter /\ c[3] <= Len(d.results)
  \/ c[2] = d.iter /\ d.pc \in {"dispatch", "running"} /\ c[3] <= Len(d.results) + 1

\* These records of a call let it run.
Permits(records, escalated) ==
  /\ records \in {<<"approved">>, <<"auto_allowed">>}
  /\ escalated => records = <<"approved">>

\* Workers have turns of their own.
Apart ==
  \A v, w \in Workers :
    worker[v].pc \notin Between /\ worker[w].pc \notin Between /\ worker[v].turn = worker[w].turn
      => v = w

\* What is on record of a turn is behind it.
Behind ==
  \A c \in CallIds : log[c] # <<>> =>
    /\ c[1] <= turns
    /\ \A w \in Workers :
         worker[w].pc \notin Between /\ worker[w].turn = c[1] => Past(worker[w], c)

Once == \A c \in CallIds : log[c] = <<>> \/ \E outcome \in Outcomes : log[c] = <<outcome>>

Allowed == \A e \in effects : Permits(log[e.call], e.escalated)

\* A call about to be handed to a tool has its permission, and was not handed to one before.
Cleared ==
  \A w \in Workers : worker[w].pc = "dispatch" =>
    /\ Permits(log[CallOf(worker[w])], worker[w].escalated)
    /\ CallOf(worker[w]) \notin Ran

Audit == Apart /\ Behind /\ Once /\ Allowed /\ Cleared

Others(w) == \A v \in Workers : v # w => worker'[v] = worker[v]

\* The turn goes on, and what it had behind it stays behind it.
GoesOn(w) ==
  /\ worker[w].pc \notin Between /\ worker'[w].turn = worker[w].turn
  /\ \A c \in CallIds : Past(worker[w], c) => Past(worker'[w], c)

\* Nothing is recorded and nothing is run.
Quiet(w) ==
  /\ Others(w) /\ UNCHANGED <<log, effects>> /\ worker'[w].pc # "dispatch"
  /\ \/ worker'[w].pc \in Between /\ UNCHANGED turns
     \/ GoesOn(w) /\ UNCHANGED turns
     \/ turns' = turns + 1 /\ worker'[w].turn = turns'

\* The call is put on record: as one that may run, or it is over.
Records(w, outcome) ==
  /\ Others(w) /\ UNCHANGED <<effects, turns>> /\ GoesOn(w)
  /\ worker[w].pc \in {"check", "ask"} /\ Logged(w, outcome) /\ Past(worker'[w], Current(w))
  /\ worker'[w].pc = "dispatch" => /\ CallOf(worker'[w]) = Current(w)
                                   /\ Permits(<<outcome>>, worker'[w].escalated)

\* The call is handed to a tool.
Runs(w) ==
  /\ Others(w) /\ UNCHANGED <<log, turns>> /\ GoesOn(w)
  /\ worker[w].pc = "dispatch" /\ worker'[w].pc # "dispatch"
  /\ effects' = effects \cup {[call |-> Current(w), escalated |-> worker[w].escalated]}

\* A call that is answered is behind its turn.
LEMMA AnsweredGoesOn ==
  ASSUME Shape, NEW w \in Workers, worker[w].pc \in Calls, NEW result \in Results, Answered(w, result),
         UNCHANGED turns
  PROVE  Others(w) /\ GoesOn(w) /\ worker'[w].pc # "dispatch" /\ Past(worker'[w], Current(w))
<1> DEFINE d == worker[w]
           n == worker'[w]
<1>1. /\ Others(w) /\ n.turn = d.turn /\ n.iter = d.iter
      /\ \/ n.pc = "check" /\ n.results = Append(d.results, result)
         \/ n.pc \in {"model", "remember"}
  BY AnsweredMoves DEF Others
<1>2. d.iter \in Nat /\ Len(d.results) \in Nat /\ d.results \in Seq(Results)
  BY Fields DEF Shape
<1>3. Len(Append(d.results, result)) = Len(d.results) + 1
  BY <1>2, Added
<1>4. /\ Current(w)[2] = d.iter /\ Current(w)[3] = Len(d.results) + 1 /\ d.pc \notin Between
      /\ d.pc \notin {"model", "remember", "append"}
  BY DEF Current, Calls, Between
<1> HIDE DEF d, n
<1>5. ASSUME NEW c \in CallIds, Past(d, c) PROVE Past(n, c)
  <2>1. c[2] \in Nat /\ c[3] \in Nat
    BY TurnAssumption DEF CallIds
  <2> QED BY <1>1, <1>2, <1>3, <1>4, <1>5, <2>1 DEF Past
<1>6. Past(n, Current(w)) /\ n.pc # "dispatch"
  BY <1>1, <1>2, <1>3, <1>4 DEF Past
<1> QED BY <1>1, <1>4, <1>5, <1>6 DEF GoesOn, d, n

\* A call that goes from one phase to the next leaves as much behind, and more on its way to
\* the tool.
LEMMA CallGoesOn ==
  ASSUME Shape, NEW w \in Workers, worker[w].pc \in Calls,
         worker'[w].pc \in Calls, worker'[w].turn = worker[w].turn, worker'[w].iter = worker[w].iter,
         worker'[w].results = worker[w].results,
         worker[w].pc \in {"dispatch", "running"} => worker'[w].pc \in {"dispatch", "running"}
  PROVE  /\ GoesOn(w) /\ CallOf(worker'[w]) = Current(w)
         /\ worker'[w].pc \in {"dispatch", "running"} => Past(worker'[w], Current(w))
<1>1. worker[w].iter \in Nat /\ Len(worker[w].results) \in Nat
  BY Fields DEF Shape
<1>2. Current(w)[2] = worker[w].iter /\ Current(w)[3] = Len(worker[w].results) + 1
  BY DEF Current
<1>3. CallOf(worker'[w]) = Current(w)
  BY DEF Current, CallOf
<1>4. worker[w].pc \notin Between
  BY DEF Calls, Between
<1>5. ASSUME NEW c \in CallIds, Past(worker[w], c) PROVE Past(worker'[w], c)
  BY <1>5 DEF Past, Calls
<1>6. worker'[w].pc \in {"dispatch", "running"} => Past(worker'[w], Current(w))
  BY <1>1, <1>2 DEF Past
<1> QED BY <1>3, <1>4, <1>5, <1>6 DEF GoesOn

\* A step of a worker is quiet, or it records a call, or it runs one.
LEMMA WorkerSteps ==
  ASSUME Shape, NEW w \in Workers, Start(w) \/ Proceed(w) \/ Exit(w) \/ Die(w) \/ Quit(w)
  PROVE  Quiet(w) \/ Runs(w) \/ \E outcome \in Outcomes : Records(w, outcome)
<1> DEFINE d == worker[w]
<1>0. d \in Doing /\ Good(d) /\ worker \in [Workers -> Doing]
  BY DEF Shape
<1>1. CASE Start(w)
  <2> DEFINE history == IF At(w, "idle") THEN Loaded ELSE d.messages
             n == Started(history, turns + 1)
  <2>1. worker' = [worker EXCEPT ![w] = n] /\ turns' = turns + 1 /\ UNCHANGED <<log, effects>>
    BY <1>1 DEF Start, Started, Set
  <2>2. n.turn = turns + 1 /\ n.pc # "dispatch"
    BY DEF Started, Idle
  <2> HIDE DEF n
  <2> QED BY <1>0, <2>1, <2>2 DEF Quiet, Others
<1>2. ASSUME NEW text \in BOOLEAN, NEW calls \in 0..MaxCalls, Complete(w, text, calls)
      PROVE  Quiet(w)
  <2> DEFINE n == Completed(d, text, calls)
  <2>1. /\ worker' = [worker EXCEPT ![w] = n] /\ d.pc = "model" /\ UNCHANGED <<log, effects, turns>>
    BY <1>2 DEF Complete, At, Completed, Reply, Set
  <2>2. /\ n.turn = d.turn /\ n.iter = d.iter + 1
        /\ n.pc = IF calls = 0 THEN "remember" ELSE "check"
    BY <1>0, <2>1, CompletedIsGood
  <2> HIDE DEF n
  <2>3. worker'[w] = n /\ Others(w)
    BY <1>0, <2>1 DEF Others
  <2>4. ASSUME NEW c \in CallIds, Past(d, c) PROVE Past(n, c)
    <3>1. c[2] \in Nat /\ d.iter \in Nat
      BY <1>0, Fields, TurnAssumption DEF CallIds
    <3>2. c[2] <= d.iter
      BY <2>1, <2>4, <3>1 DEF Past
    <3> QED BY <2>2, <3>1, <3>2 DEF Past
  <2> QED BY <2>1, <2>2, <2>3, <2>4 DEF Quiet, GoesOn, Between
<1>3. ASSUME NEW tool \in Tools, NEW flagged \in Flags(tool), NEW contested \in Contests(tool),
             Check(w, tool, flagged, contested)
      PROVE  Quiet(w) \/ \E outcome \in Outcomes : Records(w, outcome)
  <2>1. d.pc = "check" /\ d.pc \in Calls /\ UNCHANGED <<effects, turns>>
    BY <1>3, CheckCases DEF Calls
  <2>2. CASE Logged(w, "auto_denied") /\ Answered(w, "refused")
    <3>1. "auto_denied" \in Outcomes /\ "refused" \in Results
      BY DEF Outcomes, Results
    <3>2. Records(w, "auto_denied")
      BY <2>1, <2>2, <3>1, AnsweredGoesOn DEF Records
    <3> QED BY <3>1, <3>2
  <2>3. ASSUME UNCHANGED log, NEW escalated \in BOOLEAN,
               Set(w, [d EXCEPT !.pc = "ask", !.tool = tool, !.escalated = escalated])
        PROVE  Quiet(w)
    <3>1. "ask" \in Calls
      BY DEF Calls
    <3>2. /\ worker'[w].pc = "ask" /\ worker'[w].turn = d.turn /\ worker'[w].iter = d.iter
          /\ worker'[w].results = d.results /\ Others(w)
      BY <2>1, <2>3, <3>1, CallMoves DEF Others
    <3>3. GoesOn(w)
      BY <2>1, <3>1, <3>2, CallGoesOn
    <3> QED BY <2>1, <2>3, <3>2, <3>3 DEF Quiet
  <2>4. CASE /\ Logged(w, "auto_allowed") /\ ~flagged /\ ~contested
             /\ Set(w, [d EXCEPT !.pc = "dispatch", !.tool = tool, !.escalated = FALSE])
    <3>1. "dispatch" \in Calls /\ FALSE \in BOOLEAN /\ "auto_allowed" \in Outcomes
      BY DEF Calls, Outcomes
    <3>2. /\ worker'[w].pc = "dispatch" /\ worker'[w].turn = d.turn /\ worker'[w].iter = d.iter
          /\ worker'[w].results = d.results /\ worker'[w].escalated = FALSE /\ Others(w)
      BY <2>1, <2>4, <3>1, CallMoves DEF Others
    <3>3. GoesOn(w) /\ CallOf(worker'[w]) = Current(w) /\ Past(worker'[w], Current(w))
      BY <2>1, <3>1, <3>2, CallGoesOn
    <3>4. Permits(<<"auto_allowed">>, worker'[w].escalated)
      BY <3>2 DEF Permits
    <3>5. Records(w, "auto_allowed")
      BY <2>1, <2>4, <3>2, <3>3, <3>4 DEF Records
    <3> QED BY <3>1, <3>5
  <2>5. \/ Logged(w, "auto_denied") /\ Answered(w, "refused")
        \/ /\ UNCHANGED log
           /\ \E escalated \in BOOLEAN :
                Set(w, [d EXCEPT !.pc = "ask", !.tool = tool, !.escalated = escalated])
        \/ /\ Logged(w, "auto_allowed") /\ ~flagged /\ ~contested
           /\ Set(w, [d EXCEPT !.pc = "dispatch", !.tool = tool, !.escalated = FALSE])
    BY <1>3, CheckCases
  <2> QED BY <2>2, <2>3, <2>4, <2>5, Zenon
<1>4. ASSUME Approve(w) PROVE Records(w, "approved")
  <2>1. d.pc = "ask" /\ d.pc \in Calls /\ "dispatch" \in Calls /\ UNCHANGED <<effects, turns>>
    BY <1>4, ApproveMoves DEF Calls
  <2>2. /\ worker'[w].pc = "dispatch" /\ worker'[w].turn = d.turn /\ worker'[w].iter = d.iter
        /\ worker'[w].results = d.results /\ Others(w) /\ Logged(w, "approved")
    BY <1>4, <2>1, ApproveMoves, CallMoves DEF Others
  <2>3. GoesOn(w) /\ CallOf(worker'[w]) = Current(w) /\ Past(worker'[w], Current(w))
    BY <2>1, <2>2, CallGoesOn
  <2>4. Permits(<<"approved">>, worker'[w].escalated)
    BY DEF Permits
  <2> QED BY <2>1, <2>2, <2>3, <2>4 DEF Records
<1>5. ASSUME Refuse(w) PROVE Records(w, "denied")
  <2>1. /\ d.pc = "ask" /\ d.pc \in Calls /\ "refused" \in Results /\ UNCHANGED <<effects, turns>>
        /\ Logged(w, "denied") /\ Answered(w, "refused")
    BY <1>5 DEF Refuse, At, Calls, Results
  <2> QED BY <2>1, AnsweredGoesOn DEF Records
<1>6. ASSUME Dispatch(w) PROVE Runs(w)
  <2>1. /\ d.pc = "dispatch" /\ d.pc \in Calls /\ "running" \in Calls /\ "ran" \in Results
        /\ UNCHANGED <<log, turns>>
        /\ effects' = effects \cup {[call |-> Current(w), escalated |-> d.escalated]}
        /\ Set(w, [d EXCEPT !.pc = "running"]) \/ Answered(w, "ran")
    BY <1>6 DEF Dispatch, At, Calls, Results
  <2>2. CASE Set(w, [d EXCEPT !.pc = "running"])
    <3>1. /\ worker'[w].pc = "running" /\ worker'[w].turn = d.turn /\ worker'[w].iter = d.iter
          /\ worker'[w].results = d.results /\ Others(w)
      BY <2>1, <2>2, RunMoves DEF Others
    <3>2. GoesOn(w)
      BY <2>1, <3>1, CallGoesOn
    <3> QED BY <2>1, <3>1, <3>2 DEF Runs
  <2>3. CASE Answered(w, "ran")
    BY <2>1, <2>3, AnsweredGoesOn DEF Runs
  <2> QED BY <2>1, <2>2, <2>3
<1>7. ASSUME Exit(w) \/ Expire(w) PROVE Quiet(w)
  <2>1. d.pc \in Calls /\ "ran" \in Results /\ Answered(w, "ran") /\ UNCHANGED <<log, effects, turns>>
    BY <1>7 DEF Exit, Expire, Waits, At, Calls, Results
  <2> QED BY <2>1, AnsweredGoesOn DEF Quiet
<1>8. ASSUME Remember(w) PROVE Quiet(w)
  <2>1. /\ Others(w) /\ d.pc = "remember" /\ worker'[w].pc = "append" /\ worker'[w].turn = d.turn
        /\ UNCHANGED <<log, effects, turns>>
    BY <1>8, RememberMoves DEF Others, Remember
  <2> QED BY <2>1 DEF Quiet, GoesOn, Between, Past
<1>9. ASSUME AppendMessage(w) PROVE Quiet(w)
  <2>1. /\ Others(w) /\ d.pc = "append" /\ UNCHANGED <<log, effects, turns>>
        /\ \/ worker'[w].pc = "append" /\ worker'[w].turn = d.turn
           \/ worker'[w].pc \in Between
    BY <1>9, AppendMoves DEF Others, AppendMessage
  <2> QED BY <2>1 DEF Quiet, GoesOn, Between, Past
<1>10. ASSUME Die(w) \/ Quit(w) PROVE Quiet(w)
  <2>1. UNCHANGED <<log, effects, turns>> /\ Set(w, Idle)
    BY <1>10 DEF Die, Quit
  <2> QED BY <2>1, StopMoves, IdleIsGood DEF Quiet, Others, Between
<1> QED BY <1>1, <1>2, <1>3, <1>4, <1>5, <1>6, <1>7, <1>8, <1>9, <1>10 DEF Proceed, Outcomes

\* The calls of different workers are different, and a worker's call is not yet behind it.
LEMMA OwnCalls ==
  ASSUME Shape, Audit, NEW w \in Workers, worker[w].pc \in Calls
  PROVE  /\ Current(w) \in CallIds /\ Current(w) = CallOf(worker[w])
         /\ worker[w].pc \in {"check", "ask"} => log[Current(w)] = <<>>
         /\ \A v \in Workers : v # w /\ worker[v].pc \in Calls => CallOf(worker[v]) # Current(w)
<1>1. /\ Current(w) \in CallIds /\ Current(w)[1] = worker[w].turn /\ Current(w)[2] = worker[w].iter
      /\ Current(w)[3] = Len(worker[w].results) + 1 /\ worker[w].pc \notin Between
  BY CurrentIsACall DEF Calls, Between
<1>2. worker[w].iter \in Nat /\ Len(worker[w].results) \in Nat
  BY Fields DEF Shape
<1>3. worker[w].pc \in {"check", "ask"} => ~Past(worker[w], Current(w))
  BY <1>1, <1>2 DEF Past
<1>4. worker[w].pc \in {"check", "ask"} => log[Current(w)] = <<>>
  BY <1>1, <1>3 DEF Audit, Behind
<1>5. ASSUME NEW v \in Workers, v # w, worker[v].pc \in Calls PROVE CallOf(worker[v]) # Current(w)
  <2>1. worker[v].pc \notin Between
    BY <1>5 DEF Calls, Between
  <2>2. worker[v].turn # worker[w].turn
    BY <1>1, <1>5, <2>1 DEF Audit, Apart
  <2> QED BY <1>1, <2>2 DEF CallOf
<1> QED BY <1>1, <1>4, <1>5 DEF Current, CallOf

\* Who goes on keeps to its turn.
LEMMA ApartStays ==
  ASSUME Shape, Apart, NEW w \in Workers, Others(w),
         \/ worker'[w].pc \in Between
         \/ GoesOn(w)
         \/ turns' = turns + 1 /\ worker'[w].turn = turns'
  PROVE  Apart'
<1>1. turns \in Nat /\ \A v \in Workers : worker[v].turn \in Nat /\ worker[v].turn <= turns
  BY Fields, TurnAssumption DEF Shape
<1>2. CASE worker'[w].pc \in Between
  BY <1>2 DEF Apart, Others
<1>3. CASE GoesOn(w)
  BY <1>3 DEF Apart, Others, GoesOn
<1>4. CASE turns' = turns + 1 /\ worker'[w].turn = turns'
  <2>1. \A v \in Workers : v # w => worker[v].turn # worker'[w].turn
    BY <1>1, <1>4
  <2> QED BY <2>1 DEF Apart, Others
<1> QED BY <1>2, <1>3, <1>4

LEMMA AuditQuiet ==
  ASSUME Shape, Audit, NEW w \in Workers, Quiet(w)
  PROVE  Audit'
<1>1. turns \in Nat /\ \A c \in CallIds : c[1] \in Nat
  BY TurnAssumption DEF Shape, CallIds, Turns
<1>2. Apart'
  BY ApartStays DEF Audit, Quiet
<1>3. Behind'
  <2> SUFFICES ASSUME NEW c \in CallIds, log[c] # <<>>
               PROVE  /\ c[1] <= turns'
                      /\ \A v \in Workers : worker'[v].pc \notin Between /\ worker'[v].turn = c[1]
                           => Past(worker'[v], c)
    BY DEF Behind, Quiet
  <2>1. /\ c[1] <= turns
        /\ \A v \in Workers : worker[v].pc \notin Between /\ worker[v].turn = c[1] => Past(worker[v], c)
    BY DEF Audit, Behind
  <2>2. c[1] <= turns' /\ c[1] # turns + 1
    BY <1>1, <2>1 DEF Quiet
  <2>3. worker'[w].pc \notin Between /\ worker'[w].turn = c[1] => Past(worker'[w], c)
    BY <2>1, <2>2 DEF Quiet, GoesOn
  <2> QED BY <2>1, <2>2, <2>3 DEF Quiet, Others
<1>4. Once' /\ Allowed'
  BY DEF Audit, Quiet, Once, Allowed
<1>5. Cleared'
  BY DEF Audit, Quiet, Cleared, Others, CallOf, Ran
<1> QED BY <1>2, <1>3, <1>4, <1>5 DEF Audit

LEMMA AuditRecords ==
  ASSUME Shape, Audit, NEW w \in Workers, NEW outcome \in Outcomes, Records(w, outcome)
  PROVE  /\ Audit' /\ Current(w) \in CallIds /\ log[Current(w)] = <<>>
         /\ log' = [log EXCEPT ![Current(w)] = <<outcome>>]
<1> DEFINE call == Current(w)
<1>1. worker[w].pc \in {"check", "ask"} /\ worker[w].pc \in Calls
  BY DEF Records, Calls
<1>2. /\ call \in CallIds /\ log[call] = <<>> /\ call[1] = worker[w].turn
      /\ \A v \in Workers : v # w /\ worker[v].pc \in Calls => CallOf(worker[v]) # call
  BY <1>1, OwnCalls, CurrentIsACall
<1>3. log' = [log EXCEPT ![call] = <<outcome>>]
  BY <1>2 DEF Records, Logged
<1>4. log \in [CallIds -> Seq(Outcomes)]
  BY DEF Shape
<1>5. log'[call] = <<outcome>> /\ \A c \in CallIds : c # call => log'[c] = log[c]
  BY <1>2, <1>3, <1>4
<1>6. call \notin Ran
  <2>1. \A e \in effects : log[e.call] # <<>>
    BY DEF Audit, Allowed, Permits
  <2> QED BY <1>2, <2>1 DEF Ran
<1>7. \A e \in effects : e.call \in CallIds /\ e.call # call
  BY <1>6 DEF Shape, Ran
<1>8. worker[w].turn <= turns /\ GoesOn(w) /\ Others(w) /\ UNCHANGED <<effects, turns>>
  BY DEF Shape, Records
<1>9. Past(worker'[w], call)
  BY DEF Records
<1>10. worker'[w].pc = "dispatch" => CallOf(worker'[w]) = call /\ Permits(<<outcome>>, worker'[w].escalated)
  BY DEF Records
<1> HIDE DEF call
<1>11. Apart'
  BY <1>8, ApartStays DEF Audit
<1>12. Behind'
  <2> SUFFICES ASSUME NEW c \in CallIds, log'[c] # <<>>
               PROVE  /\ c[1] <= turns'
                      /\ \A v \in Workers : worker'[v].pc \notin Between /\ worker'[v].turn = c[1]
                           => Past(worker'[v], c)
    BY DEF Behind
  <2>1. CASE c = call
    <3>1. c[1] <= turns'
      BY <1>2, <1>8, <2>1
    <3>2. ASSUME NEW v \in Workers, v # w, worker[v].pc \notin Between PROVE worker[v].turn # c[1]
      BY <1>2, <1>8, <2>1, <3>2 DEF Audit, Apart, GoesOn
    <3> QED BY <1>8, <1>9, <2>1, <3>1, <3>2 DEF Others
  <2>2. CASE c # call
    <3>1. log[c] # <<>>
      BY <1>5, <2>2
    <3>2. /\ c[1] <= turns
          /\ \A v \in Workers : worker[v].pc \notin Between /\ worker[v].turn = c[1] => Past(worker[v], c)
      BY <3>1 DEF Audit, Behind
    <3> QED BY <1>8, <3>2 DEF Others, GoesOn
  <2> QED BY <2>1, <2>2
<1>13. Once'
  BY <1>5 DEF Audit, Once
<1>14. Allowed'
  BY <1>5, <1>7, <1>8 DEF Audit, Allowed
<1>15. Cleared'
  <2> SUFFICES ASSUME NEW v \in Workers, worker'[v].pc = "dispatch"
               PROVE  /\ Permits(log'[CallOf(worker'[v])], worker'[v].escalated)
                      /\ CallOf(worker'[v]) \notin Ran
    BY <1>8 DEF Cleared, CallOf, Ran
  <2>1. CASE v = w
    BY <1>5, <1>6, <1>10, <2>1
  <2>2. CASE v # w
    <3>1. worker'[v] = worker[v] /\ worker[v].pc \in Calls
      BY <1>8, <2>2 DEF Others, Calls
    <3>2. /\ Permits(log[CallOf(worker[v])], worker[v].escalated) /\ CallOf(worker[v]) \notin Ran
          /\ CallOf(worker[v]) # call
      BY <1>2, <2>2, <3>1 DEF Audit, Cleared
    <3>3. CallOf(worker[v]) \in CallIds
      BY <3>1, CurrentIsACall DEF Current, CallOf
    <3> QED BY <1>5, <3>1, <3>2, <3>3
  <2> QED BY <2>1, <2>2
<1> QED BY <1>2, <1>3, <1>11, <1>12, <1>13, <1>14, <1>15 DEF Audit, call

LEMMA AuditRuns ==
  ASSUME Shape, Audit, NEW w \in Workers, Runs(w)
  PROVE  /\ Audit' /\ Current(w) \in CallIds /\ Current(w) \notin Ran
         /\ Permits(log[Current(w)], worker[w].escalated) /\ Ran' = Ran \cup {Current(w)}
<1> DEFINE e == [call |-> Current(w), escalated |-> worker[w].escalated]
<1>1. /\ worker[w].pc = "dispatch" /\ worker[w].pc \in Calls
      /\ Others(w) /\ GoesOn(w) /\ UNCHANGED <<log, turns>> /\ worker'[w].pc # "dispatch"
      /\ effects' = effects \cup {e}
  BY DEF Runs, Calls
<1>2. /\ Current(w) \in CallIds /\ Current(w) = CallOf(worker[w])
      /\ \A v \in Workers : v # w /\ worker[v].pc \in Calls => CallOf(worker[v]) # Current(w)
  BY <1>1, OwnCalls
<1>3. Permits(log[Current(w)], worker[w].escalated) /\ Current(w) \notin Ran
  BY <1>1, <1>2 DEF Audit, Cleared
<1>4. e.call = Current(w) /\ e.escalated = worker[w].escalated
  OBVIOUS
<1> HIDE DEF e
<1>5. Ran' = Ran \cup {Current(w)}
  BY <1>1, <1>4 DEF Ran
<1>6. Apart'
  BY <1>1, ApartStays DEF Audit
<1>7. Behind'
  BY <1>1 DEF Audit, Behind, Others, GoesOn
<1>8. Once' /\ Allowed'
  BY <1>1, <1>3, <1>4 DEF Audit, Once, Allowed
<1>9. Cleared'
  <2> SUFFICES ASSUME NEW v \in Workers, worker'[v].pc = "dispatch"
               PROVE  /\ Permits(log[CallOf(worker'[v])], worker'[v].escalated)
                      /\ CallOf(worker'[v]) \notin Ran'
    BY <1>1 DEF Cleared, CallOf
  <2>1. v # w /\ worker'[v] = worker[v] /\ worker[v].pc \in Calls
    BY <1>1 DEF Others, Calls
  <2> QED BY <1>2, <1>5, <2>1 DEF Audit, Cleared
<1> QED BY <1>2, <1>3, <1>5, <1>6, <1>7, <1>8, <1>9 DEF Audit

\* What a step is to the audit.
LEMMA AuditSteps ==
  ASSUME Shape, [Next]_vars
  PROVE  \/ UNCHANGED <<worker, log, effects, turns>>
         \/ \E w \in Workers : Quiet(w) \/ Runs(w) \/ \E outcome \in Outcomes : Records(w, outcome)
<1>1. ASSUME NEW w \in Workers, Start(w) \/ Proceed(w) \/ Exit(w) \/ Die(w) \/ Quit(w)
      PROVE  Quiet(w) \/ Runs(w) \/ \E outcome \in Outcomes : Records(w, outcome)
  BY <1>1, WorkerSteps
<1>2. ASSUME NEW c \in commands, EndCommand(c) PROVE UNCHANGED <<worker, log, effects, turns>>
  BY <1>2 DEF EndCommand
<1>3. CASE UNCHANGED vars
  BY <1>3 DEF vars
<1> QED BY <1>1, <1>2, <1>3 DEF Next

LEMMA AuditAtStart == Init => Audit
<1> SUFFICES ASSUME Init PROVE Audit
  OBVIOUS
<1>1. /\ \A w \in Workers : worker[w].pc = "idle"
      /\ \A c \in CallIds : log[c] = <<>>
      /\ effects = {}
  BY IdleIsGood DEF Init
<1>2. Apart /\ Behind /\ Once /\ Allowed /\ Cleared
  BY <1>1 DEF Apart, Behind, Once, Allowed, Cleared, Between
<1> QED BY <1>2 DEF Audit

\* Whatever happens, the audit is right.
LEMMA AuditAlways == Spec => [](Shape /\ Audit)
<1>1. Shape /\ Audit /\ [Next]_vars => Audit'
  <2> SUFFICES ASSUME Shape, Audit, [Next]_vars PROVE Audit'
    OBVIOUS
  <2>1. CASE UNCHANGED <<worker, log, effects, turns>>
    BY <2>1 DEF Audit, Apart, Behind, Once, Allowed, Cleared, Ran
  <2>2. ASSUME NEW w \in Workers, Quiet(w) PROVE Audit'
    BY <2>2, AuditQuiet
  <2>3. ASSUME NEW w \in Workers, Runs(w) PROVE Audit'
    BY <2>3, AuditRuns
  <2>4. ASSUME NEW w \in Workers, NEW outcome \in Outcomes, Records(w, outcome) PROVE Audit'
    BY <2>4, AuditRecords
  <2> QED BY <2>1, <2>2, <2>3, <2>4, AuditSteps
<1> QED BY ShapeAlways, AuditAtStart, <1>1, PTL DEF Spec

\* A flagged command or a write to a contested file never runs without a human's yes, in any
\* mode and under any change of mode.
THEOREM EscalationsAreApproved == Spec => []EscalationsNeedAHuman
<1>1. Audit => EscalationsNeedAHuman
  BY DEF Audit, Allowed, Permits, EscalationsNeedAHuman
<1> QED BY <1>1, AuditAlways, PTL

\* permissions.jsonl accounts for everything done: a tool is given a call once and only after
\* the one record of that call says it may, and a record stands, whatever crashes in between.
THEOREM TurnsImplementAuditedCalls == Spec => ImplementsAuditedCalls
<1> DEFINE record == [c \in CallIds |-> CASE log[c] = <<>>     -> "none"
                                          [] Len(log[c]) = 1 -> log[c][1]
                                          [] OTHER           -> "twice"]
<1>1. Init => Audited!Init
  BY DEF Init, Audited!Init
<1>2. Shape /\ Audit /\ [Next]_vars => [Audited!Next]_<<record, Ran>>
  <2> SUFFICES ASSUME Shape, Audit, [Next]_vars PROVE [Audited!Next]_<<record, Ran>>
    OBVIOUS
  <2>1. ASSUME UNCHANGED <<log, effects>> PROVE UNCHANGED <<record, Ran>>
    BY <2>1 DEF Ran
  <2>2. ASSUME NEW w \in Workers, NEW outcome \in Outcomes, Records(w, outcome)
        PROVE  Audited!Next
    <3> DEFINE call == Current(w)
    <3>1. /\ call \in CallIds /\ log[call] = <<>>
          /\ log' = [log EXCEPT ![call] = <<outcome>>] /\ log \in [CallIds -> Seq(Outcomes)]
          /\ UNCHANGED effects
      BY <2>2, AuditRecords DEF Shape, Records
    <3> HIDE DEF call
    <3>2. record[call] = "none"
      BY <3>1
    <3>3. /\ log'[call] = <<outcome>> /\ <<outcome>> # <<>> /\ Len(<<outcome>>) = 1
          /\ <<outcome>>[1] = outcome /\ \A c \in CallIds : c # call => log'[c] = log[c]
      BY <3>1
    <3>4. record'[call] = outcome /\ \A c \in CallIds : c # call => record'[c] = record[c]
      BY <3>1, <3>3
    <3>5. record' = [record EXCEPT ![call] = outcome]
      BY <3>1, <3>4
    <3>6. outcome \in Audited!Outcomes
      BY DEF Outcomes, Audited!Outcomes, Audited!Permitting
    <3>7. Audited!Record(call, outcome)
      BY <3>1, <3>2, <3>5 DEF Audited!Record, Ran
    <3> QED BY <3>1, <3>6, <3>7 DEF Audited!Next
  <2>3. ASSUME NEW w \in Workers, Runs(w)
        PROVE  Audited!Next
    <3>1. /\ Current(w) \in CallIds /\ Current(w) \notin Ran
          /\ Ran' = Ran \cup {Current(w)}
          /\ log[Current(w)] \in {<<"approved">>, <<"auto_allowed">>} /\ UNCHANGED log
      BY <2>3, AuditRuns DEF Permits, Runs
    <3>2. PICK call \in CallIds : /\ call \notin Ran /\ Ran' = Ran \cup {call}
                                 /\ log[call] \in {<<"approved">>, <<"auto_allowed">>}
      BY <3>1
    <3>3. record[call] \in Audited!Permitting
      BY <3>2 DEF Audited!Permitting
    <3>4. UNCHANGED record
      BY <3>1
    <3> HIDE DEF record
    <3>5. Audited!Run(call)
      <4>1. Audited!Run(call) <=> /\ record[call] \in Audited!Permitting /\ call \notin Ran
                                  /\ Ran' = Ran \cup {call}
                                  /\ UNCHANGED record
        BY ZenonT(30) DEF Audited!Run, Ran, record
      <4> QED BY <3>2, <3>3, <3>4, <4>1
    <3> QED BY <3>5 DEF Audited!Next
  <2>4. ASSUME NEW w \in Workers, Quiet(w) PROVE UNCHANGED <<log, effects>>
    BY <2>4 DEF Quiet
  <2> HIDE DEF record
  <2> QED BY <2>1, <2>2, <2>3, <2>4, AuditSteps
<1> QED BY <1>1, <1>2, AuditAlways, PTL DEF Spec, ImplementsAuditedCalls, Audited!Spec, Ran

-----------------------------------------------------------------------------------
(* Calls and their results.                                                *)

\* If m has calls, their results are the next message.
Joined(m, next) == Calling(m) => Answers(m, next)

\* Every response with calls but the last message is followed by their results.
AllJoined(lines) == \A i \in 1..Len(lines) - 1 : Joined(lines[i], lines[i + 1])

Ends(lines) == lines # <<>> => ~Calling(Last(lines))

\* The line is this message, the usage apart.
IsLineOf(line, m) ==
  /\ line.kind = m.kind /\ line.turn = m.turn /\ line.iter = m.iter
  /\ line.calls = m.calls /\ line.results = m.results

\* A worker has written part of its turn.
Writing(d) == d.pc = "append" /\ d.messages[d.base + 1].kind # "prompt"

Conversations ==
  \A w \in Workers : /\ AllJoined(worker[w].messages)
                     /\ worker[w].pc \in Between => Ends(worker[w].messages)

\* Calls at the end of the log are of the worker that is about to write their results.
Writings ==
  /\ AllJoined(file)
  /\ file # <<>> /\ Calling(Last(file)) =>
       \E w \in Workers : Writing(worker[w]) /\ IsLineOf(Last(file), worker[w].messages[worker[w].base])

\* Nobody writes in the middle of another's turn.
Alone == \A v, w \in Workers : Writing(worker[v]) /\ Writing(worker[w]) => v = w

Pairing == mixed \/ (Conversations /\ Writings /\ Alone)

\* A sequence and one message more.
LEMMA AppendJoins ==
  ASSUME NEW S, NEW s \in Seq(S), AllJoined(s), NEW m \in S, s # <<>> => Joined(s[Len(s)], m)
  PROVE  AllJoined(Append(s, m))
<1> DEFINE a == Append(s, m)
<1>1. /\ Len(s) \in Nat /\ Len(a) = Len(s) + 1
      /\ \A i \in 1..Len(s) : a[i] = s[i]
      /\ a[Len(s) + 1] = m
  BY Added
<1> HIDE DEF a
<1>2. ASSUME NEW i \in 1..Len(a) - 1 PROVE Joined(a[i], a[i + 1])
  <2>1. CASE i = Len(s)
    BY <1>1, <2>1
  <2>2. CASE i < Len(s)
    <3>1. i \in 1..Len(s) - 1 /\ i \in 1..Len(s) /\ i + 1 \in 1..Len(s)
      BY <1>1, <2>2
    <3> QED BY <1>1, <3>1 DEF AllJoined
  <2> QED BY <1>1, <2>1, <2>2
<1> QED BY <1>2 DEF AllJoined, a

\* What follows in a turn joins.
LEMMA FollowsJoins ==
  ASSUME NEW m, NEW next, Follows(m, next)
  PROVE  Joined(m, next)
BY DEF Follows, Joined, Calling

\* A turn's conversation with what follows in it.
LEMMA ConversationGrows ==
  ASSUME NEW d \in Doing, InTurn(d), AllJoined(d.messages), NEW m \in Message,
         Follows(d.messages[Len(d.messages)], m)
  PROVE  AllJoined(Append(d.messages, m))
<1>1. d.messages \in Seq(Message)
  BY Fields
<1>2. Joined(d.messages[Len(d.messages)], m)
  BY FollowsJoins
<1> QED BY <1>1, <1>2, AppendJoins

\* A log without calls at its end is a conversation.
LEMMA LoadedJoins ==
  ASSUME Shape, Loadable, AllJoined(file), Ends(file)
  PROVE  Loaded \in Seq(Message) /\ AllJoined(Loaded) /\ Ends(Loaded)
<1>1. /\ Loaded \in Seq(Message) /\ Len(Loaded) = Len(file) /\ DOMAIN Loaded = DOMAIN file
      /\ DOMAIN file = 1..Len(file) /\ Len(file) \in Nat
  BY LoadedIs, Elements DEF Shape
<1>2. ASSUME NEW i \in 1..Len(file)
      PROVE  /\ Loaded[i].kind = file[i].kind /\ Loaded[i].turn = file[i].turn
             /\ Loaded[i].iter = file[i].iter /\ Loaded[i].calls = file[i].calls
             /\ Loaded[i].results = file[i].results
  <2>1. file[i] \in Message /\ Loaded[i] = [file[i] EXCEPT !.usage = NoUsage]
    BY <1>1, LoadedIs
  <2> QED BY <2>1 DEF Message
<1>3. AllJoined(Loaded)
  <2> SUFFICES ASSUME NEW i \in 1..Len(Loaded) - 1 PROVE Joined(Loaded[i], Loaded[i + 1])
    BY DEF AllJoined
  <2>1. i \in 1..Len(file) /\ i + 1 \in 1..Len(file) /\ Joined(file[i], file[i + 1])
    BY <1>1 DEF AllJoined
  <2> QED BY <1>2, <2>1 DEF Joined, Calling, Answers
<1>4. Ends(Loaded)
  <2> SUFFICES ASSUME Loaded # <<>> PROVE ~Calling(Last(Loaded))
    BY DEF Ends
  <2>1. Len(Loaded) \in 1..Len(file) /\ file # <<>>
    BY <1>1
  <2> QED BY <1>1, <1>2, <2>1 DEF Ends, Calling, Last
<1> QED BY <1>1, <1>3, <1>4

\* A worker whose part in the log is none before and after.
LEMMA PairingOfTalk ==
  ASSUME Conversations, Writings, Alone, NEW w \in Workers, Others(w), UNCHANGED file,
         ~Writing(worker[w]), ~Writing(worker'[w]), AllJoined(worker'[w].messages),
         worker'[w].pc \in Between => Ends(worker'[w].messages)
  PROVE  Pairing'
<1>1. Conversations'
  BY DEF Conversations, Others
<1>2. Writings'
  <2> SUFFICES ASSUME file # <<>>, Calling(Last(file))
               PROVE  \E v \in Workers : /\ Writing(worker'[v])
                                         /\ IsLineOf(Last(file), worker'[v].messages[worker'[v].base])
    BY DEF Writings
  <2>1. PICK v \in Workers : Writing(worker[v]) /\ IsLineOf(Last(file), worker[v].messages[worker[v].base])
    BY DEF Writings
  <2>2. worker'[v] = worker[v]
    BY <2>1 DEF Others
  <2> QED BY <2>1, <2>2
<1>3. Alone'
  BY DEF Alone, Others
<1> QED BY <1>1, <1>2, <1>3 DEF Pairing

\* A turn begins with what was said before, wherever it is read from.
LEMMA PairingStart ==
  ASSUME Shape, Conversations, Writings, Alone, NEW w \in Workers, Start(w), ~mixed'
  PROVE  Pairing'
<1> DEFINE d == worker[w]
           history == IF At(w, "idle") THEN Loaded ELSE d.messages
           n == Started(history, turns + 1)
<1>1. /\ worker' = [worker EXCEPT ![w] = n] /\ worker \in [Workers -> Doing] /\ UNCHANGED file
      /\ turns + 1 \in Turns
  BY TurnAssumption DEF Shape, Start, Started, Set, Turns
<1>2. \A v \in Workers : ~Writing(worker[v])
  BY DEF Start, HalfWritten, Writing, At
<1>3. history \in Seq(Message) /\ AllJoined(history) /\ Ends(history)
  <2>1. CASE At(w, "idle")
    <3>1. Loadable /\ AllJoined(file)
      BY <2>1 DEF Start, Writings
    <3>2. Ends(file)
      BY <1>2 DEF Ends, Writings
    <3> QED BY <2>1, <3>1, <3>2, LoadedJoins
  <2>2. CASE ~At(w, "idle")
    <3>1. d \in Doing /\ d.pc \in Between
      BY <2>2 DEF Shape, Start, Busy, Between
    <3> QED BY <2>2, <3>1, Fields DEF Conversations
  <2> QED BY <2>1, <2>2
<1>4. /\ n.messages = Append(history, Prompt(turns + 1)) /\ n.pc \in {"model", "remember"}
  BY DEF Started, Idle
<1>5. Prompt(turns + 1) \in Message
  BY <1>1, TurnAssumption DEF Prompt, Message
<1>6. AllJoined(Append(history, Prompt(turns + 1)))
  <2> HIDE DEF history
  <2>1. history # <<>> => Joined(history[Len(history)], Prompt(turns + 1))
    BY <1>3 DEF Ends, Last, Joined
  <2> QED BY <1>3, <1>5, <2>1, AppendJoins
<1> HIDE DEF n, history
<1>7. worker'[w] = n /\ Others(w)
  BY <1>1 DEF Others
<1>8. ~Writing(worker'[w]) /\ worker'[w].pc \notin Between
  BY <1>4, <1>7 DEF Writing, Between
<1> QED BY <1>1, <1>2, <1>4, <1>6, <1>7, <1>8, PairingOfTalk

\* What a turn says up to its end is joined and stays out of the log.
LEMMA PairingTalks ==
  ASSUME Shape, Conversations, Writings, Alone, NEW w \in Workers,
         \/ \E text \in BOOLEAN, calls \in 0..MaxCalls : Complete(w, text, calls)
         \/ \E tool \in Tools : \E flagged \in Flags(tool), contested \in Contests(tool) :
              Check(w, tool, flagged, contested)
         \/ Approve(w) \/ Refuse(w) \/ Dispatch(w) \/ Exit(w) \/ Expire(w) \/ Remember(w)
  PROVE  Pairing'
<1> DEFINE d == worker[w]
<1>1. d \in Doing /\ Good(d) /\ AllJoined(d.messages)
  BY DEF Shape, Conversations
<1>2. ASSUME d.pc \in Calls, NEW result \in Results, Answered(w, result), UNCHANGED <<file, turns>>
      PROVE  Pairing'
  <2>1. /\ Others(w)
        /\ \/ worker'[w].pc = "check" /\ worker'[w].messages = d.messages
           \/ /\ worker'[w].pc \in {"model", "remember"}
              /\ \E m \in Message : /\ worker'[w].messages = Append(d.messages, m)
                                    /\ Follows(d.messages[Len(d.messages)], m)
    BY <1>2, AnsweredMoves DEF Others
  <2>2. InTurn(d) /\ ~Writing(d)
    BY <1>1, <1>2 DEF Good, Calls, Between, Writing
  <2>3. AllJoined(worker'[w].messages)
    BY <1>1, <2>1, <2>2, ConversationGrows
  <2>4. ~Writing(worker'[w]) /\ worker'[w].pc \notin Between
    BY <2>1 DEF Writing, Between
  <2> QED BY <1>2, <2>1, <2>2, <2>3, <2>4, PairingOfTalk
<1>3. ASSUME d.pc \in Calls, worker'[w].pc \in Calls, Others(w), worker'[w].messages = d.messages,
             UNCHANGED file
      PROVE  Pairing'
  <2>1. ~Writing(d) /\ ~Writing(worker'[w]) /\ worker'[w].pc \notin Between
    BY <1>3 DEF Writing, Calls, Between
  <2> QED BY <1>1, <1>3, <2>1, PairingOfTalk
<1>4. ASSUME NEW text \in BOOLEAN, NEW calls \in 0..MaxCalls, Complete(w, text, calls)
      PROVE  Pairing'
  <2> DEFINE reply == Reply(d, text, calls)
             n == Completed(d, text, calls)
  <2>1. /\ worker' = [worker EXCEPT ![w] = n] /\ d.pc = "model" /\ UNCHANGED file
        /\ worker \in [Workers -> Doing]
    BY <1>4 DEF Complete, At, Completed, Reply, Set, Shape
  <2>2. /\ n.messages = Append(d.messages, reply) /\ Good(n)
        /\ n.pc = IF calls = 0 THEN "remember" ELSE "check"
    BY <1>1, <2>1, CompletedIsGood
  <2>3. InTurn(d) /\ Phase(d, d.messages[Len(d.messages)])
    BY <1>1, <2>1 DEF Good, Between, InTurn
  <2>4. ~Calling(d.messages[Len(d.messages)])
    BY <2>1, <2>3 DEF Phase, Calling, Calls
  <2>5. reply \in Message
    <3>1. /\ n.messages \in Seq(Message) /\ Len(n.messages) = Len(d.messages) + 1
          /\ n.messages[Len(d.messages) + 1] = reply /\ Len(d.messages) \in Nat
      <4> HIDE DEF n, reply
      <4>1. n.messages \in Seq(Message) /\ Len(d.messages) \in Nat /\ d.messages \in Seq(Message)
        BY <1>1, <2>2, Fields DEF Good
      <4> QED BY <2>2, <4>1
    <3> HIDE DEF n, reply
    <3> QED BY <3>1, Elements
  <2> HIDE DEF n, reply
  <2>6. AllJoined(n.messages)
    BY <1>1, <2>2, <2>4, <2>5, AppendJoins, Fields DEF Joined
  <2>7. worker'[w] = n /\ Others(w)
    BY <2>1 DEF Others
  <2>8. ~Writing(d) /\ ~Writing(worker'[w]) /\ worker'[w].pc \notin Between
    BY <2>1, <2>2, <2>7 DEF Writing, Between
  <2> QED BY <2>1, <2>6, <2>7, <2>8, PairingOfTalk
<1>5. ASSUME NEW tool \in Tools, NEW flagged \in Flags(tool), NEW contested \in Contests(tool),
             Check(w, tool, flagged, contested)
      PROVE  Pairing'
  <2>1. /\ d.pc \in Calls /\ "ask" \in Calls /\ "dispatch" \in Calls /\ FALSE \in BOOLEAN
        /\ "refused" \in Results /\ UNCHANGED <<file, turns>>
    BY <1>5, CheckCases DEF Calls, Results
  <2>2. CASE Answered(w, "refused")
    BY <1>2, <2>1, <2>2
  <2>3. ASSUME NEW pc \in {"ask", "dispatch"}, NEW escalated \in BOOLEAN,
               Set(w, [d EXCEPT !.pc = pc, !.tool = tool, !.escalated = escalated])
        PROVE  Pairing'
    <3>1. pc \in Calls
      BY <2>1
    <3>2. worker'[w].pc = pc /\ worker'[w].messages = d.messages /\ Others(w)
      BY <2>1, <2>3, <3>1, CallMoves DEF Others
    <3> QED BY <1>3, <2>1, <3>1, <3>2
  <2>4. \/ Answered(w, "refused")
        \/ \E escalated \in BOOLEAN :
             Set(w, [d EXCEPT !.pc = "ask", !.tool = tool, !.escalated = escalated])
        \/ Set(w, [d EXCEPT !.pc = "dispatch", !.tool = tool, !.escalated = FALSE])
    BY <1>5, CheckCases
  <2> QED BY <2>1, <2>2, <2>3, <2>4
<1>6. ASSUME Approve(w) PROVE Pairing'
  <2>1. d.pc \in Calls /\ "dispatch" \in Calls /\ UNCHANGED <<file, turns>>
    BY <1>6, ApproveMoves DEF Calls
  <2>2. worker'[w].pc = "dispatch" /\ worker'[w].messages = d.messages /\ Others(w)
    BY <1>6, <2>1, ApproveMoves, CallMoves DEF Others
  <2> QED BY <1>3, <2>1, <2>2
<1>7. ASSUME Refuse(w) \/ Exit(w) \/ Expire(w) PROVE Pairing'
  <2>1. /\ d.pc \in Calls
        /\ Answered(w, "refused") \/ Answered(w, "ran")
        /\ "refused" \in Results /\ "ran" \in Results /\ UNCHANGED <<file, turns>>
    BY <1>7 DEF Refuse, Exit, Expire, Waits, At, Calls, Results
  <2> QED BY <1>2, <2>1
<1>8. ASSUME Dispatch(w) PROVE Pairing'
  <2>1. /\ d.pc \in Calls /\ d.pc = "dispatch" /\ "running" \in Calls /\ "ran" \in Results
        /\ UNCHANGED <<file, turns>>
        /\ Set(w, [d EXCEPT !.pc = "running"]) \/ Answered(w, "ran")
    BY <1>8 DEF Dispatch, At, Calls, Results
  <2>2. CASE Set(w, [d EXCEPT !.pc = "running"])
    <3>1. worker'[w].pc = "running" /\ worker'[w].messages = d.messages /\ Others(w)
      BY <2>1, <2>2, RunMoves DEF Others
    <3> QED BY <1>3, <2>1, <3>1
  <2> QED BY <1>2, <2>1, <2>2
<1>9. ASSUME Remember(w) PROVE Pairing'
  <2>1. /\ Others(w) /\ d.pc = "remember" /\ worker'[w].pc = "append"
        /\ worker'[w].messages = d.messages /\ worker'[w].base = d.base /\ UNCHANGED file
    BY <1>9, RememberMoves DEF Others, Remember
  <2>2. d.messages[d.base + 1].kind = "prompt"
    BY <1>1, <2>1 DEF Good, Between, InTurn
  <2>3. ~Writing(d) /\ ~Writing(worker'[w]) /\ worker'[w].pc \notin Between
    BY <2>1, <2>2 DEF Writing, Between
  <2> QED BY <1>1, <2>1, <2>3, PairingOfTalk
<1> QED BY <1>4, <1>5, <1>6, <1>7, <1>8, <1>9

\* What follows in the log joins, too: results are written after their calls.
LEMMA LineJoins ==
  ASSUME NEW last, NEW m, NEW next, NEW line, IsLineOf(last, m), IsLineOf(line, next), Follows(m, next)
  PROVE  Joined(last, line)
BY DEF IsLineOf, Joined, Follows, Calling, Answers

\* A log with a line more.
LEMMA LinesJoin ==
  ASSUME Shape, AllJoined(file), NEW line \in Message \cup {Torn, Merged},
         file # <<>> => Joined(Last(file), line)
  PROVE  LET after == Appended(file, line) IN
         /\ AllJoined(after)
         /\ after # <<>> /\ Calling(Last(after)) => Last(after) = line
<1> DEFINE L == Message \cup {Torn, Merged}
           after == Appended(file, line)
<1>1. file \in Seq(L) /\ Len(file) \in Nat /\ after \in Seq(L) /\ Len(after) \in Nat
  BY AppendedIs, Elements DEF Shape
<1>2. ~Calling(Torn) /\ ~Calling(Merged) /\ Torn.kind = "torn"
  BY DEF Calling, Torn, Merged
<1>3. CASE file = <<>> \/ Last(file) # Torn
  <2>1. after = Append(file, line)
    BY <1>3, AppendedIs
  <2>2. AllJoined(Append(file, line)) /\ Last(Append(file, line)) = line
    BY <1>1, AppendJoins, Added DEF Last
  <2> QED BY <2>1, <2>2
<1>4. CASE file # <<>> /\ Last(file) = Torn /\ line = Torn
  <2>1. after = file
    BY <1>4, AppendedIs
  <2> HIDE DEF after
  <2> QED BY <1>4, <2>1 DEF after
<1>5. CASE file # <<>> /\ Last(file) = Torn /\ line # Torn
  <2>1. /\ Len(after) = Len(file) /\ after[Len(file)] = Merged /\ Len(file) > 0
        /\ \A i \in 1..Len(file) - 1 : after[i] = file[i]
    BY <1>1, <1>5, AppendedIs
  <2>2. file[Len(file)] = Torn
    BY <1>1, <1>5, <2>1 DEF Last
  <2> HIDE DEF after
  <2>3. AllJoined(after)
    <3> SUFFICES ASSUME NEW i \in 1..Len(file) - 1 PROVE Joined(after[i], after[i + 1])
      BY <2>1 DEF AllJoined
    <3>1. after[i] = file[i] /\ Joined(file[i], file[i + 1])
      BY <2>1 DEF AllJoined
    <3>2. CASE i = Len(file) - 1
      BY <1>1, <1>2, <2>1, <2>2, <3>1, <3>2 DEF Joined, Answers
    <3>3. CASE i < Len(file) - 1
      <4>1. i + 1 \in 1..Len(file) - 1
        BY <1>1, <3>3
      <4> QED BY <2>1, <3>1, <4>1
    <3> QED BY <1>1, <3>2, <3>3
  <2>4. ~Calling(Last(after))
    BY <1>1, <1>2, <2>1 DEF Last
  <2> QED BY <2>3, <2>4 DEF after
<1> QED BY <1>3, <1>4, <1>5

\* A worker writes its turn on where it left off, if nobody wrote in between.
LEMMA PairingAppend ==
  ASSUME Shape, Conversations, Writings, Alone, NEW w \in Workers, AppendMessage(w), ~mixed'
  PROVE  Pairing'
<1> DEFINE d == worker[w]
           m == d.messages[d.base + 1]
           line == [m EXCEPT !.usage = UsageFor(m, d.usages)]
<1>1. /\ d.pc = "append" /\ file' = Appended(file, line) /\ line \in Message /\ IsLineOf(line, m)
      /\ Others(w)
      /\ \/ /\ worker'[w].pc = "append" /\ worker'[w].turn = d.turn
            /\ worker'[w].messages = d.messages /\ worker'[w].base = d.base + 1
         \/ /\ worker'[w].pc \in Between
            /\ worker'[w].messages \in {<<>>, d.messages}
            /\ d.base + 1 = Len(d.messages)
  BY AppendMoves DEF Others, IsLineOf
<1> HIDE DEF line
<1>2. /\ d \in Doing /\ InTurn(d) /\ d.base + 1 \in 1..Len(d.messages) /\ m \in Message
      /\ d.base \in Nat /\ Len(d.messages) \in Nat
      /\ \A i \in 1..Len(d.messages) : d.messages[i] \in Message
  BY <1>1, NextMessage, Fields DEF Shape, At
<1>3. \A v \in Workers : v # w => ~Writing(worker[v])
  BY DEF AppendMessage, HalfWritten, At, Writing
<1>4. file # <<>> => Joined(Last(file), line)
  <2> SUFFICES ASSUME file # <<>>, Calling(Last(file)) PROVE Joined(Last(file), line)
    BY DEF Joined
  <2>1. Writing(d) /\ IsLineOf(Last(file), d.messages[d.base])
    BY <1>3 DEF Writings
  <2>2. Follows(d.messages[d.base], m)
    BY <1>2, <2>1 DEF Writing, InTurn
  <2> QED BY <1>1, <2>1, <2>2, LineJoins
<1>5. AllJoined(file') /\ (file' # <<>> /\ Calling(Last(file')) => Last(file') = line)
  BY <1>1, <1>4, LinesJoin DEF Writings
<1>6. ~Calling(d.messages[Len(d.messages)])
  <2>1. Phase(d, d.messages[Len(d.messages)])
    BY <1>2 DEF InTurn
  <2> QED BY <1>1, <2>1 DEF Phase, Calls
<1>7. Writings'
  <2> SUFFICES ASSUME file' # <<>>, Calling(Last(file'))
               PROVE  \E v \in Workers : /\ Writing(worker'[v])
                                         /\ IsLineOf(Last(file'), worker'[v].messages[worker'[v].base])
    BY <1>5 DEF Writings
  <2>1. Last(file') = line /\ Calling(m)
    BY <1>1, <1>5 DEF Calling, IsLineOf
  <2>2. d.base + 1 < Len(d.messages)
    BY <1>2, <1>6, <2>1
  <2>3. /\ worker'[w].pc = "append" /\ worker'[w].messages = d.messages
        /\ worker'[w].base = d.base + 1
    BY <1>1, <1>2, <2>2
  <2>4. Follows(m, d.messages[d.base + 1 + 1]) /\ d.messages[d.base + 1 + 1] \in Message
    <3>1. d.base + 1 \in d.base + 1..Len(d.messages) - 1 /\ d.base + 1 + 1 \in 1..Len(d.messages)
      BY <1>2, <2>2
    <3> QED BY <1>2, <3>1 DEF InTurn
  <2>5. d.messages[d.base + 1 + 1].kind # "prompt"
    BY <1>2, <2>4, Settles
  <2> QED BY <1>1, <2>1, <2>3, <2>5 DEF Writing
<1>8. Alone'
  BY <1>1, <1>3 DEF Alone, Others
<1>9. Conversations'
  <2>1. AllJoined(d.messages) /\ AllJoined(<<>>)
    BY DEF Conversations, AllJoined
  <2>2. Ends(d.messages) /\ Ends(<<>>)
    BY <1>6 DEF Ends, Last
  <2>3. AllJoined(worker'[w].messages) /\ (worker'[w].pc \in Between => Ends(worker'[w].messages))
    BY <1>1, <2>1, <2>2 DEF Between
  <2> QED BY <1>1, <2>3 DEF Conversations, Others
<1> QED BY <1>7, <1>8, <1>9 DEF Pairing

\* A death that is not in the middle of anybody's turn leaves the log as it was, or with a torn
\* line at its end.
LEMMA PairingDie ==
  ASSUME Shape, Conversations, Writings, Alone, NEW w \in Workers, Die(w) \/ Quit(w), ~mixed'
  PROVE  Pairing'
<1>1. /\ Others(w) /\ worker'[w] = Idle
  <2>1. Set(w, Idle) /\ UNCHANGED turns
    BY DEF Die, Quit
  <2> QED BY <2>1, StopMoves DEF Others
<1>2. /\ ~Writing(worker[w]) /\ ~Writing(worker'[w])
      /\ AllJoined(worker'[w].messages) /\ Ends(worker'[w].messages)
  <2>1. ~Writing(worker[w])
    BY DEF Die, Quit, HalfWritten, Writing, At
  <2> QED BY <1>1, <2>1, IdleIsGood DEF Writing, AllJoined, Ends
<1>3. CASE file' = file
  BY <1>1, <1>2, <1>3, PairingOfTalk
<1>4. CASE file' # file
  <2>1. file' = Appended(file, Torn) /\ \A v \in Workers : ~Writing(worker[v])
    BY <1>4 DEF Die, Quit, HalfWritten, Writing, At
  <2>2. file # <<>> => ~Calling(Last(file))
    BY <2>1 DEF Writings
  <2>3. AllJoined(file') /\ (file' # <<>> /\ Calling(Last(file')) => Last(file') = Torn)
    BY <2>1, <2>2, LinesJoin DEF Writings, Joined
  <2>4. Writings'
    BY <2>3 DEF Writings, Calling, Torn
  <2>5. Conversations'
    BY <1>1, <1>2 DEF Conversations, Others
  <2>6. Alone'
    BY <1>1, <1>2, <2>1 DEF Alone, Others
  <2> QED BY <2>4, <2>5, <2>6 DEF Pairing
<1> QED BY <1>3, <1>4

LEMMA PairingAtStart == Init => Pairing
<1> SUFFICES ASSUME Init PROVE Pairing
  OBVIOUS
<1>1. /\ \A w \in Workers : worker[w] = Idle
      /\ file = <<>>
  BY DEF Init
<1>2. AllJoined(<<>>) /\ Ends(<<>>)
  BY DEF AllJoined, Ends
<1>3. Conversations
  BY <1>1, <1>2, IdleIsGood DEF Conversations
<1>4. Writings
  BY <1>1, <1>2 DEF Writings
<1>5. Alone
  BY <1>1, IdleIsGood DEF Alone, Writing
<1> QED BY <1>3, <1>4, <1>5 DEF Pairing

\* Unless workers meddle in an append, calls and results stay together.
LEMMA PairingAlways == Spec => [](Shape /\ Pairing)
<1>1. Shape /\ Pairing /\ [Next]_vars => Pairing'
  <2> SUFFICES ASSUME Shape, Pairing, [Next]_vars, ~mixed' PROVE Pairing'
    BY DEF Pairing
  <2>1. ASSUME NEW w \in Workers, Start(w) \/ Proceed(w) \/ Exit(w) \/ Die(w) \/ Quit(w)
        PROVE  ~mixed
    BY <2>1 DEF Start, Proceed, Exit, Die, Quit, Complete, Check, Approve, Refuse, Dispatch, Expire,
       Remember, AppendMessage
  <2>2. ASSUME NEW w \in Workers, Start(w) \/ Proceed(w) \/ Exit(w) \/ Die(w) \/ Quit(w)
        PROVE  Pairing'
    <3>1. Conversations /\ Writings /\ Alone
      BY <2>1, <2>2 DEF Pairing
    <3>2. CASE Start(w)
      BY <3>1, <3>2, PairingStart
    <3>3. CASE AppendMessage(w)
      BY <3>1, <3>3, PairingAppend
    <3>4. CASE Die(w) \/ Quit(w)
      BY <3>1, <3>4, PairingDie
    <3>5. CASE \/ \E text \in BOOLEAN, calls \in 0..MaxCalls : Complete(w, text, calls)
               \/ \E tool \in Tools : \E flagged \in Flags(tool), contested \in Contests(tool) :
                    Check(w, tool, flagged, contested)
               \/ Approve(w) \/ Refuse(w) \/ Dispatch(w) \/ Exit(w) \/ Expire(w) \/ Remember(w)
      BY <3>1, <3>5, PairingTalks
    <3> QED BY <2>2, <3>2, <3>3, <3>4, <3>5 DEF Proceed
  <2>3. CASE UNCHANGED <<worker, file, mixed>>
    BY <2>3 DEF Pairing, Conversations, Writings, Alone
  <2>4. ASSUME NEW c \in commands, EndCommand(c) PROVE UNCHANGED <<worker, file, mixed>>
    BY <2>4 DEF EndCommand
  <2> QED BY <2>2, <2>3, <2>4 DEF Next, vars
<1> QED BY ShapeAlways, PairingAtStart, <1>1, PTL DEF Spec

\* A conversation without calls at its end is one that a provider takes.
LEMMA JoinedIsPaired ==
  ASSUME NEW S, NEW s \in Seq(S), AllJoined(s), Ends(s)
  PROVE  Paired(s)
<1>1. Len(s) \in Nat /\ DOMAIN s = 1..Len(s)
  BY Elements
<1>2. ASSUME NEW i \in 1..Len(s), Calling(s[i])
      PROVE  i < Len(s) /\ Answers(s[i], s[i + 1])
  <2>1. CASE i = Len(s)
    <3>1. s # <<>> /\ Last(s) = s[i]
      BY <1>1, <2>1 DEF Last
    <3> QED BY <1>2, <3>1 DEF Ends
  <2>2. CASE i # Len(s)
    <3> DEFINE n == Len(s)
    <3>0. n \in Nat /\ i \in 1..n /\ i # n
      BY <1>1, <1>2, <2>2
    <3> HIDE DEF n
    <3>1. i \in 1..n - 1 /\ i < n
      BY <3>0
    <3> USE DEF n
    <3>2. Joined(s[i], s[i + 1])
      BY <3>1 DEF AllJoined
    <3> QED BY <1>2, <3>1, <3>2 DEF Joined
  <2> QED BY <2>1, <2>2
<1> QED BY <1>1, <1>2 DEF Paired

\* A provider takes a conversation only if every tool call is answered at once.  The model is
\* never sent anything else, and the log never holds anything else than a turn half appended,
\* unless workers of the session meddle in an append or die in the middle of one.
THEOREM CallsAreAnswered == Spec => []PairedUnlessMixed
<1>1. ASSUME Shape, Pairing PROVE PairedUnlessMixed
  <2> SUFFICES ASSUME Conversations, Writings
               PROVE  /\ \A w \in Workers : At(w, "model") => Paired(worker[w].messages)
                      /\ \/ Paired(file)
                         \/ /\ Paired(Front(file))
                            /\ \E w \in Workers : HalfWritten(w) /\ worker[w].turn = Last(file).turn
    BY <1>1, Zenon DEF Pairing, PairedUnlessMixed
  <2>2. ASSUME NEW w \in Workers, At(w, "model") PROVE Paired(worker[w].messages)
    <3> DEFINE d == worker[w]
    <3>1. d \in Doing /\ InTurn(d) /\ d.pc = "model"
      BY <1>1, <2>2 DEF Shape, Good, At, Between
    <3>2. Phase(d, d.messages[Len(d.messages)]) /\ d.messages \in Seq(Message)
      BY <3>1, Fields DEF InTurn
    <3>3. Ends(d.messages)
      BY <3>1, <3>2 DEF Phase, Ends, Calling, Calls, Last
    <3> QED BY <3>2, <3>3, JoinedIsPaired DEF Conversations
  <2>3. file \in Seq(Message \cup {Torn, Merged})
    BY <1>1 DEF Shape
  <2>4. CASE Ends(file)
    BY <2>2, <2>3, <2>4, JoinedIsPaired DEF Writings
  <2>5. CASE ~Ends(file)
    <3>1. PICK w \in Workers :
            Writing(worker[w]) /\ IsLineOf(Last(file), worker[w].messages[worker[w].base])
      BY <2>5 DEF Ends, Writings
    <3>2. HalfWritten(w) /\ worker[w].turn = Last(file).turn
      <4>1. InTurn(worker[w])
        BY <1>1, <3>1 DEF Shape, Good, Writing, Between
      <4>2. worker[w].messages[worker[w].base].turn = worker[w].turn
        BY <3>1, <4>1 DEF InTurn, Writing
      <4> QED BY <3>1, <4>2 DEF HalfWritten, Writing, At, IsLineOf
    <3> DEFINE front == Front(file)
    <3>3. /\ Len(file) \in Nat /\ Len(file) > 0 /\ Calling(file[Len(file)])
          /\ front \in Seq(Message \cup {Torn, Merged}) /\ Len(front) = Len(file) - 1
          /\ \A i \in 1..Len(file) - 1 : front[i] = file[i]
      BY <2>3, <2>5, FrontIs DEF Ends, Last
    <3> HIDE DEF front
    <3>4. AllJoined(front)
      <4> SUFFICES ASSUME NEW i \in 1..Len(front) - 1 PROVE Joined(front[i], front[i + 1])
        BY DEF AllJoined
      <4>1. i \in 1..Len(file) - 1 /\ i + 1 \in 1..Len(file) - 1
        BY <3>3
      <4> QED BY <3>3, <4>1 DEF Writings, AllJoined
    <3>5. Ends(front)
      <4> SUFFICES ASSUME front # <<>> PROVE ~Calling(Last(front))
        BY DEF Ends
      <4>1. Len(front) \in 1..Len(file) - 1 /\ Last(front) = file[Len(file) - 1]
            /\ Len(file) - 1 + 1 = Len(file)
        BY <3>3 DEF Last
      <4>2. Joined(file[Len(file) - 1], file[Len(file)])
        BY <3>3, <4>1 DEF Writings, AllJoined
      <4> QED BY <3>3, <4>1, <4>2 DEF Joined, Calling, Answers
    <3>6. Paired(front)
      BY <3>3, <3>4, <3>5, JoinedIsPaired
    <3> QED BY <2>2, <3>2, <3>6 DEF front
  <2> QED BY <2>4, <2>5
<1> QED BY <1>1, PairingAlways, PTL

-----------------------------------------------------------------------------------
(* The lines of a turn.  They are picked one by one, so this takes an      *)
(* induction over the naturals.                                            *)

LEMMA LeastNatural ==
  ASSUME NEW T \in SUBSET Nat, T # {}
  PROVE  \E x \in T : \A y \in T : x <= y
<1>1. PICK x \in T : \A y \in T : ~(<<y, x>> \in OpToRel(<, Nat))
  BY WFMin, NatLessThanWellFounded
<1>2. \A y \in T : ~(y < x)
  BY <1>1 DEF OpToRel
<1> QED
  BY <1>2

LEMMA Induction ==
  ASSUME NEW S, 0 \in S, \A n \in Nat : n \in S => n + 1 \in S
  PROVE  \A n \in Nat : n \in S
<1> SUFFICES ASSUME Nat \ S # {}
             PROVE  FALSE
  OBVIOUS
<1>1. PICK x \in Nat \ S : \A y \in Nat \ S : x <= y
  BY LeastNatural
<1>2. x # 0 /\ x - 1 \in Nat /\ x - 1 \in S
  BY <1>1
<1> QED
  BY <1>1, <1>2

\* A line of the turn, and what it adds.
IsOf(line, t) == line.kind # "torn" /\ line.turn = t

NextKept(g, i, lines, t) ==
  IF i = 0 THEN <<>> ELSE IF IsOf(lines[i], t) THEN Append(g[i - 1], lines[i]) ELSE g[i - 1]

Kept(g, n, lines, t) == g = [i \in 0..n |-> NextKept(g, i, lines, t)]

LEMMA KeptExists ==
  ASSUME NEW lines, NEW t
  PROVE  \A n \in Nat : \E g : Kept(g, n, lines, t)
<1> DEFINE S == {n \in Nat : \E g : Kept(g, n, lines, t)}
<1>1. 0 \in S
  <2> DEFINE g == [i \in 0..0 |-> <<>>]
  <2>1. \A i \in 0..0 : NextKept(g, i, lines, t) = <<>>
    BY DEF NextKept
  <2>2. Kept(g, 0, lines, t)
    BY <2>1 DEF Kept
  <2> QED
    BY <2>2
<1>2. ASSUME NEW n \in Nat, n \in S
      PROVE  n + 1 \in S
  <2>1. PICK g : Kept(g, n, lines, t)
    BY <1>2
  <2> DEFINE last == NextKept(g, n + 1, lines, t)
             h == [i \in 0..n + 1 |-> IF i = n + 1 THEN last ELSE g[i]]
  <2>2. \A i \in 0..n : g[i] = NextKept(g, i, lines, t)
    BY <2>1 DEF Kept
  <2>3. ASSUME NEW i \in 0..n + 1
        PROVE  h[i] = NextKept(h, i, lines, t)
    <3>1. i # 0 => i - 1 \in 0..n + 1 /\ i - 1 # n + 1 /\ h[i - 1] = g[i - 1]
      OBVIOUS
    <3>2. NextKept(h, i, lines, t) = NextKept(g, i, lines, t)
      BY <3>1 DEF NextKept
    <3>3. CASE i = n + 1
      <4>1. h[i] = last
        BY <3>3
      <4> QED
        BY <3>2, <3>3, <4>1
    <3>4. CASE i # n + 1
      <4>1. i \in 0..n /\ h[i] = g[i]
        BY <3>4
      <4> QED
        BY <2>2, <3>2, <4>1
    <3> QED
      BY <3>3, <3>4
  <2>4. h = [i \in 0..n + 1 |-> h[i]]
    OBVIOUS
  <2> HIDE DEF h
  <2>5. Kept(h, n + 1, lines, t)
    BY <2>3, <2>4 DEF Kept
  <2> QED
    BY <2>5
<1> HIDE DEF S
<1>3. \A n \in Nat : n \in S
  BY <1>1, <1>2, Induction
<1> QED
  BY <1>3 DEF S

\* What is kept of the first lines depends on them alone.
LEMMA KeptAgree ==
  ASSUME NEW a, NEW b, NEW t, NEW m \in Nat, NEW n \in Nat, m <= n,
         \A i \in 1..m : a[i] = b[i],
         NEW g, Kept(g, m, a, t), NEW h, Kept(h, n, b, t)
  PROVE  g[m] = h[m]
<1> DEFINE S == {k \in Nat : k <= m => g[k] = h[k]}
<1>1. /\ \A i \in 0..m : g[i] = NextKept(g, i, a, t)
      /\ \A i \in 0..n : h[i] = NextKept(h, i, b, t)
  BY DEF Kept
<1>2. 0 \in S
  <2>1. g[0] = <<>> /\ h[0] = <<>>
    BY <1>1 DEF NextKept
  <2> QED
    BY <2>1
<1>3. ASSUME NEW k \in Nat, k \in S
      PROVE  k + 1 \in S
  <2> SUFFICES ASSUME k + 1 <= m
               PROVE  g[k + 1] = h[k + 1]
    OBVIOUS
  <2> DEFINE j == k + 1
  <2>1. /\ j \in 0..m
        /\ j \in 0..n
        /\ j \in 1..m
        /\ j # 0
        /\ j - 1 = k
    OBVIOUS
  <2>2. g[k] = h[k]
    BY <1>3
  <2> HIDE DEF j
  <2>3. NextKept(g, j, a, t) = NextKept(h, j, b, t)
    BY <2>1, <2>2 DEF NextKept
  <2>4. g[j] = h[j]
    BY <1>1, <2>1, <2>3
  <2> QED
    BY <2>4 DEF j
<1> HIDE DEF S
<1>4. \A k \in Nat : k \in S
  BY <1>2, <1>3, Induction
<1> QED
  BY <1>4 DEF S

\* The lines of a turn are those of the first lines, and the last if it is one.
LEMMA LinesOfAppended ==
  ASSUME NEW L, NEW lines \in Seq(L), NEW line \in L, NEW t
  PROVE  LinesOf(Append(lines, line), t) =
           IF IsOf(line, t) THEN Append(LinesOf(lines, t), line) ELSE LinesOf(lines, t)
<1> DEFINE n == Len(lines)
           after == Append(lines, line)
           g == CHOOSE g : Kept(g, n, lines, t)
           h == CHOOSE h : Kept(h, n + 1, after, t)
<1>1. /\ n \in Nat
      /\ Len(after) = n + 1
      /\ after[n + 1] = line
      /\ \A i \in 1..n : lines[i] = after[i]
  BY Added
<1>2. LinesOf(lines, t) = g[n] /\ LinesOf(after, t) = h[n + 1]
  <2>1. LinesOf(lines, t) = g[n]
    BY DEF LinesOf, Kept, NextKept, IsOf
  <2>2. LinesOf(after, t) = (CHOOSE f : Kept(f, Len(after), after, t))[Len(after)]
    BY DEF LinesOf, Kept, NextKept, IsOf
  <2> QED
    BY <1>1, <2>1, <2>2
<1>3. Kept(g, n, lines, t) /\ Kept(h, n + 1, after, t)
  <2>1. n + 1 \in Nat
    BY <1>1
  <2>2. (\E f : Kept(f, n, lines, t)) /\ (\E f : Kept(f, n + 1, after, t))
    BY <1>1, <2>1, KeptExists
  <2> QED
    BY <2>2
<1> HIDE DEF n, after, g, h
<1>4. g[n] = h[n]
  <2>1. n + 1 \in Nat /\ n <= n + 1
    BY <1>1
  <2> QED
    BY <1>1, <1>3, <2>1, KeptAgree
<1>5. h[n + 1] = NextKept(h, n + 1, after, t)
  <2>1. n + 1 \in 0..n + 1
    BY <1>1
  <2>2. \A i \in 0..n + 1 : h[i] = NextKept(h, i, after, t)
    BY <1>3 DEF Kept
  <2> QED
    BY <2>1, <2>2
<1>6. n + 1 # 0 /\ (n + 1) - 1 = n
  BY <1>1
<1>7. h[n + 1] = IF IsOf(line, t) THEN Append(h[n], line) ELSE h[n]
  BY <1>1, <1>5, <1>6 DEF NextKept
<1> QED
  BY <1>2, <1>4, <1>7 DEF after

\* They are lines, as many as are kept.
LEMMA LinesOfIsSeq ==
  ASSUME NEW L, NEW lines \in Seq(L), NEW t
  PROVE  /\ LinesOf(lines, t) \in Seq(L)
         /\ lines = <<>> => LinesOf(lines, t) = <<>>
<1> DEFINE n == Len(lines)
           g == CHOOSE g : Kept(g, n, lines, t)
           S == {k \in Nat : k <= n => g[k] \in Seq(L)}
<1>1. /\ n \in Nat
      /\ \A i \in 1..n : lines[i] \in L
      /\ lines = <<>> => n = 0
  BY Elements
<1>2. LinesOf(lines, t) = g[n]
  BY DEF LinesOf, Kept, NextKept, IsOf
<1> HIDE DEF n
<1>3. Kept(g, n, lines, t)
  BY <1>1, KeptExists
<1> HIDE DEF g
<1>4. \A i \in 0..n : g[i] = NextKept(g, i, lines, t)
  BY <1>3 DEF Kept
<1>5. 0 \in 0..n
  BY <1>1
<1>6. g[0] = <<>>
  BY <1>4, <1>5 DEF NextKept
<1>7. 0 \in S
  <2>1. <<>> \in Seq(L)
    OBVIOUS
  <2>2. g[0] \in Seq(L)
    BY <1>6, <2>1
  <2> QED
    BY <2>2
<1>8. ASSUME NEW k \in Nat, k \in S
      PROVE  k + 1 \in S
  <2> SUFFICES ASSUME k + 1 <= n
               PROVE  g[k + 1] \in Seq(L)
    OBVIOUS
  <2> DEFINE j == k + 1
  <2>1. /\ j \in 0..n
        /\ j \in 1..n
        /\ j # 0
        /\ j - 1 = k
    BY <1>1
  <2>2. g[k] \in Seq(L)
    BY <1>1, <1>8
  <2> HIDE DEF j
  <2>3. g[j] = IF IsOf(lines[j], t) THEN Append(g[k], lines[j]) ELSE g[k]
    BY <1>4, <2>1 DEF NextKept
  <2>4. lines[j] \in L
    BY <1>1, <2>1
  <2>5. g[j] \in Seq(L)
    BY <2>2, <2>3, <2>4
  <2> QED
    BY <2>5 DEF j
<1> HIDE DEF S
<1>9. \A k \in Nat : k \in S
  BY <1>7, <1>8, Induction
<1>10. n \in S
  BY <1>1, <1>9
<1>11. g[n] \in Seq(L)
  BY <1>1, <1>10 DEF S
<1> QED
  BY <1>1, <1>2, <1>6, <1>11

-----------------------------------------------------------------------------------
(* What is on record of a turn, and what is remembered of it.              *)

IsCopyOf(line, m) == IsLineOf(line, m) /\ line.text = m.text

\* The conversation from position p on is this turn, prompt first; what was said before is
\* of earlier turns.
TurnFrom(d, p) ==
  /\ p < Len(d.messages)
  /\ d.messages[p + 1].kind = "prompt"
  /\ \A i \in 1..p : d.messages[i].turn < d.turn
  /\ \A i \in p + 1..Len(d.messages) : d.messages[i].turn = d.turn
  /\ \A i \in p + 1..Len(d.messages) - 1 : Follows(d.messages[i], d.messages[i + 1])

Copies(lines, messages, p, n) ==
  /\ Len(lines) = n
  /\ \A i \in 1..n : IsCopyOf(lines[i], messages[p + i])

\* The log has of a turn what its worker has written, in order and once.
OnRecord(d, lines) ==
  \E p \in 0..d.base : TurnFrom(d, p) /\ Copies(lines, d.messages, p, d.base - p)

\* A turn ends with a response without calls, or at max_iterations.
Ended(d) ==
  d.pc \in {"remember", "append"} =>
    d.messages[Len(d.messages)].kind = "reply" \/ d.iter = MaxIterations

TextsOf(told, t) == {m.text : m \in {m \in told : m.turn = t}}

\* Nothing is remembered of a turn before its end.
Told(d, texts) ==
  texts = IF d.pc = "append" /\ Said(d.messages) # {} THEN {LastText(d.messages)} ELSE {}

\* The turn was neither lost nor is it under way.
Over(t) ==
  /\ t \notin lost
  /\ \A w \in Workers : worker[w].pc \notin Between => worker[w].turn # t

Recalled(t, lines, texts) ==
  IF Said(lines) # {} THEN texts = {LastText(lines)}
  ELSE /\ Cardinality(texts) <= 1
       /\ \A text \in texts : text[1] < t

\* Nothing is of a turn that has not begun.
Begun ==
  /\ \A w \in Workers : \A i \in DOMAIN worker[w].messages : worker[w].messages[i].turn <= turns
  /\ \A i \in DOMAIN file : file[i].turn <= turns
  /\ \A m \in memory : m.turn <= turns
  /\ \A t \in Nat : t > turns => LinesOf(file, t) = <<>>

UnderWay ==
  \A w \in Workers : worker[w].pc \notin Between =>
    /\ OnRecord(worker[w], LinesOf(file, worker[w].turn))
    /\ Ended(worker[w])
    /\ Told(worker[w], TextsOf(memory, worker[w].turn))

Done ==
  \A t \in 1..turns : Over(t) =>
    Whole(LinesOf(file, t)) /\ Recalled(t, LinesOf(file, t), TextsOf(memory, t))

\* A log with a torn line is never loadable again.
Recording == Loadable => Begun /\ UnderWay /\ Done

-----------------------------------------------------------------------------------
(* Facts about a whole turn.                                               *)

LEMMA AfterReply ==
  ASSUME NEW m, NEW next, Follows(m, next), m.kind = "reply"
  PROVE  Answers(m, next) /\ next.kind = "results" /\ next.iter = m.iter
BY DEF Follows, Answers, Calling

LEMMA AfterOther ==
  ASSUME NEW m, NEW next, Follows(m, next), m.kind # "reply"
  PROVE  next.kind = "reply" /\ next.iter = m.iter + 1
BY DEF Follows, Calling

\* Responses and what is not one alternate, and the responses are counted.
LEMMA TurnAlternates ==
  ASSUME NEW d \in Doing, Good(d), NEW p \in Nat, TurnFrom(d, p)
  PROVE  \A j \in Nat :
           /\ p + (2 * j + 1) <= Len(d.messages) =>
                /\ d.messages[p + (2 * j + 1)].kind # "reply"
                /\ d.messages[p + (2 * j + 1)].iter = j
           /\ p + (2 * j + 2) <= Len(d.messages) =>
                /\ d.messages[p + (2 * j + 2)].kind = "reply"
                /\ d.messages[p + (2 * j + 2)].iter = j + 1
<1> DEFINE m == d.messages
           n == Len(d.messages)
           Odd(j) == p + (2 * j + 1) <= n =>
                       /\ m[p + (2 * j + 1)].kind # "reply"
                       /\ m[p + (2 * j + 1)].iter = j
           Even(j) == p + (2 * j + 2) <= n =>
                       /\ m[p + (2 * j + 2)].kind = "reply"
                       /\ m[p + (2 * j + 2)].iter = j + 1
           S == {j \in Nat : Odd(j) /\ Even(j)}
<1>1. /\ n \in Nat
      /\ \A i \in p + 1..n - 1 : Follows(m[i], m[i + 1])
  BY Fields DEF TurnFrom
<1>2. m[p + 1].kind = "prompt" /\ m[p + 1].iter = 0 /\ p + 1 \in 1..n
  <2>1. m[p + 1].kind = "prompt" /\ p + 1 \in 1..n
    BY <1>1 DEF TurnFrom
  <2>2. Numbered(m[p + 1])
    BY <2>1, Fields DEF Good
  <2> QED
    BY <2>1, <2>2 DEF Numbered
<1> HIDE DEF m, n
<1>3. ASSUME NEW j \in Nat, Odd(j)
      PROVE  Even(j)
  <2> SUFFICES ASSUME p + (2 * j + 2) <= n
               PROVE  /\ m[p + (2 * j + 2)].kind = "reply"
                      /\ m[p + (2 * j + 2)].iter = j + 1
    OBVIOUS
  <2> DEFINE i == p + (2 * j + 1)
  <2>1. i \in p + 1..n - 1 /\ i <= n /\ i + 1 = p + (2 * j + 2)
    BY <1>1
  <2>2. m[i].kind # "reply" /\ m[i].iter = j
    BY <1>3, <2>1
  <2> HIDE DEF i
  <2>3. Follows(m[i], m[i + 1])
    BY <1>1, <2>1
  <2>4. m[i + 1].kind = "reply" /\ m[i + 1].iter = j + 1
    BY <2>2, <2>3, AfterOther
  <2> QED
    BY <2>1, <2>4
<1>4. ASSUME NEW j \in Nat, Even(j)
      PROVE  Odd(j + 1)
  <2> SUFFICES ASSUME p + (2 * (j + 1) + 1) <= n
               PROVE  /\ m[p + (2 * (j + 1) + 1)].kind # "reply"
                      /\ m[p + (2 * (j + 1) + 1)].iter = j + 1
    OBVIOUS
  <2> DEFINE i == p + (2 * j + 2)
  <2>1. i \in p + 1..n - 1 /\ i <= n /\ i + 1 = p + (2 * (j + 1) + 1)
    BY <1>1
  <2>2. m[i].kind = "reply" /\ m[i].iter = j + 1
    BY <1>4, <2>1
  <2> HIDE DEF i
  <2>3. Follows(m[i], m[i + 1])
    BY <1>1, <2>1
  <2>4. m[i + 1].kind = "results" /\ m[i + 1].iter = j + 1
    BY <2>2, <2>3, AfterReply
  <2> QED
    BY <2>1, <2>4
<1>5. Odd(0)
  <2>1. 0 \in Nat /\ p + (2 * 0 + 1) = p + 1
    OBVIOUS
  <2> QED
    BY <1>2, <2>1
<1> HIDE DEF Odd, Even
<1>6. 0 \in S
  <2>1. 0 \in Nat /\ Even(0)
    BY <1>3, <1>5
  <2> QED
    BY <1>5, <2>1
<1>7. ASSUME NEW j \in Nat, j \in S
      PROVE  j + 1 \in S
  <2>1. j + 1 \in Nat /\ Odd(j + 1)
    BY <1>4, <1>7
  <2> QED
    BY <1>3, <2>1
<1> HIDE DEF S
<1>8. \A j \in Nat : j \in S
  BY <1>6, <1>7, Induction
<1>9. \A j \in Nat : Odd(j) /\ Even(j)
  BY <1>8 DEF S
<1> QED
  BY <1>9 DEF Odd, Even, m, n

\* A copy of a turn that has ended is whole.
LEMMA CopiesAreWhole ==
  ASSUME NEW d \in Doing, Good(d), d.pc = "append", Ended(d), NEW p \in Nat, TurnFrom(d, p),
         NEW L, NEW lines \in Seq(L), Copies(lines, d.messages, p, Len(d.messages) - p)
  PROVE  Whole(lines)
<1> DEFINE m == d.messages
           n == Len(d.messages) - p
<1>1. /\ Len(d.messages) \in Nat
      /\ n \in Nat
      /\ n >= 1
      /\ p + n = Len(d.messages)
      /\ \A i \in p + 1..Len(d.messages) - 1 : Follows(m[i], m[i + 1])
      /\ \A i \in 1..Len(d.messages) : m[i] \in Message
      /\ m[p + 1].kind = "prompt"
  BY Fields DEF TurnFrom
<1>2. Len(lines) = n /\ \A i \in 1..n : IsCopyOf(lines[i], m[p + i])
  BY DEF Copies
<1>3. m[Len(d.messages)].iter = d.iter /\ ~Calling(m[Len(d.messages)])
  <2>1. InTurn(d)
    BY DEF Good, Between
  <2>2. Phase(d, m[Len(d.messages)])
    BY <2>1 DEF InTurn
  <2> QED
    BY <2>1, <2>2 DEF InTurn, Phase, Calls
<1>4. m[Len(d.messages)].kind = "reply" \/ d.iter = MaxIterations
  BY DEF Ended
<1>5. \A j \in Nat :
        /\ p + (2 * j + 1) <= Len(d.messages) =>
             m[p + (2 * j + 1)].kind # "reply" /\ m[p + (2 * j + 1)].iter = j
        /\ p + (2 * j + 2) <= Len(d.messages) =>
             m[p + (2 * j + 2)].kind = "reply" /\ m[p + (2 * j + 2)].iter = j + 1
  BY TurnAlternates
<1> HIDE DEF m, n
<1>6. lines # <<>> /\ Head(lines).kind = "prompt"
  <2>1. Len(lines) >= 1 /\ 1 \in 1..n
    BY <1>1, <1>2
  <2>2. lines[1].kind = "prompt"
    BY <1>1, <1>2, <2>1 DEF IsCopyOf, IsLineOf
  <2>3. lines # <<>> /\ Head(lines) = lines[1]
    BY <2>1
  <2> QED
    BY <2>2, <2>3
<1>7. ASSUME NEW i \in 2..Len(lines)
      PROVE  IF i % 2 = 0 THEN lines[i].kind = "reply" /\ lines[i].iter = i \div 2
                          ELSE Answers(lines[i - 1], lines[i])
  <2>1. /\ i \in 1..n
        /\ i - 1 \in 1..n
        /\ i \in Nat
        /\ p + i <= Len(d.messages)
    BY <1>1, <1>2
  <2>2. IsCopyOf(lines[i], m[p + i]) /\ IsCopyOf(lines[i - 1], m[p + (i - 1)])
    BY <1>2, <2>1
  <2>3. CASE i % 2 = 0
    <3>1. PICK j \in Nat : i = 2 * j + 2
      <4>1. (i \div 2) - 1 \in Nat /\ i = 2 * ((i \div 2) - 1) + 2
        BY <2>1, <2>3
      <4> QED
        BY <4>1
    <3>2. i \div 2 = j + 1
      BY <3>1
    <3>3. m[p + i].kind = "reply" /\ m[p + i].iter = j + 1
      BY <1>5, <2>1, <3>1
    <3> QED
      BY <2>2, <2>3, <3>2, <3>3 DEF IsCopyOf, IsLineOf
  <2>4. CASE i % 2 # 0
    <3>1. PICK j \in Nat : i - 1 = 2 * j + 2
      <4>1. (i \div 2) - 1 \in Nat /\ i - 1 = 2 * ((i \div 2) - 1) + 2
        BY <2>1, <2>4
      <4> QED
        BY <4>1
    <3>2. /\ p + (i - 1) \in p + 1..Len(d.messages) - 1
          /\ (p + (i - 1)) + 1 = p + i
          /\ p + (2 * j + 2) = p + (i - 1)
          /\ p + (2 * j + 2) <= Len(d.messages)
      <4> DEFINE k == Len(d.messages)
      <4>1. k \in Nat /\ p + i <= k /\ i \in Nat /\ i - 1 = 2 * j + 2
        BY <1>1, <2>1, <3>1
      <4> HIDE DEF k
      <4>2. /\ p + (i - 1) \in p + 1..k - 1
            /\ (p + (i - 1)) + 1 = p + i
            /\ p + (2 * j + 2) = p + (i - 1)
            /\ p + (2 * j + 2) <= k
        BY <4>1
      <4> QED
        BY <4>2 DEF k
    <3>3. m[p + (i - 1)].kind = "reply"
      <4>1. m[p + (2 * j + 2)].kind = "reply"
        BY <1>5, <3>2
      <4> QED
        BY <3>2, <4>1
    <3>4. Answers(m[p + (i - 1)], m[p + i])
      BY <1>1, <3>2, <3>3, AfterReply
    <3> QED
      BY <2>2, <2>4, <3>4 DEF IsCopyOf, IsLineOf, Answers
  <2> QED
    BY <2>3, <2>4
<1>8. \/ Last(lines).kind = "reply" /\ Last(lines).calls = 0
      \/ Last(lines).kind # "reply" /\ Last(lines).iter = MaxIterations
  <2>1. n \in 1..n /\ Last(lines) = lines[n]
    BY <1>1, <1>2 DEF Last
  <2>2. IsCopyOf(lines[n], m[Len(d.messages)])
    BY <1>1, <1>2, <2>1
  <2>3. m[Len(d.messages)].kind = "reply" => m[Len(d.messages)].calls = 0
    <3>1. m[Len(d.messages)] \in Message
      BY <1>1
    <3>2. m[Len(d.messages)].calls \in Nat
      BY <3>1, MessageFields
    <3> QED
      BY <1>3, <3>2 DEF Calling
  <2> QED
    BY <1>3, <1>4, <2>1, <2>2, <2>3 DEF IsCopyOf, IsLineOf
<1> QED
  BY <1>6, <1>7, <1>8 DEF Whole

\* The largest member is the one that no other exceeds.
LEMMA MaxIs ==
  ASSUME NEW S, NEW n \in Nat, S \subseteq 0..n, NEW x \in S, \A y \in S : y <= x
  PROVE  Max(S) = x
<1>1. PICK k \in S : k = Max(S) /\ \A y \in S : k >= y
  BY MaxIsMember
<1>2. k <= x /\ k >= x /\ k \in Nat /\ x \in Nat
  BY <1>1
<1>3. k = x
  BY <1>2
<1> QED
  BY <1>1, <1>3

\* The responses with a text: the last of them is what LastText names.
LEMMA LastTextIs ==
  ASSUME NEW s, NEW n \in Nat, DOMAIN s = 1..n, NEW k \in Said(s), \A i \in Said(s) : i <= k
  PROVE  LastText(s) = <<s[k].turn, s[k].iter>>
<1>1. Said(s) \subseteq 0..n /\ Said(s) # {}
  BY DEF Said
<1>2. Max(Said(s)) = k
  BY <1>1, MaxIs
<1> QED
  BY <1>1, <1>2 DEF LastText

\* There is a last one.
LEMMA LastSaid ==
  ASSUME NEW s, NEW n \in Nat, DOMAIN s = 1..n, Said(s) # {}
  PROVE  \E k \in Said(s) : \A i \in Said(s) : i <= k
<1>1. Said(s) \subseteq 0..n
  BY DEF Said
<1>2. Max(Said(s)) \in Said(s) /\ \A i \in Said(s) : Max(Said(s)) >= i
  BY <1>1, MaxIsMember
<1>3. \A i \in Said(s) : i <= Max(Said(s))
  BY <1>1, <1>2
<1> QED
  BY <1>2, <1>3

\* What the copy of a turn says last, the turn has said last; if it says nothing, what was
\* said last was said before.
LEMMA CopiesSaid ==
  ASSUME NEW d \in Doing, NEW p \in Nat, TurnFrom(d, p),
         NEW L, NEW lines \in Seq(L), Copies(lines, d.messages, p, Len(d.messages) - p)
  PROVE  /\ Said(lines) # {} => Said(d.messages) # {} /\ LastText(lines) = LastText(d.messages)
         /\ Said(lines) = {} /\ Said(d.messages) # {} => LastText(d.messages)[1] < d.turn
<1> DEFINE m == d.messages
           c == Len(d.messages)
           n == c - p
<1>1. /\ c \in Nat
      /\ n \in Nat
      /\ p + n = c
      /\ DOMAIN m = 1..c
      /\ DOMAIN lines = 1..n
      /\ \A i \in 1..p : m[i].turn < d.turn
      /\ \A i \in 1..n : IsCopyOf(lines[i], m[p + i])
  BY Fields, Elements DEF TurnFrom, Copies
<1> HIDE DEF m, c, n
<1>2. ASSUME NEW k \in Said(m), k > p
      PROVE  k - p \in Said(lines)
  <2>1. k \in 1..c /\ m[k].kind = "reply" /\ m[k].text
    BY <1>1 DEF Said
  <2>2. k - p \in 1..n /\ p + (k - p) = k
    BY <1>1, <1>2, <2>1
  <2>3. IsCopyOf(lines[k - p], m[k])
    BY <1>1, <2>2
  <2> QED
    BY <1>1, <2>1, <2>2, <2>3 DEF Said, IsCopyOf, IsLineOf
<1>3. ASSUME Said(lines) # {}
      PROVE  Said(m) # {} /\ LastText(lines) = LastText(m)
  <2>1. PICK j \in Said(lines) : \A i \in Said(lines) : i <= j
    BY <1>1, <1>3, LastSaid
  <2>2. /\ j \in 1..n
        /\ lines[j].kind = "reply"
        /\ lines[j].text
        /\ IsCopyOf(lines[j], m[p + j])
    BY <1>1, <2>1 DEF Said
  <2>3. p + j \in 1..c /\ p + j \in Nat
    BY <1>1, <2>2
  <2>4. p + j \in Said(m)
    BY <1>1, <2>2, <2>3 DEF Said, IsCopyOf, IsLineOf
  <2>5. ASSUME NEW i \in Said(m)
        PROVE  i <= p + j
    <3>1. i \in 1..c
      BY <1>1 DEF Said
    <3>2. CASE i > p
      <4>1. i - p <= j
        BY <1>2, <2>1, <3>2
      <4> QED
        BY <2>2, <3>1, <4>1
    <3> QED
      BY <2>2, <3>1, <3>2
  <2>6. LastText(m) = <<m[p + j].turn, m[p + j].iter>>
    BY <1>1, <2>4, <2>5, LastTextIs
  <2>7. LastText(lines) = <<lines[j].turn, lines[j].iter>>
    BY <1>1, <2>1, LastTextIs
  <2> QED
    BY <2>2, <2>4, <2>6, <2>7 DEF IsCopyOf, IsLineOf
<1>4. ASSUME Said(lines) = {}, Said(m) # {}
      PROVE  LastText(m)[1] < d.turn
  <2>1. PICK k \in Said(m) : \A i \in Said(m) : i <= k
    BY <1>1, <1>4, LastSaid
  <2>2. k \in 1..c /\ ~(k > p)
    BY <1>1, <1>2, <1>4 DEF Said
  <2>3. k \in 1..p
    BY <1>1, <2>2
  <2>4. LastText(m) = <<m[k].turn, m[k].iter>>
    BY <1>1, <2>1, LastTextIs
  <2> QED
    BY <1>1, <2>3, <2>4
<1> QED
  BY <1>3, <1>4 DEF m

\* A turn on record in full is recorded whole, and its answer is remembered.
LEMMA EndedIsDone ==
  ASSUME NEW d \in Doing, Good(d), d.pc = "append", Ended(d), NEW p \in Nat, TurnFrom(d, p),
         NEW L, NEW lines \in Seq(L), Copies(lines, d.messages, p, Len(d.messages) - p),
         NEW texts, Told(d, texts)
  PROVE  Whole(lines) /\ Recalled(d.turn, lines, texts)
<1>1. Whole(lines)
  BY CopiesAreWhole
<1>2. /\ Said(lines) # {} => Said(d.messages) # {} /\ LastText(lines) = LastText(d.messages)
      /\ Said(lines) = {} /\ Said(d.messages) # {} => LastText(d.messages)[1] < d.turn
  BY CopiesSaid
<1>3. texts = IF Said(d.messages) # {} THEN {LastText(d.messages)} ELSE {}
  BY DEF Told
<1>4. Cardinality({}) = 0 /\ Cardinality({LastText(d.messages)}) = 1
  BY FS_EmptySet, FS_Singleton
<1>5. Cardinality(texts) <= 1
  BY <1>3, <1>4
<1>6. ASSUME Said(lines) = {}, NEW text \in texts
      PROVE  text[1] < d.turn
  BY <1>2, <1>3, <1>6
<1>7. Said(lines) # {} => texts = {LastText(lines)}
  BY <1>2, <1>3
<1>8. Recalled(d.turn, lines, texts)
  BY <1>5, <1>6, <1>7 DEF Recalled
<1> QED
  BY <1>1, <1>8

\* A line that leaves the log loadable is the last one of its turn.
LEMMA LinesGrow ==
  ASSUME Shape, NEW line \in Message \cup {Torn, Merged}, file' = Appended(file, line), Loadable'
  PROVE  /\ Loadable
         /\ line.kind # "torn"
         /\ file' = Append(file, line)
         /\ \A t : LinesOf(file', t) =
              IF line.turn = t THEN Append(LinesOf(file, t), line) ELSE LinesOf(file, t)
<1> DEFINE L == Message \cup {Torn, Merged}
<1>1. /\ file \in Seq(L)
      /\ Len(file) \in Nat
      /\ DOMAIN file = 1..Len(file)
  BY Elements DEF Shape
<1>2. Torn.kind = "torn" /\ Merged.kind = "torn"
  BY DEF Torn, Merged
<1>3. file = <<>> \/ Last(file) # Torn
  <2> SUFFICES ASSUME file # <<>>, Last(file) = Torn
               PROVE  FALSE
    OBVIOUS
  <2>1. file' \in Seq(L) /\ Len(file') = Len(file) /\ file'[Len(file)].kind = "torn"
    <3>1. CASE line = Torn
      <4>1. file' = file
        BY <3>1, AppendedIs
      <4>2. file[Len(file)] = Torn
        BY DEF Last
      <4> QED
        BY <1>1, <1>2, <4>1, <4>2
    <3>2. CASE line # Torn
      BY <1>2, <3>2, AppendedIs
    <3> QED
      BY <3>1, <3>2
  <2>2. Len(file) \in DOMAIN file'
    <3>1. DOMAIN file' = 1..Len(file')
      BY <2>1, Elements
    <3> QED
      BY <1>1, <2>1, <3>1
  <2> QED
    BY <2>1, <2>2 DEF Loadable
<1>4. file' = Append(file, line)
  BY <1>3, AppendedIs
<1>5. /\ DOMAIN file' = 1..Len(file) + 1
      /\ file'[Len(file) + 1] = line
      /\ \A i \in 1..Len(file) : file'[i] = file[i]
  BY <1>1, <1>4, Added
<1>6. line.kind # "torn" /\ Loadable
  <2>1. Len(file) + 1 \in DOMAIN file' /\ \A i \in 1..Len(file) : i \in DOMAIN file'
    BY <1>1, <1>5
  <2> QED
    BY <1>1, <1>5, <2>1 DEF Loadable
<1>7. ASSUME NEW t
      PROVE  LinesOf(file', t) =
               IF line.turn = t THEN Append(LinesOf(file, t), line) ELSE LinesOf(file, t)
  <2>1. IsOf(line, t) <=> line.turn = t
    BY <1>6 DEF IsOf
  <2>2. LinesOf(Append(file, line), t) =
          IF IsOf(line, t) THEN Append(LinesOf(file, t), line) ELSE LinesOf(file, t)
    BY <1>1, LinesOfAppended
  <2> QED
    BY <1>4, <2>1, <2>2
<1> QED
  BY <1>4, <1>6, <1>7

\* A turn goes on with what follows in it.
LEMMA TurnGrows ==
  ASSUME NEW d \in Doing, NEW p \in Nat, TurnFrom(d, p), NEW m \in Message, m.turn = d.turn,
         Follows(d.messages[Len(d.messages)], m),
         NEW n \in Doing, n.turn = d.turn, n.messages = Append(d.messages, m)
  PROVE  TurnFrom(n, p)
<1> DEFINE c == Len(d.messages)
<1>1. /\ c \in Nat
      /\ Len(n.messages) = c + 1
      /\ n.messages[c + 1] = m
      /\ \A i \in 1..c : n.messages[i] = d.messages[i]
      /\ p < c
  BY Fields, Added DEF TurnFrom
<1>2. Follows(d.messages[c], m)
  OBVIOUS
<1>3. /\ d.messages[p + 1].kind = "prompt"
      /\ \A i \in 1..p : d.messages[i].turn < d.turn
      /\ \A i \in p + 1..c : d.messages[i].turn = d.turn
      /\ \A i \in p + 1..c - 1 : Follows(d.messages[i], d.messages[i + 1])
  BY DEF TurnFrom
<1> HIDE DEF c
<1>4. /\ p < c + 1
      /\ n.messages[p + 1].kind = "prompt"
      /\ \A i \in 1..p : n.messages[i].turn < n.turn
  BY <1>1, <1>3
<1>5. \A i \in p + 1..c + 1 : n.messages[i].turn = n.turn
  <2> TAKE i \in p + 1..c + 1
  <2>1. CASE i = c + 1
    BY <1>1, <2>1
  <2>2. CASE i # c + 1
    <3>1. i \in 1..c /\ i \in p + 1..c
      BY <1>1, <2>2
    <3> QED
      BY <1>1, <1>3, <3>1
  <2> QED
    BY <2>1, <2>2
<1>6. \A i \in p + 1..c : Follows(n.messages[i], n.messages[i + 1])
  <2> TAKE i \in p + 1..c
  <2>1. CASE i = c
    BY <1>1, <1>2, <2>1
  <2>2. CASE i # c
    <3>1. i \in 1..c /\ i + 1 \in 1..c /\ i \in p + 1..c - 1
      BY <1>1, <2>2
    <3> QED
      BY <1>1, <1>3, <3>1
  <2> QED
    BY <2>1, <2>2
<1>7. (c + 1) - 1 = c
  BY <1>1
<1> QED
  BY <1>1, <1>4, <1>5, <1>6, <1>7 DEF TurnFrom

\* What is on record of a turn stays on record while the turn goes on.
LEMMA RecordStays ==
  ASSUME NEW d \in Doing, d.base < Len(d.messages), NEW lines, OnRecord(d, lines),
         NEW n \in Doing, n.turn = d.turn, n.base = d.base,
         \/ n.messages = d.messages
         \/ \E m \in Message : /\ n.messages = Append(d.messages, m)
                               /\ m.turn = d.turn
                               /\ Follows(d.messages[Len(d.messages)], m)
  PROVE  OnRecord(n, lines)
<1>1. PICK p \in 0..d.base : TurnFrom(d, p) /\ Copies(lines, d.messages, p, d.base - p)
  BY DEF OnRecord
<1>2. p \in Nat /\ d.base \in Nat /\ Len(d.messages) \in Nat
  BY Fields
<1>3. CASE n.messages = d.messages
  <2>1. TurnFrom(n, p)
    BY <1>1, <1>3 DEF TurnFrom
  <2> QED
    BY <1>1, <1>3, <2>1 DEF OnRecord
<1>4. ASSUME NEW m \in Message, n.messages = Append(d.messages, m), m.turn = d.turn,
             Follows(d.messages[Len(d.messages)], m)
      PROVE  OnRecord(n, lines)
  <2>1. TurnFrom(n, p)
    BY <1>1, <1>2, <1>4, TurnGrows
  <2>2. \A i \in 1..Len(d.messages) : n.messages[i] = d.messages[i]
    BY <1>4, Fields, Added
  <2>3. \A i \in 1..d.base - p : n.messages[p + i] = d.messages[p + i]
    <3> TAKE i \in 1..d.base - p
    <3> DEFINE c == Len(d.messages)
    <3>1. c \in Nat /\ d.base < c
      BY <1>2
    <3> HIDE DEF c
    <3>2. p + i \in 1..c
      BY <1>1, <1>2, <3>1
    <3> QED
      BY <2>2, <3>2 DEF c
  <2>4. Copies(lines, n.messages, p, n.base - p)
    BY <1>1, <2>3 DEF Copies
  <2> QED
    BY <2>1, <2>4 DEF OnRecord
<1> QED
  BY <1>3, <1>4

\* The turns of the other workers are as they were.
LEMMA OthersGoOn ==
  ASSUME UnderWay, NEW w \in Workers, NEW t, Others(w),
         \A v \in Workers : v # w /\ worker[v].pc \notin Between => worker[v].turn # t,
         \A s : s # t => LinesOf(file', s) = LinesOf(file, s),
         \A s : s # t => TextsOf(memory', s) = TextsOf(memory, s),
         worker'[w].pc \notin Between =>
           /\ OnRecord(worker'[w], LinesOf(file', worker'[w].turn))
           /\ Ended(worker'[w])
           /\ Told(worker'[w], TextsOf(memory', worker'[w].turn))
  PROVE  UnderWay'
<1> SUFFICES ASSUME NEW v \in Workers, worker'[v].pc \notin Between
             PROVE  /\ OnRecord(worker'[v], LinesOf(file', worker'[v].turn))
                    /\ Ended(worker'[v])
                    /\ Told(worker'[v], TextsOf(memory', worker'[v].turn))
  BY DEF UnderWay
<1>1. CASE v # w
  <2>1. worker'[v] = worker[v]
    BY <1>1 DEF Others
  <2>2. worker[v].turn # t
    BY <1>1, <2>1
  <2>3. /\ OnRecord(worker[v], LinesOf(file, worker[v].turn))
        /\ Ended(worker[v])
        /\ Told(worker[v], TextsOf(memory, worker[v].turn))
    BY <2>1 DEF UnderWay
  <2> QED
    BY <2>1, <2>2, <2>3
<1> QED
  BY <1>1

\* What a worker does between the beginning of a turn and its end.
Talks(w) ==
  LET d == worker[w]
      n == worker'[w]
  IN
  /\ Others(w)
  /\ UNCHANGED <<file, memory, turns, lost>>
  /\ d.pc \in Calls \cup {"model"}
  /\ n.pc \in Calls \cup {"model", "remember"}
  /\ n.turn = d.turn
  /\ n.base = d.base
  /\ Ended(n)
  /\ \/ n.messages = d.messages
     \/ \E m \in Message : /\ n.messages = Append(d.messages, m)
                           /\ m.turn = d.turn
                           /\ Follows(d.messages[Len(d.messages)], m)

\* The steps that do.
LEMMA TalkSteps ==
  ASSUME Shape, NEW w \in Workers,
         \/ \E text \in BOOLEAN, calls \in 0..MaxCalls : Complete(w, text, calls)
         \/ \E tool \in Tools : \E flagged \in Flags(tool), contested \in Contests(tool) :
              Check(w, tool, flagged, contested)
         \/ Approve(w) \/ Refuse(w) \/ Dispatch(w) \/ Exit(w) \/ Expire(w)
  PROVE  Talks(w)
<1> DEFINE d == worker[w]
<1>1. d \in Doing /\ Good(d)
  BY DEF Shape
<1>2. ASSUME d.pc \in Calls, NEW result \in Results, Answered(w, result),
             UNCHANGED <<file, memory, turns, lost>>
      PROVE  Talks(w)
  <2>1. /\ \A v \in Workers : v # w => worker'[v] = worker[v]
        /\ worker'[w].turn = d.turn
        /\ worker'[w].base = d.base
        /\ \/ worker'[w].pc = "check" /\ worker'[w].messages = d.messages
           \/ /\ worker'[w].pc \in {"model", "remember"}
              /\ worker'[w].pc = "remember" => worker'[w].iter = MaxIterations
              /\ \E m \in Message :
                   /\ worker'[w].messages = Append(d.messages, m)
                   /\ m.turn = d.turn
                   /\ Follows(d.messages[Len(d.messages)], m)
    BY <1>2, AnsweredMoves
  <2>2. Ended(worker'[w])
    BY <2>1 DEF Ended
  <2> QED
    BY <1>2, <2>1, <2>2 DEF Talks, Calls, Others
<1>3. ASSUME d.pc \in Calls, worker'[w].pc \in Calls, Others(w), worker'[w].messages = d.messages,
             worker'[w].turn = d.turn, worker'[w].base = d.base,
             UNCHANGED <<file, memory, turns, lost>>
      PROVE  Talks(w)
  <2>1. Ended(worker'[w])
    BY <1>3 DEF Ended, Calls
  <2> QED
    BY <1>3, <2>1 DEF Talks
<1>4. ASSUME NEW text \in BOOLEAN, NEW calls \in 0..MaxCalls, Complete(w, text, calls)
      PROVE  Talks(w)
  <2> DEFINE reply == Reply(d, text, calls)
             n == Completed(d, text, calls)
  <2>1. /\ worker' = [worker EXCEPT ![w] = n] /\ d.pc = "model"
        /\ UNCHANGED <<file, memory, turns, lost>>
        /\ worker \in [Workers -> Doing]
    BY <1>4 DEF Complete, At, Completed, Reply, Set, Shape
  <2>2. /\ n.messages = Append(d.messages, reply) /\ Good(n) /\ n.turn = d.turn
        /\ n.pc = IF calls = 0 THEN "remember" ELSE "check"
    BY <1>1, <2>1, CompletedIsGood
  <2>3. n.base = d.base
    BY <1>1 DEF Completed, Doing
  <2>4. InTurn(d) /\ Phase(d, d.messages[Len(d.messages)])
    BY <1>1, <2>1 DEF Good, Between, InTurn
  <2>5. d.messages[Len(d.messages)].kind # "reply" /\ d.messages[Len(d.messages)].iter = d.iter
    <3>1. d.messages[Len(d.messages)].kind # "reply"
      BY <2>1, <2>4 DEF Phase, Calls
    <3>2. d.messages[Len(d.messages)].iter = d.iter
      BY <2>4 DEF InTurn
    <3> QED
      BY <3>1, <3>2
  <2>6. reply.kind = "reply" /\ reply.turn = d.turn /\ reply.iter = d.iter + 1
    BY DEF Reply
  <2>7. reply \in Message
    <3>1. /\ n.messages \in Seq(Message) /\ Len(n.messages) = Len(d.messages) + 1
          /\ n.messages[Len(d.messages) + 1] = reply /\ Len(d.messages) \in Nat
      <4> HIDE DEF n, reply
      <4>1. n.messages \in Seq(Message) /\ Len(d.messages) \in Nat /\ d.messages \in Seq(Message)
        BY <1>1, <2>2, Fields DEF Good
      <4> QED
        BY <2>2, <4>1
    <3> HIDE DEF n, reply
    <3> QED
      BY <3>1, Elements
  <2> HIDE DEF n, reply
  <2>8. Follows(d.messages[Len(d.messages)], reply)
    BY <2>5, <2>6 DEF Follows
  <2>9. n.messages[Len(n.messages)] = reply
    BY <1>1, <2>2, <2>7, Fields, Added
  <2>10. Ended(n)
    BY <2>6, <2>9 DEF Ended
  <2>11. worker'[w] = n /\ Others(w)
    BY <2>1 DEF Others
  <2>12. n.pc \in Calls \cup {"model", "remember"} /\ d.pc \in Calls \cup {"model"}
    BY <2>1, <2>2 DEF Calls
  <2> QED
    BY <2>1, <2>2, <2>3, <2>6, <2>7, <2>8, <2>10, <2>11, <2>12 DEF Talks
<1>5. ASSUME NEW tool \in Tools, NEW flagged \in Flags(tool), NEW contested \in Contests(tool),
             Check(w, tool, flagged, contested)
      PROVE  Talks(w)
  <2>1. /\ d.pc \in Calls /\ "ask" \in Calls /\ "dispatch" \in Calls /\ FALSE \in BOOLEAN
        /\ "refused" \in Results /\ UNCHANGED <<file, memory, turns, lost>>
    BY <1>5, CheckCases DEF Calls, Results
  <2>2. CASE Answered(w, "refused")
    BY <1>2, <2>1, <2>2
  <2>3. ASSUME NEW pc \in {"ask", "dispatch"}, NEW escalated \in BOOLEAN,
               Set(w, [d EXCEPT !.pc = pc, !.tool = tool, !.escalated = escalated])
        PROVE  Talks(w)
    <3>1. pc \in Calls
      BY <2>1
    <3>2. /\ worker'[w].pc = pc /\ worker'[w].messages = d.messages /\ Others(w)
          /\ worker'[w].turn = d.turn /\ worker'[w].base = d.base
      BY <2>1, <2>3, <3>1, CallMoves DEF Others
    <3> QED
      BY <1>3, <2>1, <3>1, <3>2
  <2>4. \/ Answered(w, "refused")
        \/ \E escalated \in BOOLEAN :
             Set(w, [d EXCEPT !.pc = "ask", !.tool = tool, !.escalated = escalated])
        \/ Set(w, [d EXCEPT !.pc = "dispatch", !.tool = tool, !.escalated = FALSE])
    BY <1>5, CheckCases
  <2> QED
    BY <2>1, <2>2, <2>3, <2>4
<1>6. ASSUME Approve(w)
      PROVE  Talks(w)
  <2>1. d.pc \in Calls /\ "dispatch" \in Calls /\ UNCHANGED <<file, memory, turns, lost>>
    BY <1>6, ApproveMoves DEF Calls
  <2>2. /\ worker'[w].pc = "dispatch" /\ worker'[w].messages = d.messages /\ Others(w)
        /\ worker'[w].turn = d.turn /\ worker'[w].base = d.base
    BY <1>6, <2>1, ApproveMoves, CallMoves DEF Others
  <2> QED
    BY <1>3, <2>1, <2>2
<1>7. ASSUME Refuse(w) \/ Exit(w) \/ Expire(w)
      PROVE  Talks(w)
  <2>1. /\ d.pc \in Calls
        /\ Answered(w, "refused") \/ Answered(w, "ran")
        /\ "refused" \in Results /\ "ran" \in Results
        /\ UNCHANGED <<file, memory, turns, lost>>
    BY <1>7 DEF Refuse, Exit, Expire, Waits, At, Calls, Results
  <2> QED
    BY <1>2, <2>1
<1>8. ASSUME Dispatch(w)
      PROVE  Talks(w)
  <2>1. /\ d.pc \in Calls /\ d.pc = "dispatch" /\ "running" \in Calls /\ "ran" \in Results
        /\ UNCHANGED <<file, memory, turns, lost>>
        /\ Set(w, [d EXCEPT !.pc = "running"]) \/ Answered(w, "ran")
    BY <1>8 DEF Dispatch, At, Calls, Results
  <2>2. CASE Set(w, [d EXCEPT !.pc = "running"])
    <3>1. /\ worker'[w].pc = "running" /\ worker'[w].messages = d.messages /\ Others(w)
          /\ worker'[w].turn = d.turn
      BY <2>1, <2>2, RunMoves DEF Others
    <3>2. worker'[w].base = d.base
      BY <1>1, <2>2 DEF Set, Shape, Doing
    <3> QED
      BY <1>3, <2>1, <3>1, <3>2
  <2> QED
    BY <1>2, <2>1, <2>2
<1> QED
  BY <1>4, <1>5, <1>6, <1>7, <1>8

\* A turn that is over was over before, unless w has ended it.
LEMMA OverStays ==
  ASSUME NEW w \in Workers, Others(w), lost \subseteq lost', NEW t, Over(t)',
         worker[w].pc \notin Between =>
           \/ worker[w].turn \in lost'
           \/ worker[w].turn # t
           \/ worker'[w].pc \notin Between /\ worker'[w].turn = worker[w].turn
  PROVE  Over(t)
BY DEF Over, Others

\* What a turn says is recorded at its end.
LEMMA RecordingTalks ==
  ASSUME Shape, Shape', Apart, Recording, NEW w \in Workers, Talks(w), Loadable'
  PROVE  Begun' /\ UnderWay' /\ Done'
<1> DEFINE d == worker[w]
           n == worker'[w]
<1>1. /\ Others(w)
      /\ UNCHANGED <<file, memory, turns, lost>>
      /\ d.pc \in Calls \cup {"model"}
      /\ n.pc \in Calls \cup {"model", "remember"}
      /\ n.turn = d.turn
      /\ n.base = d.base
      /\ Ended(n)
      /\ \/ n.messages = d.messages
         \/ \E m \in Message : /\ n.messages = Append(d.messages, m)
                               /\ m.turn = d.turn
                               /\ Follows(d.messages[Len(d.messages)], m)
  BY DEF Talks
<1>2. Begun /\ UnderWay /\ Done
  BY <1>1 DEF Recording, Loadable
<1>3. d.pc \notin Between /\ d.pc # "append" /\ n.pc \notin Between /\ n.pc # "append"
  BY <1>1 DEF Calls, Between
<1>4. d \in Doing /\ n \in Doing /\ d.base < Len(d.messages) /\ d.turn <= turns
  BY <1>3 DEF Shape, Good, InTurn
<1>5. OnRecord(d, LinesOf(file, d.turn)) /\ TextsOf(memory, d.turn) = {}
  BY <1>2, <1>3 DEF UnderWay, Told
<1>6. OnRecord(n, LinesOf(file, n.turn))
  BY <1>1, <1>4, <1>5, RecordStays
<1>7. Told(n, TextsOf(memory, n.turn))
  BY <1>1, <1>3, <1>5 DEF Told
<1>8. \A v \in Workers : v # w /\ worker[v].pc \notin Between => worker[v].turn # d.turn
  BY <1>3 DEF Apart
<1> HIDE DEF d, n
<1>9. UnderWay'
  BY <1>1, <1>2, <1>6, <1>7, <1>8, OthersGoOn DEF n
<1>10. Begun'
  <2>1. ASSUME NEW v \in Workers, NEW i \in DOMAIN worker'[v].messages
        PROVE  worker'[v].messages[i].turn <= turns
    <3>1. CASE v # w
      BY <1>1, <1>2, <2>1, <3>1 DEF Begun, Others
    <3>2. CASE v = w /\ n.messages = d.messages
      BY <1>2, <2>1, <3>2 DEF Begun, n, d
    <3>3. ASSUME v = w, NEW m \in Message, n.messages = Append(d.messages, m), m.turn = d.turn
          PROVE  n.messages[i].turn <= turns
      <4>1. /\ Len(d.messages) \in Nat
            /\ DOMAIN d.messages = 1..Len(d.messages)
            /\ DOMAIN n.messages = 1..Len(d.messages) + 1
            /\ n.messages[Len(d.messages) + 1] = m
            /\ \A j \in 1..Len(d.messages) : n.messages[j] = d.messages[j]
        BY <1>4, <3>3, Fields, Added
      <4>2. \A j \in DOMAIN d.messages : d.messages[j].turn <= turns
        BY <1>2 DEF Begun, d
      <4>3. i \in 1..Len(d.messages) + 1
        BY <2>1, <3>3, <4>1 DEF n
      <4>4. CASE i = Len(d.messages) + 1
        BY <1>4, <3>3, <4>1, <4>4
      <4>5. CASE i # Len(d.messages) + 1
        <5>1. i \in 1..Len(d.messages)
          BY <4>1, <4>3, <4>5
        <5> QED
          BY <4>1, <4>2, <5>1
      <4> QED
        BY <4>4, <4>5
    <3> QED
      BY <1>1, <3>1, <3>2, <3>3 DEF n
  <2> QED
    BY <1>1, <1>2, <2>1 DEF Begun
<1>11. Done'
  <2> SUFFICES ASSUME NEW t \in 1..turns, Over(t)'
               PROVE  /\ Whole(LinesOf(file, t))
                      /\ Recalled(t, LinesOf(file, t), TextsOf(memory, t))
    BY <1>1 DEF Done
  <2>1. Over(t)
    BY <1>1, <1>3, OverStays DEF d, n
  <2> QED
    BY <1>2, <2>1 DEF Done
<1> QED
  BY <1>9, <1>10, <1>11

\* A turn begins with nothing on record and nothing remembered.
LEMMA RecordingStart ==
  ASSUME Shape, Shape', Apart, Recording, NEW w \in Workers, Start(w), Loadable'
  PROVE  Begun' /\ UnderWay' /\ Done'
<1> DEFINE d == worker[w]
           history == IF At(w, "idle") THEN Loaded ELSE d.messages
           t == turns + 1
           n == Started(history, t)
<1>1. /\ worker' = [worker EXCEPT ![w] = n]
      /\ worker \in [Workers -> Doing]
      /\ UNCHANGED <<file, memory, lost>>
      /\ turns \in Nat
      /\ turns' = t
      /\ t \in Turns
      /\ t \in Nat
      /\ d.pc \in Between
  BY TurnAssumption DEF Shape, Start, Started, Set, Turns, Busy, Between
<1>2. Begun /\ UnderWay /\ Done /\ Loadable
  BY <1>1 DEF Recording, Loadable
<1>3. history \in Seq(Message) /\ \A i \in DOMAIN history : history[i].turn <= turns
  <2>1. CASE At(w, "idle")
    <3>1. /\ Loaded \in Seq(Message)
          /\ DOMAIN Loaded = DOMAIN file
          /\ \A i \in DOMAIN Loaded :
               file[i] \in Message /\ Loaded[i] = [file[i] EXCEPT !.usage = NoUsage]
      BY <1>2, LoadedIs
    <3>2. \A i \in DOMAIN Loaded : Loaded[i].turn = file[i].turn
      BY <3>1 DEF Message
    <3> QED
      BY <1>2, <2>1, <3>1, <3>2 DEF Begun
  <2>2. CASE ~At(w, "idle")
    BY <1>1, <1>2, <2>2, Fields DEF Begun
  <2> QED
    BY <2>1, <2>2
<1>4. /\ n.turn = t
      /\ n.messages = Append(history, Prompt(t))
      /\ n.base = Len(history)
      /\ n.iter = 0
      /\ n.pc = IF LoopsOn(0) THEN "model" ELSE "remember"
  BY DEF Started, Idle
<1>5. Prompt(t) \in Message /\ Prompt(t).kind = "prompt" /\ Prompt(t).turn = t
  BY <1>1, TurnAssumption DEF Prompt, Message
<1> HIDE DEF history, n
<1>6. worker'[w] = n /\ Others(w) /\ n \in Doing
  BY <1>1 DEF Others, Shape
<1>7. /\ Len(history) \in Nat
      /\ DOMAIN history = 1..Len(history)
      /\ Len(n.messages) = Len(history) + 1
      /\ DOMAIN n.messages = 1..Len(history) + 1
      /\ n.messages[Len(history) + 1] = Prompt(t)
      /\ \A i \in 1..Len(history) : n.messages[i] = history[i]
      /\ \A i \in 1..Len(history) : history[i] \in Message
  BY <1>3, <1>4, <1>5, Added, Elements
<1> DEFINE p == Len(history)
<1>8. /\ p \in Nat
      /\ p < Len(n.messages)
      /\ Len(n.messages) = p + 1
      /\ n.messages[p + 1].kind = "prompt"
      /\ n.messages[p + 1].turn = t
      /\ \A i \in 1..p : n.messages[i].turn <= turns
      /\ \A i \in 1..p : n.messages[i].turn \in Nat
  BY <1>3, <1>5, <1>7, MessageFields
<1> HIDE DEF p
<1>9. TurnFrom(n, p)
  <2>1. \A i \in 1..p : n.messages[i].turn < n.turn
    BY <1>1, <1>4, <1>8
  <2>2. \A i \in p + 1..p + 1 : n.messages[i].turn = n.turn
    BY <1>4, <1>8
  <2>3. p + 1..(p + 1) - 1 = {}
    BY <1>8
  <2> QED
    BY <1>8, <2>1, <2>2, <2>3 DEF TurnFrom
<1>10. LinesOf(file, t) = <<>> /\ TextsOf(memory, t) = {}
  <2>1. t > turns
    BY <1>1
  <2>2. \A m \in memory : m.turn # t
    <3>1. \A m \in memory : m.turn \in Nat
      BY TurnAssumption DEF Shape, Turns
    <3>2. \A m \in memory : m.turn <= turns
      BY <1>2 DEF Begun
    <3> QED
      BY <1>1, <3>1, <3>2
  <2>3. LinesOf(file, t) = <<>>
    BY <1>1, <1>2, <2>1 DEF Begun
  <2> QED
    BY <2>2, <2>3 DEF TextsOf
<1>11. OnRecord(n, LinesOf(file, n.turn))
  <2>1. p \in 0..n.base /\ n.base - p = 0
    BY <1>4, <1>8 DEF p
  <2>2. Copies(<<>>, n.messages, p, 0)
    BY DEF Copies
  <2> QED
    BY <1>4, <1>9, <1>10, <2>1, <2>2 DEF OnRecord
<1>12. Ended(n)
  <2>1. n.pc = "remember" => n.iter = MaxIterations
    BY <1>4, TurnAssumption DEF LoopsOn
  <2> QED
    BY <1>4, <2>1 DEF Ended
<1>13. Told(n, TextsOf(memory, n.turn))
  BY <1>4, <1>10 DEF Told
<1>14. \A v \in Workers : worker[v].turn # t
  <2>1. \A v \in Workers : worker[v].turn <= turns /\ worker[v].turn \in Nat
    BY Fields DEF Shape
  <2> QED
    BY <1>1, <2>1
<1>15. UnderWay'
  BY <1>1, <1>2, <1>6, <1>11, <1>12, <1>13, <1>14, OthersGoOn
<1>16. Begun'
  <2>1. ASSUME NEW v \in Workers, NEW i \in DOMAIN worker'[v].messages
        PROVE  worker'[v].messages[i].turn <= t
    <3>1. CASE v # w
      <4>1. worker'[v] = worker[v] /\ worker[v].messages[i].turn <= turns
        BY <1>2, <1>6, <2>1, <3>1 DEF Begun, Others
      <4>2. worker[v].messages[i].turn \in Nat
        BY <2>1, <4>1, Fields, MessageFields DEF Shape
      <4> QED
        BY <1>1, <4>1, <4>2
    <3>2. CASE v = w
      <4>1. i \in 1..p + 1
        BY <1>6, <1>7, <2>1, <3>2 DEF p
      <4>2. CASE i = p + 1
        BY <1>1, <1>6, <1>8, <3>2, <4>2
      <4>3. CASE i # p + 1
        <5>1. i \in 1..p
          BY <1>8, <4>1, <4>3
        <5> QED
          BY <1>1, <1>6, <1>8, <3>2, <5>1
      <4> QED
        BY <4>2, <4>3
    <3> QED
      BY <3>1, <3>2
  <2>2. \A i \in DOMAIN file : file[i].turn <= t
    <3>1. \A i \in DOMAIN file : file[i].turn \in Nat /\ file[i].turn <= turns
      BY <1>2, LoadedIs, MessageFields DEF Begun
    <3> QED
      BY <1>1, <3>1
  <2>3. \A m \in memory : m.turn <= t
    <3>1. \A m \in memory : m.turn \in Nat
      BY TurnAssumption DEF Shape, Turns
    <3>2. \A m \in memory : m.turn <= turns
      BY <1>2 DEF Begun
    <3> QED
      BY <1>1, <3>1, <3>2
  <2>4. \A s \in Nat : s > t => LinesOf(file, s) = <<>>
    <3>1. \A s \in Nat : s > t => s > turns
      BY <1>1
    <3> QED
      BY <1>2, <3>1 DEF Begun
  <2> QED
    BY <1>1, <2>1, <2>2, <2>3, <2>4 DEF Begun
<1>17. Done'
  <2> SUFFICES ASSUME NEW s \in 1..t, Over(s)'
               PROVE  /\ Whole(LinesOf(file, s))
                      /\ Recalled(s, LinesOf(file, s), TextsOf(memory, s))
    BY <1>1 DEF Done
  <2>1. s # t
    <3>1. n.pc \notin Between
      BY <1>4 DEF Between
    <3> QED
      BY <1>4, <1>6, <3>1 DEF Over
  <2>2. s \in 1..turns
    BY <1>1, <2>1
  <2>3. Over(s)
    BY <1>1, <1>6, OverStays
  <2> QED
    BY <1>2, <2>2, <2>3 DEF Done
<1> QED
  BY <1>15, <1>16, <1>17

\* The memory is told the last text of the conversation, when the turn has ended.
LEMMA RecordingRemember ==
  ASSUME Shape, Shape', Apart, Recording, NEW w \in Workers, Remember(w), Loadable'
  PROVE  Begun' /\ UnderWay' /\ Done'
<1> DEFINE d == worker[w]
           n == worker'[w]
           text == LastText(d.messages)
           t == d.turn
<1>1. /\ Others(w)
      /\ d.pc = "remember"
      /\ n.pc = "append"
      /\ n.turn = t
      /\ n.iter = d.iter
      /\ n.messages = d.messages
      /\ n.base = d.base
      /\ UNCHANGED <<file, turns, lost>>
      /\ memory' = IF text = None THEN memory ELSE memory \cup {[turn |-> t, text |-> text]}
  BY RememberMoves DEF Others, Remember
<1>2. Begun /\ UnderWay /\ Done
  BY <1>1 DEF Recording, Loadable
<1>3. d.pc \notin Between /\ n.pc \notin Between
  BY <1>1 DEF Between
<1>4. d \in Doing /\ Good(d) /\ n \in Doing /\ d.base < Len(d.messages) /\ t <= turns
  BY <1>3 DEF Shape, Good, InTurn
<1>5. Said(d.messages) = {} <=> text = None
  <2>1. CASE Said(d.messages) = {}
    BY <2>1 DEF LastText
  <2>2. CASE Said(d.messages) # {}
    <3>1. /\ Len(d.messages) \in Nat
          /\ DOMAIN d.messages = 1..Len(d.messages)
          /\ \A i \in 1..Len(d.messages) : d.messages[i] \in Message /\ Numbered(d.messages[i])
      BY <1>4, Fields DEF Good
    <3>2. PICK k \in Said(d.messages) : \A i \in Said(d.messages) : i <= k
      BY <2>2, <3>1, LastSaid
    <3>3. text = <<d.messages[k].turn, d.messages[k].iter>>
      BY <3>1, <3>2, LastTextIs
    <3>4. k \in 1..Len(d.messages) /\ d.messages[k].kind = "reply"
      BY <3>1 DEF Said
    <3>5. d.messages[k].turn \in 1..MaxTurns /\ d.messages[k].iter \in 1..MaxIterations
      <4>1. d.messages[k] \in Message /\ d.messages[k].iter # 0
        BY <3>1, <3>4 DEF Numbered
      <4> QED
        BY <4>1, TurnAssumption DEF Message, Turns
    <3> QED
      BY <2>2, <3>3, <3>5, TurnAssumption
  <2> QED
    BY <2>1, <2>2
<1>6. OnRecord(d, LinesOf(file, t)) /\ TextsOf(memory, t) = {} /\ Ended(d)
  BY <1>1, <1>2, <1>3 DEF UnderWay, Told
<1>7. OnRecord(n, LinesOf(file, n.turn))
  BY <1>1, <1>4, <1>6, RecordStays
<1>8. Ended(n)
  BY <1>1, <1>6 DEF Ended
<1>9. \A v \in Workers : v # w /\ worker[v].pc \notin Between => worker[v].turn # t
  BY <1>3 DEF Apart
<1> HIDE DEF n, text, t
<1>10. \A s : s # t => TextsOf(memory', s) = TextsOf(memory, s)
  BY <1>1 DEF TextsOf
<1>11. TextsOf(memory', t) = IF text = None THEN {} ELSE {text}
  <2>1. CASE text = None
    BY <1>1, <1>6, <2>1
  <2>2. CASE text # None
    <3> DEFINE r == [turn |-> t, text |-> text]
    <3>1. memory' = memory \cup {r} /\ r.turn = t /\ r.text = text
      BY <1>1, <2>2
    <3> HIDE DEF r
    <3>2. \A m \in memory : m.turn # t
      BY <1>6 DEF TextsOf
    <3>3. {m \in memory' : m.turn = t} = {r}
      BY <3>1, <3>2
    <3>4. TextsOf(memory', t) = {m.text : m \in {r}}
      BY <3>3 DEF TextsOf
    <3> QED
      BY <2>2, <3>1, <3>4
  <2> QED
    BY <2>1, <2>2
<1>12. Told(n, TextsOf(memory', n.turn))
  BY <1>1, <1>5, <1>11 DEF Told, text
<1>13. UnderWay'
  BY <1>1, <1>2, <1>7, <1>8, <1>9, <1>10, <1>12, OthersGoOn DEF n
<1>14. Begun'
  <2>1. ASSUME NEW v \in Workers
        PROVE  worker'[v].messages = worker[v].messages
    BY <1>1 DEF Others, n
  <2>2. \A m \in memory' : m.turn <= turns
    BY <1>1, <1>2, <1>4 DEF Begun, t
  <2> QED
    BY <1>1, <1>2, <2>1, <2>2 DEF Begun
<1>15. Done'
  <2> SUFFICES ASSUME NEW s \in 1..turns, Over(s)'
               PROVE  /\ Whole(LinesOf(file, s))
                      /\ Recalled(s, LinesOf(file, s), TextsOf(memory', s))
    BY <1>1 DEF Done
  <2>1. s # t
    BY <1>1, <1>3 DEF Over, n
  <2>2. Over(s)
    BY <1>1, <1>3, OverStays DEF n, t
  <2> QED
    BY <1>2, <1>10, <2>1, <2>2 DEF Done
<1> QED
  BY <1>13, <1>14, <1>15

\* A message is written behind what is on record of its turn; with the last one the turn is
\* over.
LEMMA RecordingAppend ==
  ASSUME Shape, Shape', Apart, Recording, NEW w \in Workers, AppendMessage(w), Loadable'
  PROVE  Begun' /\ UnderWay' /\ Done'
<1> DEFINE d == worker[w]
           n == worker'[w]
           t == d.turn
           m == d.messages[d.base + 1]
           line == [m EXCEPT !.usage = UsageFor(m, d.usages)]
           lines == LinesOf(file, t)
           L == Message \cup {Torn, Merged}
<1>1. /\ Others(w)
      /\ d.pc = "append"
      /\ file' = Appended(file, line)
      /\ line \in Message
      /\ IsCopyOf(line, m)
      /\ line.turn = m.turn
      /\ \/ /\ n.pc = "append"
            /\ n.turn = t
            /\ n.messages = d.messages
            /\ n.base = d.base + 1
         \/ /\ n.pc \in Between
            /\ n.messages \in {<<>>, d.messages}
            /\ d.base + 1 = Len(d.messages)
      /\ UNCHANGED <<memory, turns, lost>>
  BY AppendMoves DEF Others, IsCopyOf, IsLineOf, AppendMessage
<1>2. /\ d \in Doing /\ Good(d) /\ d.pc \notin Between /\ t <= turns /\ t \in Nat
      /\ n \in Doing /\ turns \in Nat
      /\ d.base \in Nat /\ Len(d.messages) \in Nat /\ d.base < Len(d.messages)
      /\ file \in Seq(L)
  <2>1. d \in Doing /\ Good(d) /\ t <= turns /\ n \in Doing /\ file \in Seq(L)
    BY DEF Shape
  <2>2. d.pc \notin Between /\ turns \in Nat
    BY <1>1, TurnAssumption DEF Between, Shape
  <2>3. d.base < Len(d.messages)
    BY <2>1, <2>2 DEF Good, InTurn
  <2> QED
    BY <2>1, <2>2, <2>3, Fields
<1>3. m.turn = t
  <2>1. d.base + 1 \in d.base + 1..Len(d.messages) /\ InTurn(d)
    BY <1>2 DEF Good
  <2> QED
    BY <2>1 DEF InTurn
<1> HIDE DEF line
<1>4. /\ Loadable
      /\ file' = Append(file, line)
      /\ \A s : LinesOf(file', s) = IF t = s THEN Append(LinesOf(file, s), line) ELSE LinesOf(file, s)
  BY <1>1, <1>3, LinesGrow
<1>5. Begun /\ UnderWay /\ Done
  BY <1>4 DEF Recording
<1>6. /\ OnRecord(d, lines)
      /\ Ended(d)
      /\ Told(d, TextsOf(memory, t))
  BY <1>2, <1>5 DEF UnderWay
<1>7. PICK p \in 0..d.base : TurnFrom(d, p) /\ Copies(lines, d.messages, p, d.base - p)
  BY <1>6 DEF OnRecord
<1>8. LinesOf(file', t) = Append(lines, line) /\ lines \in Seq(L) /\ Append(lines, line) \in Seq(L)
  <2>1. lines \in Seq(L)
    BY <1>2, LinesOfIsSeq
  <2>2. line \in L
    BY <1>1
  <2> QED
    BY <1>4, <2>1, <2>2, Added
<1>9. Copies(Append(lines, line), d.messages, p, d.base + 1 - p)
  <2> HIDE DEF lines
  <2> DEFINE a == Append(lines, line)
             b == d.base
             k == Len(lines)
  <2>1. /\ k \in Nat
        /\ Len(a) = k + 1
        /\ a[k + 1] = line
        /\ \A i \in 1..k : a[i] = lines[i]
    BY <1>1, <1>8, Added
  <2>2. k = b - p /\ \A i \in 1..b - p : IsCopyOf(lines[i], d.messages[p + i])
    BY <1>7 DEF Copies
  <2>3. IsCopyOf(line, d.messages[b + 1])
    BY <1>1
  <2> HIDE DEF a, b, k
  <2>4. b \in Nat /\ p \in 0..b
    BY <1>2 DEF b
  <2>5. /\ k + 1 = b + 1 - p
        /\ p + (k + 1) = b + 1
    BY <2>1, <2>2, <2>4
  <2>6. ASSUME NEW i \in 1..b + 1 - p
        PROVE  IsCopyOf(a[i], d.messages[p + i])
    <3>1. CASE i = k + 1
      BY <2>1, <2>3, <2>5, <3>1
    <3>2. CASE i # k + 1
      <4>1. i \in 1..k /\ i \in 1..b - p
        BY <2>1, <2>2, <2>4, <3>2
      <4> QED
        BY <2>1, <2>2, <4>1
    <3> QED
      BY <3>1, <3>2
  <2>7. Copies(a, d.messages, p, b + 1 - p)
    BY <2>1, <2>5, <2>6 DEF Copies
  <2> QED
    BY <2>7 DEF a, b
<1>10. \A v \in Workers : v # w /\ worker[v].pc \notin Between => worker[v].turn # t
  BY <1>2 DEF Apart
<1>11. \A s : s # t => LinesOf(file', s) = LinesOf(file, s)
  BY <1>4
<1> HIDE DEF n, lines, t, d
<1>12. n.pc \notin Between =>
         /\ OnRecord(n, LinesOf(file', n.turn))
         /\ Ended(n)
         /\ Told(n, TextsOf(memory', n.turn))
  <2> SUFFICES ASSUME n.pc \notin Between
               PROVE  /\ OnRecord(n, LinesOf(file', n.turn))
                      /\ Ended(n)
                      /\ Told(n, TextsOf(memory', n.turn))
    OBVIOUS
  <2>1. n.pc = "append" /\ n.turn = t /\ n.messages = d.messages /\ n.base = d.base + 1
    BY <1>1
  <2>2. p \in 0..n.base
    BY <1>2, <2>1
  <2>3. TurnFrom(n, p)
    BY <1>7, <2>1 DEF TurnFrom, t
  <2>4. OnRecord(n, LinesOf(file', n.turn))
    <3>1. LinesOf(file', n.turn) = Append(lines, line) /\ n.base - p = d.base + 1 - p
      BY <1>2, <1>8, <2>1
    <3>2. Copies(LinesOf(file', n.turn), n.messages, p, n.base - p)
      BY <1>9, <2>1, <3>1
    <3> QED
      BY <2>2, <2>3, <3>2 DEF OnRecord
  <2>5. \/ d.messages[Len(d.messages)].kind = "reply"
        \/ d.iter = MaxIterations
    BY <1>1, <1>6 DEF Ended
  <2>6. n.iter = d.iter
    <3>1. /\ d.messages[Len(d.messages)].iter = d.iter
      BY <1>2 DEF Good, InTurn
    <3>2. n.messages[Len(n.messages)].iter = n.iter
      <4>1. Good(n)
        BY DEF Shape, n
      <4> QED
        BY <2>1, <4>1 DEF Good, InTurn, Between
    <3> QED
      BY <2>1, <3>1, <3>2
  <2>7. Ended(n)
    BY <2>1, <2>5, <2>6 DEF Ended
  <2>8. Told(n, TextsOf(memory', n.turn))
    BY <1>1, <1>6, <2>1 DEF Told
  <2> QED
    BY <2>4, <2>7, <2>8
<1>13. UnderWay'
  <2>1. \A s : s # t => TextsOf(memory', s) = TextsOf(memory, s)
    BY <1>1
  <2> QED
    BY <1>1, <1>5, <1>10, <1>11, <1>12, <2>1, OthersGoOn DEF n
<1>14. Begun'
  <2>1. ASSUME NEW v \in Workers, NEW i \in DOMAIN worker'[v].messages
        PROVE  worker'[v].messages[i].turn <= turns
    <3>1. CASE v # w
      BY <1>1, <1>5, <2>1, <3>1 DEF Begun, Others
    <3>2. CASE v = w
      <4>1. n.messages \in {<<>>, d.messages} /\ i \in DOMAIN n.messages
        BY <1>1, <2>1, <3>2 DEF n
      <4>2. n.messages = d.messages
        BY <4>1
      <4> QED
        BY <1>5, <3>2, <4>1, <4>2 DEF Begun, n, d
    <3> QED
      BY <3>1, <3>2
  <2>2. \A i \in DOMAIN file' : file'[i].turn <= turns
    <3>1. /\ Len(file) \in Nat
          /\ DOMAIN file = 1..Len(file)
          /\ DOMAIN file' = 1..Len(file) + 1
          /\ file'[Len(file) + 1] = line
          /\ \A i \in 1..Len(file) : file'[i] = file[i]
      BY <1>1, <1>2, <1>4, Added
    <3>2. \A i \in 1..Len(file) : file[i].turn <= turns
      BY <1>5, <3>1 DEF Begun
    <3>3. \A i \in 1..Len(file) + 1 : i = Len(file) + 1 \/ i \in 1..Len(file)
      BY <3>1
    <3> QED
      BY <1>1, <1>2, <1>3, <3>1, <3>2, <3>3
  <2>3. \A s \in Nat : s > turns => LinesOf(file', s) = <<>>
    <3>1. \A s \in Nat : s > turns => s # t
      BY <1>2
    <3> QED
      BY <1>5, <1>11, <3>1 DEF Begun
  <2> QED
    BY <1>1, <1>5, <2>1, <2>2, <2>3 DEF Begun
<1>15. Done'
  <2> SUFFICES ASSUME NEW s \in 1..turns, Over(s)'
               PROVE  /\ Whole(LinesOf(file', s))
                      /\ Recalled(s, LinesOf(file', s), TextsOf(memory, s))
    BY <1>1 DEF Done
  <2>1. CASE s # t
    <3>1. Over(s)
      BY <1>1, <2>1, OverStays DEF d, t
    <3> QED
      BY <1>5, <1>11, <2>1, <3>1 DEF Done
  <2>2. CASE s = t
    <3>1. n.pc \in Between
      BY <1>1, <2>2 DEF Over, n, Between
    <3>2. d.base + 1 = Len(d.messages)
      BY <1>1, <3>1 DEF Between
    <3>3. Copies(Append(lines, line), d.messages, p, Len(d.messages) - p)
      <4>1. Len(d.messages) - p = d.base + 1 - p
        BY <1>2, <3>2
      <4> QED
        BY <1>9, <4>1
    <3>4. p \in Nat
      OBVIOUS
    <3>5. Told(d, TextsOf(memory, t))
      BY <1>6
    <3>6. /\ Whole(Append(lines, line))
          /\ Recalled(d.turn, Append(lines, line), TextsOf(memory, t))
      BY <1>1, <1>2, <1>6, <1>7, <1>8, <3>3, <3>4, <3>5, EndedIsDone
    <3> QED
      BY <1>8, <2>2, <3>6 DEF t
  <2> QED
    BY <2>1, <2>2
<1> QED
  BY <1>13, <1>14, <1>15

\* A death leaves the log as it was, or not loadable; the turn is lost.
LEMMA RecordingDie ==
  ASSUME Shape, Shape', Apart, Recording, NEW w \in Workers, Die(w) \/ Quit(w), Loadable'
  PROVE  Begun' /\ UnderWay' /\ Done'
<1>1. Others(w) /\ worker'[w] = Idle /\ UNCHANGED <<memory, turns>>
  <2>1. Set(w, Idle) /\ UNCHANGED <<memory, turns>>
    BY DEF Die, Quit
  <2> QED
    BY <2>1, StopMoves DEF Others
<1>2. file' = file
  <2> SUFFICES ASSUME file' = Appended(file, Torn)
               PROVE  FALSE
    BY DEF Die, Quit
  <2>1. Torn.kind # "torn"
    BY LinesGrow
  <2> QED
    BY <2>1 DEF Torn
<1>3. Begun /\ UnderWay /\ Done
  BY <1>2 DEF Recording, Loadable
<1>4. lost \subseteq lost' /\ (worker[w].pc \notin Between => worker[w].turn \in lost')
  BY DEF Die, Quit, At, Busy, Between
<1>5. Idle.pc \in Between /\ Idle.messages = <<>>
  BY IdleIsGood DEF Between
<1>6. UnderWay'
  <2>1. \A v \in Workers : worker'[v].pc \notin Between => worker'[v] = worker[v]
    BY <1>1, <1>5 DEF Others
  <2> QED
    BY <1>1, <1>2, <1>3, <2>1 DEF UnderWay
<1>7. Begun'
  <2>1. \A v \in Workers : worker'[v].messages \in {<<>>, worker[v].messages}
    BY <1>1, <1>5 DEF Others
  <2>2. ASSUME NEW v \in Workers, NEW i \in DOMAIN worker'[v].messages
        PROVE  worker'[v].messages[i].turn <= turns
    <3>1. worker'[v].messages = worker[v].messages
      BY <2>1, <2>2
    <3> QED
      BY <1>3, <2>2, <3>1 DEF Begun
  <2> QED
    BY <1>1, <1>2, <1>3, <2>2 DEF Begun
<1>8. Done'
  <2> SUFFICES ASSUME NEW s \in 1..turns, Over(s)'
               PROVE  /\ Whole(LinesOf(file, s))
                      /\ Recalled(s, LinesOf(file, s), TextsOf(memory, s))
    BY <1>1, <1>2 DEF Done
  <2>1. Over(s)
    BY <1>1, <1>4, OverStays
  <2> QED
    BY <1>3, <2>1 DEF Done
<1> QED
  BY <1>6, <1>7, <1>8

LEMMA RecordingAtStart == Init => Recording
<1> SUFFICES ASSUME Init
             PROVE  Begun /\ UnderWay /\ Done
  BY DEF Recording
<1>1. /\ \A w \in Workers : worker[w] = Idle
      /\ file = <<>>
      /\ memory = {}
      /\ turns = 0
  BY DEF Init
<1>2. <<>> \in Seq(Message)
  OBVIOUS
<1>3. \A t : LinesOf(<<>>, t) = <<>>
  BY <1>2, LinesOfIsSeq
<1>4. Begun
  BY <1>1, <1>3, IdleIsGood DEF Begun
<1>5. UnderWay
  BY <1>1, IdleIsGood DEF UnderWay, Between
<1>6. Done
  BY <1>1 DEF Done
<1> QED
  BY <1>4, <1>5, <1>6

\* As long as the log can be loaded it has every turn that is over, and the memory its answer.
LEMMA RecordingAlways == Spec => [](Shape /\ Recording)
<1>1. Shape /\ Shape' /\ Apart /\ Recording /\ [Next]_vars => Recording'
  <2> SUFFICES ASSUME Shape, Shape', Apart, Recording, [Next]_vars, Loadable'
               PROVE  Begun' /\ UnderWay' /\ Done'
    BY DEF Recording
  <2>1. ASSUME NEW w \in Workers, Start(w) \/ Proceed(w) \/ Exit(w) \/ Die(w) \/ Quit(w)
        PROVE  Begun' /\ UnderWay' /\ Done'
    <3>1. CASE Start(w)
      BY <3>1, RecordingStart
    <3>2. CASE Remember(w)
      BY <3>2, RecordingRemember
    <3>3. CASE AppendMessage(w)
      BY <3>3, RecordingAppend
    <3>4. CASE Die(w) \/ Quit(w)
      BY <3>4, RecordingDie
    <3>5. CASE \/ \E text \in BOOLEAN, calls \in 0..MaxCalls : Complete(w, text, calls)
               \/ \E tool \in Tools : \E flagged \in Flags(tool), contested \in Contests(tool) :
                    Check(w, tool, flagged, contested)
               \/ Approve(w) \/ Refuse(w) \/ Dispatch(w) \/ Exit(w) \/ Expire(w)
      <4>1. Talks(w)
        BY <3>5, TalkSteps
      <4> QED
        BY <4>1, RecordingTalks
    <3> QED
      BY <2>1, <3>1, <3>2, <3>3, <3>4, <3>5 DEF Proceed
  <2>2. CASE UNCHANGED <<worker, file, memory, turns, lost>>
    BY <2>2 DEF Recording, Loadable, Begun, UnderWay, Done, Over
  <2>3. ASSUME NEW c \in commands, EndCommand(c)
        PROVE  UNCHANGED <<worker, file, memory, turns, lost>>
    BY <2>3 DEF EndCommand
  <2> QED
    BY <2>1, <2>2, <2>3 DEF Next, vars
<1>2. Audit => Apart
  BY DEF Audit
<1> QED
  BY ShapeAlways, AuditAlways, RecordingAtStart, <1>1, <1>2, PTL DEF Spec

\* append_turn_result writes the new messages and no others: once a turn is over the log holds
\* all of it, in order and once, however many workers append in between.
THEOREM EndedTurnsAreWhole == Spec => []TurnsAreRecordedWhole
<1>1. ASSUME Recording
      PROVE  TurnsAreRecordedWhole
  <2> SUFFICES ASSUME NEW t \in 1..turns, Loadable, t \notin lost,
                      \A w \in Workers : Busy(w) => worker[w].turn # t
               PROVE  Whole(Lines(t))
    BY DEF TurnsAreRecordedWhole
  <2>1. Over(t)
    BY DEF Over, Busy, Between
  <2> QED
    BY <1>1, <2>1 DEF Recording, Done, Lines
<1> QED
  BY <1>1, RecordingAlways, PTL

\* What the memory is told of a turn is its answer: its own last text, if it has one, once and
\* whatever came before or meanwhile.
THEOREM AnswersAreRemembered == Spec => []RemembersTheAnswer
<1>1. ASSUME Recording
      PROVE  RemembersTheAnswer
  <2> DEFINE Remembered(t) == {m.text : m \in {m \in memory : m.turn = t}}
  <2> SUFFICES ASSUME NEW t \in 1..turns, Loadable, t \notin lost,
                      \A w \in Workers : Busy(w) => worker[w].turn # t
               PROVE  IF Said(Lines(t)) # {} THEN Remembered(t) = {LastText(Lines(t))}
                      ELSE /\ Cardinality(Remembered(t)) <= 1
                           /\ \A text \in Remembered(t) : text[1] < t
    BY Zenon DEF RemembersTheAnswer
  <2>1. Over(t)
    BY DEF Over, Busy, Between
  <2>2. Recalled(t, Lines(t), Remembered(t))
    BY <1>1, <2>1 DEF Recording, Done, Lines, TextsOf
  <2> HIDE DEF Remembered
  <2> QED
    BY <2>2 DEF Recalled
<1> QED
  BY <1>1, RecordingAlways, PTL

===================================================================================
