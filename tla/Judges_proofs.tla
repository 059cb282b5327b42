------------------------------ MODULE Judges_proofs -------------------------------
(***************************************************************************)
(* Theorems about Judges, for any number of threads, judges, rounds and    *)
(* levels of confidence.                                                   *)
(***************************************************************************)
EXTENDS Judges, TLAPS

-----------------------------------------------------------------------------------
(* The inductive invariant.                                                *)

Search == [pc      : {"idle", "round", "call", "mark", "ask", "geometric", "judged"},
           judge   : 0..MaxKeys,
           rounds  : 0..MaxRounds,
           results : BOOLEAN,
           answer  : Answers,
           verdict : Verdict,
           alone   : BOOLEAN]

\* The judge installed is one that was made, and each search has one and a number of rounds
\* that is bounded.
TypeOK ==
  /\ made \in 0..MaxKeys /\ installed \in 0..MaxKeys
  /\ available \in [Jevs -> BOOLEAN]
  /\ search \in [Threads -> Search]

\* A thread is in Jev only if it has one, and begins a round only if one is left.
Underway(t) ==
  /\ search[t].pc \in {"call", "mark", "ask"} => search[t].judge # 0
  /\ At(t, "round") => search[t].rounds < MaxRounds

\* Undisturbed, a thread finds the flag as its own answer has left it, and goes on to the
\* geometric judge only without an answer.
FlagIsOwn(t) ==
  (search[t].alone /\ search[t].judge # 0) =>
    /\ At(t, "ask") => available[search[t].judge] = Real(search[t].answer)
    /\ At(t, "geometric") => ~Real(search[t].answer)
    /\ At(t, "judged") => search[t].verdict.by = IF Real(search[t].answer) THEN "jev" ELSE "geometric"

\* A verdict is what Jev's answer to this thread says, or the geometric judge's on its results.
VerdictIsOwn(t) ==
  At(t, "judged") =>
    \/ search[t].verdict = Parsed(search[t].answer)
    \/ search[t].verdict \in Geometric(search[t].results)

Fine(t) == Underway(t) /\ FlagIsOwn(t) /\ VerdictIsOwn(t)

IInv == TypeOK /\ \A t \in Threads : Fine(t)

-----------------------------------------------------------------------------------
(* Facts about verdicts.                                                   *)

\* Both judges return verdicts, and say "enough" only from Half up, Jev with a number it
\* was given and the geometric judge with results.
LEMMA VerdictsAreVerdicts ==
  /\ \A answer \in Answers :
       /\ Parsed(answer) \in Verdict
       /\ ~Parsed(answer).expand => /\ Parsed(answer).confidence >= Half
                                    /\ answer = Parsed(answer).confidence
  /\ \A results \in BOOLEAN : \A v \in Geometric(results) :
       /\ v \in Verdict /\ v.by = "geometric"
       /\ ~v.expand => v.confidence >= Half /\ results
<1>1. ASSUME NEW answer \in Answers
      PROVE  /\ Parsed(answer) \in Verdict
             /\ ~Parsed(answer).expand => /\ Parsed(answer).confidence >= Half
                                          /\ answer = Parsed(answer).confidence
  <2>1. CASE Real(answer)
    <3>1. answer \in Levels /\ answer \in Nat /\ Half \in Nat
      BY <2>1, JudgesAssumption DEF Real
    <3>2. CASE answer < Half
      <4>1. Parsed(answer) = [confidence |-> answer, expand |-> TRUE, by |-> "jev"]
        BY <2>1, <3>2 DEF Parsed
      <4> QED BY <3>1, <4>1 DEF Verdict
    <3>3. CASE ~(answer < Half)
      <4>1. Parsed(answer) = [confidence |-> answer, expand |-> FALSE, by |-> "jev"]
        BY <2>1, <3>3 DEF Parsed
      <4> QED BY <3>1, <3>3, <4>1 DEF Verdict
    <3> QED BY <3>2, <3>3
  <2>2. CASE ~Real(answer)
    <3>1. Parsed(answer) = [confidence |-> 0, expand |-> TRUE, by |-> "jev"]
      BY <2>2 DEF Parsed
    <3> QED BY <3>1, JudgesAssumption DEF Verdict
  <2> QED BY <2>1, <2>2
<1>2. ASSUME NEW results \in BOOLEAN, NEW v \in Geometric(results)
      PROVE  /\ v \in Verdict /\ v.by = "geometric"
             /\ ~v.expand => v.confidence >= Half /\ results
  <2>1. CASE results
    <3>1. PICK c \in Levels : v = [confidence |-> c, expand |-> c < Half, by |-> "geometric"]
      BY <1>2, <2>1 DEF Geometric
    <3>2. c \in Nat /\ Half \in Nat
      BY JudgesAssumption
    <3>3. CASE c < Half
      <4>1. v = [confidence |-> c, expand |-> TRUE, by |-> "geometric"]
        BY <3>1, <3>3
      <4> QED BY <4>1 DEF Verdict
    <3>4. CASE ~(c < Half)
      <4>0. (c < Half) = FALSE
        BY <3>4
      <4>1. v = [confidence |-> c, expand |-> FALSE, by |-> "geometric"]
        BY <3>1, <4>0, Zenon
      <4> QED BY <2>1, <3>2, <3>4, <4>1 DEF Verdict
    <3> QED BY <3>3, <3>4
  <2>2. CASE ~results
    <3>1. v = [confidence |-> 0, expand |-> TRUE, by |-> "geometric"]
      BY <1>2, <2>2 DEF Geometric
    <3> QED BY <3>1, JudgesAssumption DEF Verdict
  <2> QED BY <2>1, <2>2
<1> QED BY <1>1, <1>2

\* A search begins, and ends, as it should.
LEMMA IdleIsFine == Idle \in Search
  BY JudgesAssumption DEF Idle, Search, Answers, Verdict, NoVerdict

-----------------------------------------------------------------------------------
(* Each step keeps the invariant.                                          *)

\* A step that changes the search of one thread only, and no flag, has that thread to
\* answer for.
LEMMA OneThread ==
  ASSUME IInv, NEW t \in Threads, NEW s \in Search,
         Set(t, s), UNCHANGED available,
         made' \in 0..MaxKeys, installed' \in 0..MaxKeys,
         s.pc \in {"call", "mark", "ask"} => s.judge # 0,
         s.pc = "round" => s.rounds < MaxRounds,
         (s.alone /\ s.judge # 0) =>
           /\ s.pc = "ask" => available[s.judge] = Real(s.answer)
           /\ s.pc = "geometric" => ~Real(s.answer)
           /\ s.pc = "judged" => s.verdict.by = IF Real(s.answer) THEN "jev" ELSE "geometric",
         s.pc = "judged" => s.verdict = Parsed(s.answer) \/ s.verdict \in Geometric(s.results)
  PROVE  IInv'
<1>1. search' = [search EXCEPT ![t] = s] /\ search' \in [Threads -> Search]
  BY DEF Set, IInv, TypeOK
<1>2. TypeOK'
  BY <1>1 DEF IInv, TypeOK
<1>3. ASSUME NEW u \in Threads
      PROVE  Fine(u)'
  <2>1. CASE u = t
    <3>1. search'[u] = s
      BY <1>1, <2>1 DEF IInv, TypeOK
    <3> QED BY <3>1 DEF Fine, Underway, FlagIsOwn, VerdictIsOwn, At
  <2>2. CASE u # t
    <3>1. search'[u] = search[u]
      BY <1>1, <2>2 DEF IInv, TypeOK
    <3> QED BY <3>1 DEF IInv, Fine, Underway, FlagIsOwn, VerdictIsOwn, At
  <2> QED BY <2>1, <2>2
<1> QED BY <1>2, <1>3 DEF IInv

LEMMA Start == Init => IInv
<1> SUFFICES ASSUME Init PROVE IInv
  OBVIOUS
<1>1. TypeOK
  BY IdleIsFine, JudgesAssumption DEF Init, TypeOK
<1>2. ASSUME NEW t \in Threads PROVE Fine(t)
  <2>1. search[t] = Idle
    BY DEF Init
  <2> QED BY <2>1 DEF Fine, Underway, FlagIsOwn, VerdictIsOwn, At, Idle
<1> QED BY <1>1, <1>2 DEF IInv

\* Marking the flag tells every thread at the question that it is not alone.
LEMMA MarkKeeps ==
  ASSUME IInv, NEW t \in Threads, Mark(t)
  PROVE  IInv'
<1> DEFINE j == search[t].judge
           met(u) == At(u, "ask") /\ search[u].judge = j
<1>1. search[t] \in Search /\ j \in Jevs /\ Real(search[t].answer) \in BOOLEAN
  <2>1. search[t] \in Search /\ search[t].pc = "mark" /\ search[t].judge # 0
    BY DEF IInv, TypeOK, Fine, Underway, Mark, At
  <2> QED BY <2>1, JudgesAssumption DEF Search, Jevs, Real
<1>2. available' = [available EXCEPT ![j] = Real(search[t].answer)]
  BY DEF Mark, Marked
<1>3. ASSUME NEW u \in Threads
      PROVE  search'[u] = IF u = t THEN [search[u] EXCEPT !.pc = "ask", !.alone = TRUE]
                                   ELSE [search[u] EXCEPT !.alone = @ /\ ~met(u)]
  BY DEF Mark
<1>4. ASSUME NEW u \in Threads
      PROVE  search'[u] \in Search /\ Fine(u)'
  <2>0. search[u] \in Search /\ Fine(u)
    BY DEF IInv, TypeOK
  <2>1. CASE u = t
    <3>1. search'[u] = [search[u] EXCEPT !.pc = "ask", !.alone = TRUE]
      BY <1>3, <2>1
    <3>2. search'[u] \in Search
      BY <2>0, <3>1 DEF Search
    <3>3. available'[j] = Real(search[t].answer)
      BY <1>1, <1>2 DEF IInv, TypeOK
    <3>4. /\ search'[u].pc = "ask" /\ search'[u].judge = j
          /\ search'[u].answer = search[t].answer
      BY <2>0, <2>1, <3>1 DEF Search
    <3>5. j # 0
      BY <1>1, JudgesAssumption DEF Jevs
    <3> QED BY <3>2, <3>3, <3>4, <3>5 DEF Fine, Underway, FlagIsOwn, VerdictIsOwn, At
  <2>2. CASE u # t
    <3>1. search'[u] = [search[u] EXCEPT !.alone = search[u].alone /\ ~met(u)]
      BY <1>3, <2>2
    <3>2. /\ search'[u] \in Search
          /\ search'[u].pc = search[u].pc /\ search'[u].judge = search[u].judge
          /\ search'[u].rounds = search[u].rounds /\ search'[u].answer = search[u].answer
          /\ search'[u].verdict = search[u].verdict /\ search'[u].results = search[u].results
          /\ search'[u].alone = (search[u].alone /\ ~met(u))
      BY <2>0, <3>1 DEF Search
    <3>3. (At(u, "ask") /\ ~met(u) /\ search[u].judge # 0)
             => available'[search[u].judge] = available[search[u].judge]
      BY <1>1, <1>2, <2>0 DEF IInv, TypeOK, Search, Jevs
    <3> QED BY <2>0, <3>2, <3>3 DEF Fine, Underway, FlagIsOwn, VerdictIsOwn, At
  <2> QED BY <2>1, <2>2
<1>5. available' \in [Jevs -> BOOLEAN]
  BY <1>1, <1>2 DEF IInv, TypeOK
<1>6. search' \in [Threads -> Search]
  BY <1>4 DEF Mark
<1> QED BY <1>4, <1>5, <1>6 DEF IInv, TypeOK, Mark

\* Every other step of a thread.
LEMMA ThreadKeeps ==
  ASSUME IInv, NEW t \in Threads,
         \/ Begin(t) \/ Judge(t) \/ CallApi(t) \/ CallRaises(t)
         \/ AskAvailable(t) \/ JudgeGeometrically(t) \/ Take(t)
  PROVE  IInv'
<1> DEFINE s == search[t]
<1>0. /\ s \in Search /\ Fine(t)
      /\ s.judge \in 0..MaxKeys /\ s.rounds \in 0..MaxRounds /\ s.results \in BOOLEAN
      /\ s.answer \in Answers /\ s.verdict \in Verdict /\ s.alone \in BOOLEAN
      /\ MaxRounds \in Nat
  BY JudgesAssumption DEF IInv, TypeOK, Search
<1>1. CASE Begin(t)
  <2>1. installed \in 0..MaxKeys /\ made \in 0..MaxKeys
    BY DEF IInv, TypeOK
  <2> DEFINE n == [Idle EXCEPT !.pc = "round", !.judge = installed]
  <2>2. n \in Search /\ n.pc = "round"
    BY <2>1, IdleIsFine DEF Search
  <2>3. n.rounds < MaxRounds
    BY JudgesAssumption DEF Idle
  <2> HIDE DEF n
  <2> QED BY <1>1, <2>1, <2>2, <2>3, OneThread DEF Begin, n
<1>2. CASE Judge(t)
  <2>1. PICK results \in BOOLEAN :
          Set(t, [s EXCEPT !.pc = IF s.judge = 0 THEN "geometric" ELSE "call",
                           !.rounds = s.rounds + 1, !.results = results])
    BY <1>2 DEF Judge
  <2> DEFINE n == [s EXCEPT !.pc = IF s.judge = 0 THEN "geometric" ELSE "call",
                            !.rounds = s.rounds + 1, !.results = results]
  <2>2. s.rounds < MaxRounds
    BY <1>0, <1>2 DEF Fine, Underway, Judge, At
  <2>3. n \in Search
    <3>1. s.rounds + 1 \in 0..MaxRounds
      BY <1>0, <2>2
    <3> QED BY <1>0, <3>1 DEF Search
  <2>4. /\ n.pc = IF s.judge = 0 THEN "geometric" ELSE "call"
        /\ n.judge = s.judge
    BY <1>0 DEF Search
  <2>5. /\ n.pc \in {"call", "mark", "ask"} => n.judge # 0
        /\ n.pc \notin {"round", "ask", "judged"}
    BY <2>4
  <2>6. Set(t, n) /\ UNCHANGED <<installed, made, available>>
    BY <1>2, <2>1 DEF Judge
  <2>7. (n.alone /\ n.judge # 0) => n.pc # "geometric"
    BY <2>4
  <2>8. made' \in 0..MaxKeys /\ installed' \in 0..MaxKeys
    BY <2>6 DEF IInv, TypeOK
  <2> HIDE DEF n
  <2> QED BY <2>3, <2>5, <2>6, <2>7, <2>8, OneThread
<1>3. CASE CallApi(t)
  <2>1. PICK answer \in Answers : Set(t, [s EXCEPT !.pc = "mark", !.answer = answer])
    BY <1>3 DEF CallApi
  <2> DEFINE n == [s EXCEPT !.pc = "mark", !.answer = answer]
  <2>2. n \in Search /\ n.pc = "mark" /\ n.judge # 0
    BY <1>0, <1>3 DEF Search, CallApi, Fine, Underway, At
  <2> HIDE DEF n
  <2> QED BY <1>3, <2>1, <2>2, OneThread DEF CallApi, n, IInv, TypeOK
<1>4. CASE CallRaises(t)
  BY <1>4, OneThread, IdleIsFine DEF CallRaises, Idle, IInv, TypeOK
<1>5. CASE AskAvailable(t)
  <2>1. CASE available[s.judge]
    <3> DEFINE n == [s EXCEPT !.pc = "judged", !.verdict = Parsed(s.answer)]
    <3>1. /\ n \in Search /\ n.pc = "judged" /\ n.judge = s.judge /\ n.alone = s.alone
          /\ n.answer = s.answer /\ n.verdict = Parsed(s.answer)
      BY <1>0, VerdictsAreVerdicts DEF Search
    <3>2. (n.alone /\ n.judge # 0) => Real(n.answer)
      BY <1>0, <1>5, <2>1, <3>1 DEF AskAvailable, Fine, FlagIsOwn
    <3>3. n.verdict.by = "jev"
      BY <3>1 DEF Parsed
    <3>4. Set(t, n)
      BY <1>5, <2>1 DEF AskAvailable, Answer
    <3> HIDE DEF n
    <3> QED BY <1>5, <3>1, <3>2, <3>3, <3>4, OneThread DEF AskAvailable, IInv, TypeOK
  <2>2. CASE ~available[s.judge]
    <3> DEFINE n == [s EXCEPT !.pc = "geometric"]
    <3>1. /\ n \in Search /\ n.pc = "geometric" /\ n.judge = s.judge /\ n.alone = s.alone
          /\ n.answer = s.answer
      BY <1>0 DEF Search
    <3>2. (n.alone /\ n.judge # 0) => ~Real(n.answer)
      BY <1>0, <1>5, <2>2, <3>1 DEF AskAvailable, Fine, FlagIsOwn
    <3>3. Set(t, n)
      BY <1>5, <2>2 DEF AskAvailable
    <3> HIDE DEF n
    <3> QED BY <1>5, <3>1, <3>2, <3>3, OneThread DEF AskAvailable, IInv, TypeOK
  <2> QED BY <2>1, <2>2
<1>6. CASE JudgeGeometrically(t)
  <2>1. PICK v \in Geometric(s.results) : Set(t, [s EXCEPT !.pc = "judged", !.verdict = v])
    BY <1>6 DEF JudgeGeometrically, Answer
  <2> DEFINE n == [s EXCEPT !.pc = "judged", !.verdict = v]
  <2>2. /\ n \in Search /\ n.pc = "judged" /\ n.judge = s.judge /\ n.alone = s.alone
        /\ n.answer = s.answer /\ n.results = s.results /\ n.verdict = v
    BY <1>0, VerdictsAreVerdicts DEF Search
  <2>3. n.verdict.by = "geometric"
    BY <1>0, <2>2, VerdictsAreVerdicts
  <2>4. (n.alone /\ n.judge # 0) => ~Real(n.answer)
    BY <1>0, <1>6, <2>2 DEF JudgeGeometrically, Fine, FlagIsOwn
  <2> HIDE DEF n
  <2> QED BY <1>6, <2>1, <2>2, <2>3, <2>4, OneThread DEF JudgeGeometrically, n, IInv, TypeOK
<1>7. CASE Take(t)
  <2>1. CASE /\ s.rounds < MaxRounds
             /\ Set(t, [Idle EXCEPT !.pc = "round", !.judge = s.judge, !.rounds = s.rounds])
    <3> DEFINE n == [Idle EXCEPT !.pc = "round", !.judge = s.judge, !.rounds = s.rounds]
    <3>1. n \in Search /\ n.pc = "round" /\ n.rounds = s.rounds
      BY <1>0, IdleIsFine DEF Search
    <3> HIDE DEF n
    <3> QED BY <1>7, <2>1, <3>1, OneThread DEF Take, n, IInv, TypeOK
  <2>2. CASE Set(t, Idle)
    BY <1>7, <2>2, OneThread, IdleIsFine DEF Take, Idle, IInv, TypeOK
  <2> QED BY <1>7, <2>1, <2>2 DEF Take
<1> QED BY <1>1, <1>2, <1>3, <1>4, <1>5, <1>6, <1>7

LEMMA SetKeyKeeps ==
  ASSUME IInv, SetKey
  PROVE  IInv'
<1>1. TypeOK'
  BY JudgesAssumption DEF IInv, TypeOK, SetKey
<1>2. ASSUME NEW t \in Threads PROVE Fine(t)'
  BY DEF IInv, SetKey, Fine, Underway, FlagIsOwn, VerdictIsOwn, At
<1> QED BY <1>1, <1>2 DEF IInv

LEMMA Invariance == Spec => []IInv
<1>1. IInv /\ [Next]_vars => IInv'
  <2> SUFFICES ASSUME IInv, [Next]_vars PROVE IInv'
    OBVIOUS
  <2>1. CASE SetKey
    BY <2>1, SetKeyKeeps
  <2>2. ASSUME NEW t \in Threads, Mark(t) PROVE IInv'
    BY <2>2, MarkKeeps
  <2>3. ASSUME NEW t \in Threads,
               \/ Begin(t) \/ Judge(t) \/ CallApi(t) \/ CallRaises(t)
               \/ AskAvailable(t) \/ JudgeGeometrically(t) \/ Take(t)
        PROVE  IInv'
    BY <2>3, ThreadKeeps
  <2>4. CASE UNCHANGED vars
    BY <2>4 DEF vars, IInv, TypeOK, Fine, Underway, FlagIsOwn, VerdictIsOwn, At
  <2> QED BY <2>1, <2>2, <2>3, <2>4 DEF Next
<1> QED BY Start, <1>1, PTL DEF Spec

-----------------------------------------------------------------------------------
(* The theorems.                                                           *)

\* A search always has a judge that was made, a verdict of one of the judges, and no more
\* rounds than its strategy allows.
THEOREM TypeCorrect == Spec => []TypeOK
BY Invariance, PTL DEF IInv

\* However threads share a judge and a key replaces it, the geometric judge steps in when
\* and only when Jev could not answer a thread nobody has disturbed.
THEOREM FallbackIsForTheUnreachable == Spec => []FallsBackWhenUnreachable
<1>1. IInv => FallsBackWhenUnreachable
  BY DEF IInv, Fine, FlagIsOwn, FallsBackWhenUnreachable
<1> QED BY <1>1, Invariance, PTL

\* ... and even a disturbed one ends its search only on a number Jev gave it, or on results.
THEOREM OnlyVerdictsSuffice == Spec => []NothingSuffices
<1>1. ASSUME IInv, NEW t \in Threads, At(t, "judged"), ~search[t].verdict.expand
      PROVE  /\ search[t].verdict.confidence >= Half
             /\ \/ search[t].verdict.by = "jev" /\ search[t].answer = search[t].verdict.confidence
                \/ search[t].verdict.by = "geometric" /\ search[t].results
  <2>1. search[t].answer \in Answers /\ search[t].results \in BOOLEAN
    BY <1>1 DEF IInv, TypeOK, Search
  <2>2. CASE search[t].verdict = Parsed(search[t].answer)
    BY <1>1, <2>1, <2>2, VerdictsAreVerdicts DEF Parsed
  <2>3. CASE search[t].verdict \in Geometric(search[t].results)
    BY <1>1, <2>1, <2>3, VerdictsAreVerdicts
  <2> QED BY <1>1, <2>2, <2>3 DEF IInv, Fine, VerdictIsOwn
<1>2. IInv => NothingSuffices
  BY <1>1 DEF NothingSuffices
<1> QED BY <1>2, Invariance, PTL

===================================================================================
