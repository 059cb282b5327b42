---------------------------------- MODULE Judges ----------------------------------
(***************************************************************************)
(* The judges of a server's recalls (lulu_router/judges): FallbackJudge    *)
(* over Jev and the geometric judge, one object shared by every thread     *)
(* that searches, and replaced while they do (set_jev_api_key).            *)
(*                                                                         *)
(* What Jev's API answers and what the geometric judge makes of the scores *)
(* is free: MemoryRouter, whose JudgeRound asks, is checked with any       *)
(* verdict.  A confidence is a level; Half is where "sufficient" begins.   *)
(***************************************************************************)
EXTENDS Naturals

CONSTANTS
  Threads,
  Levels, Half,   \* confidences, and the 0.5 of both judges
  Malformed,      \* an answer without a number where it is expected
  NoAnswer,       \* _call_api returned None
  MaxKeys,        \* bound: the judges made
  MaxRounds       \* bound: the rounds judged in one search

ASSUME JudgesAssumption ==
  /\ Levels \subseteq Nat /\ 0 \in Levels /\ Half \in Levels \ {0}
  /\ Malformed \notin Levels /\ NoAnswer \notin Levels
  /\ MaxKeys \in Nat \ {0} /\ MaxRounds \in Nat \ {0}

VARIABLES
  installed,   \* memory.judge: 0 a geometric judge, n the n-th Jev with a fallback
  made,        \* Jevs made so far
  available,   \* JevJudge.available, of each Jev
  search       \* what each thread's search is doing

vars == <<installed, made, available, search>>

Jevs == 1..MaxKeys
Answers == Levels \cup {Malformed, NoAnswer}
Verdict == [confidence : Levels, expand : BOOLEAN, by : {"jev", "geometric", "nobody"}]
NoVerdict == [confidence |-> 0, expand |-> TRUE, by |-> "nobody"]

\* verdict is the last one; alone says that nobody else marked the judge since this
\* thread did (history).
Idle == [pc |-> "idle", judge |-> 0, rounds |-> 0, results |-> FALSE, answer |-> NoAnswer,
         verdict |-> NoVerdict, alone |-> TRUE]

At(t, pc) == search[t].pc = pc
Set(t, record) == search' = [search EXCEPT ![t] = record]

\* _has_real_verdict: the answer is a number where one is expected.
Real(answer) == answer \in Levels

\* Mutant of Parsed: what is not a number is taken for an answer that is enough.
ParsedLeniently(answer) ==
  [confidence |-> IF Real(answer) THEN answer ELSE 0,
   expand     |-> Real(answer) /\ answer < Half,
   by         |-> "jev"]

\* JevJudge._parse: anything unreal says "keep expanding".
Parsed(answer) ==
  [confidence |-> IF Real(answer) THEN answer ELSE 0,
   expand     |-> ~Real(answer) \/ answer < Half,
   by         |-> "jev"]

\* GeometricJudge.judge: sigmoid(gap) x coverage, nothing if there are no results.
Geometric(results) ==
  IF results THEN {[confidence |-> c, expand |-> c < Half, by |-> "geometric"] : c \in Levels}
             ELSE {[confidence |-> 0, expand |-> TRUE, by |-> "geometric"]}

\* With a key in the environment default_judge makes a Jev, otherwise not.
Init ==
  /\ installed \in {0, 1}
  /\ made = installed
  /\ available = [j \in Jevs |-> TRUE]
  /\ search = [t \in Threads |-> Idle]

\* MemoryStore.search: the router has the judge that is installed now, for all its rounds.
Begin(t) ==
  /\ At(t, "idle")
  /\ Set(t, [Idle EXCEPT !.pc = "round", !.judge = installed])
  /\ UNCHANGED <<installed, made, available>>

\* judge.judge(), with the results so far.
Judge(t) ==
  /\ At(t, "round")
  /\ \E results \in BOOLEAN :
       Set(t, [search[t] EXCEPT !.pc = IF search[t].judge = 0 THEN "geometric" ELSE "call",
                                !.rounds = @ + 1, !.results = results])
  /\ UNCHANGED <<installed, made, available>>

\* _call_api: an answer, or None for whatever it catches (a time-out among them).
CallApi(t) ==
  /\ At(t, "call")
  /\ \E answer \in Answers : Set(t, [search[t] EXCEPT !.pc = "mark", !.answer = answer])
  /\ UNCHANGED <<installed, made, available>>

\* ... or an exception it does not catch: the search is lost.
CallRaises(t) ==
  /\ At(t, "call")
  /\ Set(t, Idle)
  /\ UNCHANGED <<installed, made, available>>

\* Mutant of Marked: once unreachable, unreachable.
MarkedForGood(before, answer) == before /\ Real(answer)

Marked(before, answer) == Real(answer)

\* self.available = _has_real_verdict(answer), for every thread that asks afterwards.
Mark(t) ==
  LET j == search[t].judge
      met(u) == At(u, "ask") /\ search[u].judge = j
  IN
  /\ At(t, "mark")
  /\ available' = [available EXCEPT ![j] = Marked(@, search[t].answer)]
  /\ search' = [u \in Threads |->
       IF u = t THEN [search[u] EXCEPT !.pc = "ask", !.alone = TRUE]
                ELSE [search[u] EXCEPT !.alone = @ /\ ~met(u)]]
  /\ UNCHANGED <<installed, made>>

Answer(t, verdict) == Set(t, [search[t] EXCEPT !.pc = "judged", !.verdict = verdict])

\* FallbackJudge: the flag is whoever marked it last.
AskAvailable(t) ==
  /\ At(t, "ask")
  /\ IF available[search[t].judge] THEN Answer(t, Parsed(search[t].answer))
                                   ELSE Set(t, [search[t] EXCEPT !.pc = "geometric"])
  /\ UNCHANGED <<installed, made, available>>

JudgeGeometrically(t) ==
  /\ At(t, "geometric")
  /\ \E verdict \in Geometric(search[t].results) : Answer(t, verdict)
  /\ UNCHANGED <<installed, made, available>>

\* The strategy takes the verdict: another round if it says so, or the search is over.
Take(t) ==
  /\ At(t, "judged")
  /\ \/ /\ search[t].verdict.expand /\ search[t].rounds < MaxRounds
        /\ Set(t, [Idle EXCEPT !.pc = "round", !.judge = search[t].judge, !.rounds = search[t].rounds])
     \/ Set(t, Idle)
  /\ UNCHANGED <<installed, made, available>>

\* set_jev_api_key: memory.judge = default_judge()
SetKey ==
  /\ made < MaxKeys
  /\ made' = made + 1
  /\ installed' = made + 1
  /\ UNCHANGED <<available, search>>

Next == \/ SetKey
        \/ \E t \in Threads : \/ Begin(t) \/ Judge(t) \/ CallApi(t) \/ CallRaises(t) \/ Mark(t)
                             \/ AskAvailable(t) \/ JudgeGeometrically(t) \/ Take(t)

Spec == Init /\ [][Next]_vars

-----------------------------------------------------------------------------------
(* Properties.                                                             *)

\* fallback.py: the fallback is asked when Jev could not reach a verdict and not when it
\* reached one, whatever it was, unless another thread's call on the same judge came
\* between the call and the question.
FallsBackWhenUnreachable ==
  \A t \in Threads : (At(t, "judged") /\ search[t].judge # 0 /\ search[t].alone) =>
    search[t].verdict.by = IF Real(search[t].answer) THEN "jev" ELSE "geometric"

\* jev.py: an unavailable judge does not look like a confident "sufficient".  Even with the
\* flag of another thread's call, a search stops only on a number Jev gave for this very
\* query, or on the scores of results it has.
NothingSuffices ==
  \A t \in Threads : (At(t, "judged") /\ ~search[t].verdict.expand) =>
    /\ search[t].verdict.confidence >= Half
    /\ \/ search[t].verdict.by = "jev" /\ search[t].answer = search[t].verdict.confidence
       \/ search[t].verdict.by = "geometric" /\ search[t].results

===================================================================================
