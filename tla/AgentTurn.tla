-------------------------------- MODULE AgentTurn ---------------------------------
(***************************************************************************)
(* Turns of one session: AgentLoop.run_turn (lulu/loop.py), the JSONL      *)
(* session log it is replayed from and appended to (lulu/session.py), the  *)
(* permissions log, the memory, and the shell commands of the bash tool    *)
(* (lulu/tools/bash_tool.py).                                              *)
(*                                                                         *)
(* A worker is a lulu process on the session (one prompt, or a REPL that   *)
(* keeps its history in memory) or a request to lulu-server; several may   *)
(* be on one session.  The model, the human and the tools are free to      *)
(* answer anything.  Messages carry which turn and iteration they belong   *)
(* to instead of their text.                                               *)
(***************************************************************************)
EXTENDS Permissions, Naturals, SequencesExt

CONSTANTS
  Workers,
  MaxTurns,       \* bound: the turns started
  MaxCalls,       \* bound: the tool calls of one model response
  MaxIterations,  \* max_iterations
  Modes,          \* the attention modes in use
  Tools,          \* the tools the model calls
  NoUsage, None

ASSUME TurnAssumption ==
  /\ MaxTurns \in Nat /\ MaxCalls \in Nat /\ MaxIterations \in Nat
  /\ Modes \subseteq AttentionModes
  /\ NoUsage \notin (1..MaxTurns) \X (1..MaxIterations)
  /\ None \notin (1..MaxTurns) \X (1..MaxIterations)

Turns == 1..MaxTurns
Outcomes == {"auto_allowed", "auto_denied", "approved", "denied"}
CallIds == Turns \X (1..MaxIterations) \X (1..MaxCalls)

\* Usages are named after the response they came with.
Usages == Turns \X (1..MaxIterations)

\* The user's prompt (iteration 0), a model response and the results of its calls.
\* "ran" stands for whatever dispatch() returned, an error result included.
Message == [turn    : Turns,
            iter    : 0..MaxIterations,
            kind    : {"prompt", "reply", "results"},
            text    : BOOLEAN,
            calls   : 0..MaxCalls,
            results : Seq({"ran", "refused"}),
            usage   : Usages \cup {NoUsage}]

\* A line that a crash left half-written; open while nothing was appended after it.
Torn == [kind |-> "torn", open |-> TRUE]
Merged == [kind |-> "torn", open |-> FALSE]

VARIABLES
  worker,   \* what each worker is doing
  file,     \* the session's JSONL log
  log,      \* permissions.jsonl: call -> the outcomes recorded for it
  effects,  \* the calls handed to a tool, and whether an escalation applied
  commands, \* the calls whose shell command, or a process it left behind, is running
  memory,   \* what was written to memory: for which turn, with the text of which response
  turns,    \* turns started so far
  lost,     \* history: turns that died before they were wholly recorded
  mixed     \* history: somebody appended or started in the middle of another's append,
            \* or one died there

vars == <<worker, file, log, effects, commands, memory, turns, lost, mixed>>

\* pc "ready": a REPL between turns.  base: messages_before.  pending: the usages left.
Idle == [pc |-> "idle", turn |-> 0, iter |-> 0, messages |-> <<>>, base |-> 0,
         usages |-> <<>>, results |-> <<>>, tool |-> None, escalated |-> FALSE]

At(w, pc) == worker[w].pc = pc
Busy(w) == worker[w].pc \notin {"idle", "ready"}
Set(w, record) == worker' = [worker EXCEPT ![w] = record]

Prompt(t) == [turn |-> t, iter |-> 0, kind |-> "prompt", text |-> TRUE,
              calls |-> 0, results |-> <<>>, usage |-> NoUsage]

\* The call being executed: the one after those with a result.
Current(w) == <<worker[w].turn, worker[w].iter, Len(worker[w].results) + 1>>

-----------------------------------------------------------------------------------
(* session.py                                                              *)

\* load_history: a torn line does not parse.  Usages are not part of a Message.
Loadable == \A i \in DOMAIN file : file[i].kind # "torn"
Loaded == [i \in DOMAIN file |-> [file[i] EXCEPT !.usage = NoUsage]]

\* append_message: a torn line has no end, the next one runs into it.
Appended(lines, line) ==
  IF lines = <<>> \/ Last(lines) # Torn THEN Append(lines, line)
  ELSE IF line = Torn THEN lines ELSE Append(Front(lines), Merged)

-----------------------------------------------------------------------------------
(* loop.py                                                                 *)

\* Mutant of LoopsOn: one response too many.
LoopsOnce(iter) == iter <= MaxIterations

\* for i in range(self.max_iterations)
LoopsOn(iter) == iter < MaxIterations

Said(messages) == {i \in DOMAIN messages : messages[i].kind = "reply" /\ messages[i].text}

\* Mutant of LastText: the first text of the conversation.
FirstText(messages) ==
  IF Said(messages) = {} THEN None ELSE LET i == Min(Said(messages)) IN <<messages[i].turn, messages[i].iter>>

\* _last_assistant_text: the response whose text it is, None for an empty text.
LastText(messages) ==
  IF Said(messages) = {} THEN None ELSE LET i == Max(Said(messages)) IN <<messages[i].turn, messages[i].iter>>

\* Mutant of Unwritten: the prompt is taken for a part of the history.
UnwrittenReplies(w) == SubSeq(worker[w].messages, worker[w].base + 2, Len(worker[w].messages))

\* Of the turn's messages, those append_turn_result has not written yet.
Unwritten(w) == SubSeq(worker[w].messages, worker[w].base + 1, Len(worker[w].messages))

\* Part of the turn's messages are in the log, and part are not.
HalfWritten(w) == At(w, "append") /\ worker[w].messages[worker[w].base + 1].kind # "prompt"

Init ==
  /\ worker = [w \in Workers |-> Idle]
  /\ file = <<>>
  /\ log = [c \in CallIds |-> <<>>]
  /\ effects = {}
  /\ commands = {}
  /\ memory = {}
  /\ turns = 0
  /\ lost = {}
  /\ mixed = FALSE

\* A turn starts from the session log, or from what a REPL remembers of the session.
\* memory.search() happens here: it answers or raises, see Die.
Start(w) ==
  /\ ~Busy(w)
  /\ At(w, "idle") => Loadable
  /\ turns < MaxTurns
  /\ turns' = turns + 1
  /\ LET history == IF At(w, "idle") THEN Loaded ELSE worker[w].messages IN
     Set(w, [Idle EXCEPT !.pc = IF LoopsOn(0) THEN "model" ELSE "remember",
                         !.turn = turns + 1,
                         !.messages = Append(history, Prompt(turns + 1)),
                         !.base = Len(history)])
  /\ mixed' = (mixed \/ \E v \in Workers : HalfWritten(v))
  /\ UNCHANGED <<file, log, commands, effects, memory, lost>>

\* model.complete(): a response with some text or none and some calls or none.
Complete(w, text, calls) ==
  LET self == worker[w]
      i    == self.iter + 1
      reply == [turn |-> self.turn, iter |-> i, kind |-> "reply", text |-> text,
                calls |-> calls, results |-> <<>>, usage |-> NoUsage]
  IN
  /\ At(w, "model")
  /\ Set(w, [self EXCEPT !.pc = IF calls = 0 THEN "remember" ELSE "check",
                         !.iter = i,
                         !.messages = Append(@, reply),
                         !.usages = Append(@, <<self.turn, i>>),
                         !.results = <<>>])
  /\ UNCHANGED <<file, log, commands, effects, memory, turns, lost, mixed>>

\* _execute returned: the next call, or all results in one message and the next round.
Answered(w, result) ==
  LET self    == worker[w]
      results == Append(self.results, result)
      message == [turn |-> self.turn, iter |-> self.iter, kind |-> "results", text |-> FALSE,
                  calls |-> 0, results |-> results, usage |-> NoUsage]
  IN
  IF Len(results) < Last(self.messages).calls
    THEN Set(w, [self EXCEPT !.pc = "check", !.results = results, !.tool = None, !.escalated = FALSE])
    ELSE Set(w, [self EXCEPT !.pc = IF LoopsOn(self.iter) THEN "model" ELSE "remember",
                             !.messages = Append(@, message),
                             !.results = <<>>,
                             !.tool = None,
                             !.escalated = FALSE])

\* Mutant of Logged: what is allowed needs no record.
LoggedIfDenied(w, outcome) ==
  IF outcome = "auto_allowed" THEN UNCHANGED log
  ELSE log' = [log EXCEPT ![Current(w)] = Append(@, outcome)]

Logged(w, outcome) == log' = [log EXCEPT ![Current(w)] = Append(@, outcome)]

\* permissions.check() and what needs no human: a denied call is answered, an allowed one
\* goes on to the tool.  The mode is read now: set_mode may have changed it.
Check(w, tool, flagged, contested) ==
  /\ At(w, "check")
  /\ \E mode \in Modes :
       LET decision == Decide(mode, tool, flagged, contested)
           judged   == [worker[w] EXCEPT !.tool = tool, !.escalated = flagged \/ contested]
       IN
       \/ /\ decision = "deny"
          /\ Logged(w, "auto_denied")
          /\ Answered(w, "refused")
       \/ /\ decision = "ask"
          /\ Set(w, [judged EXCEPT !.pc = "ask"])
          /\ UNCHANGED log
       \/ /\ decision = "allow"
          /\ Logged(w, "auto_allowed")
          /\ Set(w, [judged EXCEPT !.pc = "dispatch"])
  /\ UNCHANGED <<file, commands, effects, memory, turns, lost, mixed>>

Approve(w) ==
  /\ At(w, "ask")
  /\ Logged(w, "approved")
  /\ Set(w, [worker[w] EXCEPT !.pc = "dispatch"])
  /\ UNCHANGED <<file, commands, effects, memory, turns, lost, mixed>>

\* Mutant of Refuse: a refusal ends the round, the call gets no result.
RefuseAborts(w) ==
  /\ At(w, "ask")
  /\ Logged(w, "denied")
  /\ Set(w, [worker[w] EXCEPT !.pc = IF LoopsOn(worker[w].iter) THEN "model" ELSE "remember"])
  /\ UNCHANGED <<file, commands, effects, memory, turns, lost, mixed>>

\* The human says no, or there is none to ask (server_ask_human).
Refuse(w) ==
  /\ At(w, "ask")
  /\ Logged(w, "denied")
  /\ Answered(w, "refused")
  /\ UNCHANGED <<file, commands, effects, memory, turns, lost, mixed>>

\* registry.dispatch(): never raises.  A shell command is started, or cannot be; any other
\* call is answered.
Dispatch(w) ==
  /\ At(w, "dispatch")
  /\ effects' = effects \cup {[call |-> Current(w), escalated |-> worker[w].escalated]}
  /\ \/ /\ worker[w].tool = "bash"
        /\ Set(w, [worker[w] EXCEPT !.pc = "running"])
        /\ commands' = commands \cup {Current(w)}
     \/ /\ Answered(w, "ran")
        /\ UNCHANGED commands
  /\ UNCHANGED <<file, log, memory, turns, lost, mixed>>

\* The shell ends; a process it has put in the background may stay.
Exit(w) ==
  /\ At(w, "running")
  /\ Answered(w, "ran")
  /\ commands' \in {commands, commands \ {Current(w)}}
  /\ UNCHANGED <<file, log, effects, memory, turns, lost, mixed>>

\* Mutant of Waits: no timeout.
WaitsForever(w) == At(w, "running") /\ Current(w) \notin commands

\* timeout=timeout_s, which is at most MAX_TIMEOUT_S
Waits(w) == At(w, "running")

\* TimeoutExpired: the shell is killed and the call answered, the processes of the command
\* are not.  (subprocess.run on a POSIX system.)
Expire(w) ==
  /\ Waits(w)
  /\ Answered(w, "ran")
  /\ commands' \in {commands, commands \ {Current(w)}}
  /\ UNCHANGED <<file, log, effects, memory, turns, lost, mixed>>

\* A process nobody waits for any more ends.
EndCommand(c) ==
  /\ c \in commands
  /\ \A w \in Workers : At(w, "running") => Current(w) # c
  /\ commands' = commands \ {c}
  /\ UNCHANGED <<worker, file, log, effects, memory, turns, lost, mixed>>

\* The turn's end: what the memory is given.
Remember(w) ==
  LET text == LastText(worker[w].messages) IN
  /\ At(w, "remember")
  /\ memory' = IF text = None THEN memory
               ELSE memory \cup {[turn |-> worker[w].turn, text |-> text]}
  /\ Set(w, [worker[w] EXCEPT !.pc = "append"])
  /\ UNCHANGED <<file, log, commands, effects, turns, lost, mixed>>

\* Mutant of UsageFor: every message takes one.
UsageForEach(message, usages) == IF usages = <<>> THEN NoUsage ELSE Head(usages)

\* Each Usage goes to the assistant message that produced it, in call order.
UsageFor(message, usages) ==
  IF message.kind = "reply" /\ usages # <<>> THEN Head(usages) ELSE NoUsage

\* append_turn_result, one message: base moves past it.
AppendMessage(w) ==
  LET self    == worker[w]
      message == Head(Unwritten(w))
      usage   == UsageFor(message, self.usages)
      rest    == IF usage = NoUsage THEN self.usages ELSE Tail(self.usages)
  IN
  /\ At(w, "append")
  /\ file' = Appended(file, [message EXCEPT !.usage = usage])
  /\ mixed' = (mixed \/ \E v \in Workers \ {w} : HalfWritten(v))
  /\ IF Len(Unwritten(w)) > 1
       THEN Set(w, [self EXCEPT !.base = @ + 1, !.usages = rest])
       ELSE \/ Set(w, Idle)
            \/ Set(w, [Idle EXCEPT !.pc = "ready", !.messages = self.messages])
  /\ UNCHANGED <<log, commands, effects, memory, turns, lost>>

\* The process dies, or the model client or the memory raises: the turn is gone.  A death
\* during an append may leave half a line.
Die(w) ==
  /\ Busy(w)
  /\ Set(w, Idle)
  /\ lost' = lost \cup {worker[w].turn}
  /\ file' \in {file} \cup (IF At(w, "append") THEN {Appended(file, Torn)} ELSE {})
  /\ mixed' = (mixed \/ HalfWritten(w) \/ (file' # file /\ \E v \in Workers : HalfWritten(v)))
  /\ UNCHANGED <<log, commands, effects, memory, turns>>

\* A REPL is closed.
Quit(w) ==
  /\ At(w, "ready")
  /\ Set(w, Idle)
  /\ UNCHANGED <<file, log, commands, effects, memory, turns, lost, mixed>>

\* The part of run_turn that goes on by itself: the model, the human and every tool but the
\* shell answer, and the shell's time runs out.
Proceed(w) ==
  \/ \E text \in BOOLEAN, calls \in 0..MaxCalls : Complete(w, text, calls)
  \/ \E tool \in Tools :
       \E flagged \in Flags(tool), contested \in Contests(tool) : Check(w, tool, flagged, contested)
  \/ Approve(w)
  \/ Refuse(w)
  \/ Dispatch(w)
  \/ Expire(w)
  \/ Remember(w)
  \/ AppendMessage(w)

Next ==
  \/ \E w \in Workers : Start(w) \/ Proceed(w) \/ Exit(w) \/ Die(w) \/ Quit(w)
  \/ \E c \in commands : EndCommand(c)

\* A model or a human that is asked answers some time.  A shell command need not end.
Spec == Init /\ [][Next]_vars /\ \A w \in Workers : WF_vars(Proceed(w))

-----------------------------------------------------------------------------------
(* Properties.                                                             *)

\* The turns, the session log, the permissions log and the memory have their shapes, and
\* no turn asks the model more often than max_iterations.
TypeOK ==
  /\ \A w \in Workers :
       /\ worker[w].pc \in {"idle", "ready", "model", "check", "ask", "dispatch", "running", "remember", "append"}
       /\ worker[w].turn \in 0..turns /\ worker[w].iter \in 0..MaxIterations
       /\ worker[w].messages \in Seq(Message) /\ worker[w].base \in 0..Len(worker[w].messages)
       /\ worker[w].usages \in Seq(Usages) /\ worker[w].results \in Seq({"ran", "refused"})
       /\ worker[w].tool \in Tools \cup {None} /\ worker[w].escalated \in BOOLEAN
  /\ file \in Seq(Message \cup {Torn, Merged})
  /\ log \in [CallIds -> Seq(Outcomes)]
  /\ effects \subseteq [call : CallIds, escalated : BOOLEAN]
  /\ commands \subseteq {e.call : e \in effects}
  /\ memory \subseteq [turn : Turns, text : Usages]
  /\ turns \in 0..MaxTurns /\ lost \subseteq 1..turns /\ mixed \in BOOLEAN

\* r is the message with the results of every call in m.
Answers(m, r) == /\ r.kind = "results" /\ r.turn = m.turn /\ r.iter = m.iter
                 /\ Len(r.results) = m.calls

Calling(m) == m.kind = "reply" /\ m.calls > 0

\* Every response with calls is followed by the results of its calls, in one message.
Paired(lines) ==
  \A i \in DOMAIN lines : Calling(lines[i]) => i < Len(lines) /\ Answers(lines[i], lines[i + 1])

\* A provider takes a conversation only if every tool call is answered at once.  The
\* model is never sent anything else, and the log of a session never holds anything else
\* than a turn half appended, unless workers of the session meddle in an append or die in
\* the middle of one.
PairedUnlessMixed ==
  mixed \/ /\ \A w \in Workers : At(w, "model") => Paired(worker[w].messages)
           /\ \/ Paired(file)
              \/ /\ Paired(Front(file))
                 /\ \E w \in Workers : HalfWritten(w) /\ worker[w].turn = Last(file).turn

\* The lines of a turn among these: kept[i] are those of the first i.
LinesOf(lines, t) ==
  LET kept[i \in 0..Len(lines)] ==
        IF i = 0 THEN <<>>
        ELSE IF lines[i].kind # "torn" /\ lines[i].turn = t THEN Append(kept[i - 1], lines[i])
        ELSE kept[i - 1]
  IN  kept[Len(lines)]

\* The lines of a turn in the log.
Lines(t) == LinesOf(file, t)

\* A turn from its prompt to a response without calls or to max_iterations.
Whole(lines) ==
  /\ lines # <<>> /\ Head(lines).kind = "prompt"
  /\ \A i \in 2..Len(lines) :
       IF i % 2 = 0 THEN lines[i].kind = "reply" /\ lines[i].iter = i \div 2
                    ELSE Answers(lines[i - 1], lines[i])
  /\ \/ Last(lines).kind = "reply" /\ Last(lines).calls = 0
     \/ Last(lines).kind # "reply" /\ Last(lines).iter = MaxIterations

\* append_turn_result writes the new messages and no others: once a turn is over the log
\* holds all of it, in order and once, however many workers append in between.
TurnsAreRecordedWhole ==
  \A t \in 1..turns :
    (Loadable /\ t \notin lost /\ \A w \in Workers : Busy(w) => worker[w].turn # t)
      => Whole(Lines(t))

\* What the memory is told of a turn is its answer: of a turn on record, its own last text,
\* if it has one, once and whatever came before or meanwhile.  (A turn that said nothing is
\* remembered with the last text of the conversation before it, if there is one.)
RemembersTheAnswer ==
  \A t \in 1..turns :
    (Loadable /\ t \notin lost /\ \A w \in Workers : Busy(w) => worker[w].turn # t) =>
      LET remembered == {m.text : m \in {m \in memory : m.turn = t}} IN
      IF Said(Lines(t)) # {} THEN remembered = {LastText(Lines(t))}
      ELSE /\ Cardinality(remembered) <= 1
           /\ \A text \in remembered : text[1] < t

\* Each assistant message is recorded with the usage of the model call that made it.
UsageIsItsOwn ==
  \A i \in DOMAIN file : file[i].kind # "torn" =>
    file[i].usage = IF file[i].kind = "reply" THEN <<file[i].turn, file[i].iter>> ELSE NoUsage

\* permissions.jsonl accounts for everything done (AuditedCalls): a tool is given a call
\* once and only after the one record of that call says it may, and a record stands,
\* whatever crashes in between.
Audited == INSTANCE AuditedCalls WITH
  Calls  <- CallIds,
  record <- [c \in CallIds |-> CASE log[c] = <<>>     -> "none"
                                [] Len(log[c]) = 1 -> log[c][1]
                                [] OTHER           -> "twice"],
  ran    <- {e.call : e \in effects}

ImplementsAuditedCalls == Audited!Spec

\* A flagged command or a write to a contested file never runs without a human's yes, in
\* any mode and under any change of mode.
EscalationsNeedAHuman ==
  \A e \in effects : e.escalated => log[e.call] = <<"approved">>

\* A turn cannot hang the harness: it ends, as long as the model and the human answer,
\* however many responses call for more and whatever command never ends.
TurnsEnd == \A w \in Workers : Busy(w) ~> ~Busy(w)

==================================================================================
