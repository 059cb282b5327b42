--------------------------------- MODULE Inspector --------------------------------
(***************************************************************************)
(* The inspector (apps/inspector): one window over lulu-server.  Clicks    *)
(* send requests that are handled and answered in any order, or get lost,  *)
(* and each answer changes what is on display when it comes.               *)
(*                                                                         *)
(* The server is a step per request here, LuluServer has its inside.  A    *)
(* history is its number of turns.  The profile is set as the mode is, the *)
(* cost and the lists are fetched as the history is: only the mode and the *)
(* history are kept.  react-query is external, as App.tsx uses it.         *)
(***************************************************************************)
EXTENDS Naturals, Sequences

CONSTANTS
  Modes, ServerMode,  \* DEFAULT_SERVER_MODE, one of the modes
  MaxSessions,        \* bound: the sessions made
  MaxClicks,          \* bound: what the user does
  None

ASSUME InspectorAssumption ==
  /\ ServerMode \in Modes /\ MaxSessions \in Nat \ {0} /\ MaxClicks \in Nat
  /\ None \notin Nat \cup Modes

VARIABLES
  server,     \* the sessions there: their mode and the turns in their log
  sent,       \* the requests in flight
  clicks,     \* what the user has done so far
  screen,     \* sessionId, mode and trace; the last session request, whether it failed, and
              \* whether the loading screen has faded (fading, never FALSE again)
  cache,      \* the histories react-query has
  excused     \* history: session or mode requests met, or an answer they need was lost

vars == <<server, sent, clicks, screen, cache, excused>>

Sessions == 1..MaxSessions
Known == DOMAIN server

\* n tells requests apart; id is None for a session yet to be made, and arg is then or for
\* a session on record the id it was asked with.  A request is "out", then "handled" with
\* its answer: the session and what the server had then.  switched: another session came
\* on display meanwhile (history).
Request(n, kind, id, arg) == [n |-> n, kind |-> kind, id |-> id, arg |-> arg, at |-> "out",
                              mode |-> None, turns |-> 0, switched |-> FALSE]

Of(kind) == {r \in sent : r.kind = kind}
Setting == Of("session") \cup Of("mode")

\* The window mounts and asks for a new session.
Init ==
  /\ server = <<>>
  /\ clicks = 0
  /\ sent = {Request(0, "session", None, None)}
  /\ screen = [session |-> None, mode |-> None, trace |-> None, latest |-> 0,
              error |-> FALSE, faded |-> FALSE]
  /\ cache = [s \in Sessions |-> None]
  /\ excused = FALSE

-----------------------------------------------------------------------------------
(* What the user does.  Nothing while the loading screen is up, and nothing *)
(* but Retry while the error screen is.                                    *)

\* isReady: the last session request has succeeded.  The loading screen fades and goes.
Fade ==
  /\ ~screen.faded /\ ~screen.error
  /\ \A r \in Of("session") : r.n # screen.latest
  /\ screen' = [screen EXCEPT !.faded = TRUE]
  /\ UNCHANGED <<server, sent, clicks, cache, excused>>

\* The app is mounted.
Shown == screen.faded /\ ~screen.error

Click(kind, id, arg) ==
  /\ clicks < MaxClicks
  /\ clicks' = clicks + 1
  /\ sent' = sent \cup {Request(clicks + 1, kind, id, arg)}

\* handleSelectSession, handleNewSession
Select(id) ==
  /\ Shown /\ id # screen.session
  /\ Click("session", id, id)
  /\ screen' = [screen EXCEPT !.latest = clicks + 1]
  /\ excused' = (excused \/ Setting # {})
  /\ UNCHANGED <<server, cache>>

\* onRetry: sessionMutation.reset(), and a new session.  The error screen is the loading
\* screen again: once that has faded, it is transparent and takes no click, and the button
\* is left to whoever finds it by the keyboard.
Retry ==
  /\ screen.error
  /\ Click("session", None, None)
  /\ screen' = [screen EXCEPT !.error = FALSE, !.latest = clicks + 1]
  /\ excused' = (excused \/ Setting # {})
  /\ UNCHANGED <<server, cache>>

\* ChatPanel's submit: not while a turn is pending.
Send ==
  /\ Shown /\ Of("turn") = {}
  /\ Click("turn", screen.session, None)
  /\ UNCHANGED <<server, screen, cache, excused>>

\* handleChangeMode: on display at once.
ChangeMode(mode) ==
  /\ Shown
  /\ Click("mode", screen.session, mode)
  /\ screen' = [screen EXCEPT !.mode = mode]
  /\ excused' = (excused \/ Setting # {})
  /\ UNCHANGED <<server, cache>>

-----------------------------------------------------------------------------------
(* The server (external) and the network between.                          *)

Replace(r, changed) == sent' = (sent \ {r}) \cup {changed}

\* The session a request is about: a new one is made for POST /api/sessions without an id.
Target(r) == IF r.id = None THEN Len(server) + 1 ELSE r.id

Served(r) ==
  LET old == IF r.id = None THEN [mode |-> ServerMode, turns |-> 0] ELSE server[r.id] IN
  CASE r.kind = "turn" -> [old EXCEPT !.turns = @ + 1]
    [] r.kind = "mode" -> [old EXCEPT !.mode = r.arg]
    [] OTHER           -> old

Handle(r) ==
  LET s == Target(r)
      now == Served(r)
  IN
  /\ r.at = "out" /\ s \in Sessions
  /\ server' = [t \in Known \cup {s} |-> IF t = s THEN now ELSE server[t]]
  /\ Replace(r, [r EXCEPT !.at = "handled", !.id = s, !.mode = now.mode, !.turns = now.turns])
  /\ UNCHANGED <<clicks, screen, cache, excused>>

\* A session request whose answer is lost is sent again as it was (retry: 40).
Resend(r) ==
  /\ r.kind = "session" /\ r.at = "handled"
  /\ Replace(r, [r EXCEPT !.at = "out", !.id = r.arg])
  /\ UNCHANGED <<server, clicks, screen, cache, excused>>

\* Others fail, and a session request in the end: the error screen, if it was the last one.
Fail(r) ==
  /\ sent' = sent \ {r}
  /\ screen' = [screen EXCEPT !.error = @ \/ (r.kind = "session" /\ r.n = screen.latest)]
  /\ excused' = (excused \/ r.kind # "session")
  /\ UNCHANGED <<server, clicks, cache>>

-----------------------------------------------------------------------------------
(* What an answer does to the display.                                     *)

\* A fetch of a history joins the one that is under way.
Fetch(s) == {Request(0, "history", s, None)} \ {Request(0, "history", r.id, None) : r \in Of("history")}

\* An invalidated history is fetched again, in the place of a fetch under way, if it is the
\* one on display.
Refetched(s, rest) ==
  IF s # screen.session THEN rest
  ELSE {q \in rest : q.kind # "history" \/ q.id # s} \cup {Request(0, "history", s, None)}

\* Mutant of Entered: the trace stays.
EnteredWithTrace(r) == [screen EXCEPT !.session = r.id, !.mode = r.mode]

\* Mutant of Entered: the mode on display stays, as that of the first session.
EnteredWithMode(r) ==
  [screen EXCEPT !.session = r.id, !.mode = IF @ = None THEN r.mode ELSE @, !.trace = None]

\* sessionMutation.onSuccess: another session is on display.
Entered(r) == [screen EXCEPT !.session = r.id, !.mode = r.mode, !.trace = None]

\* Its history is put in the cache, and fetched as soon as it is on display.
EnterSession(r) ==
  LET rest == sent \ {r} IN
  /\ r.kind = "session" /\ r.at = "handled"
  /\ screen' = Entered(r)
  /\ cache' = [cache EXCEPT ![r.id] = r.turns]
  /\ IF r.id = screen.session
       THEN sent' = rest
       ELSE sent' = {[q EXCEPT !.switched = @ \/ q.kind = "turn"] : q \in rest} \cup Fetch(r.id)
  /\ excused' = (excused \/ (r.id # screen.session /\ Of("history") # {}))
  /\ UNCHANGED <<server, clicks>>

\* Mutant of Invalidated: react-query is to find out by itself.
InvalidatedNothing(r) == {None}

\* The sessionId of turnMutation.onSuccess: the one it was sent for, or as react-query gives
\* a pending mutation the callbacks of the latest render, the one on display.
Invalidated(r) == {r.id, screen.session}

\* turnMutation.onSuccess
ShowTurn(r) ==
  /\ r.kind = "turn" /\ r.at = "handled"
  /\ screen' = [screen EXCEPT !.trace = [session |-> r.id, switched |-> r.switched]]
  /\ \E s \in Invalidated(r) : sent' = Refetched(s, sent \ {r})
  /\ UNCHANGED <<server, clicks, cache, excused>>

ShowHistory(r) ==
  /\ r.kind = "history" /\ r.at = "handled"
  /\ cache' = [cache EXCEPT ![r.id] = r.turns]
  /\ sent' = sent \ {r}
  /\ UNCHANGED <<server, clicks, screen, excused>>

\* modeMutation has no callbacks.
ModeIsSet(r) ==
  /\ r.kind = "mode" /\ r.at = "handled"
  /\ sent' = sent \ {r}
  /\ UNCHANGED <<server, clicks, screen, cache, excused>>

\* Nothing is in flight and the bound keeps the user from clicking.
Rest == sent = {} /\ clicks = MaxClicks /\ (screen.faded \/ screen.error) /\ UNCHANGED vars

Next ==
  \/ \E id \in Known \cup {None} : Select(id)
  \/ Fade \/ Retry \/ Send \/ (\E mode \in Modes : ChangeMode(mode))
  \/ \E r \in sent : \/ Handle(r) \/ Resend(r) \/ Fail(r)
                     \/ EnterSession(r) \/ ShowTurn(r) \/ ShowHistory(r) \/ ModeIsSet(r)
  \/ Rest

Spec == Init /\ [][Next]_vars

-----------------------------------------------------------------------------------
(* Properties.                                                             *)

\* The trace on display belongs to the session on display, unless the session was changed
\* while the turn ran.
TraceIsOfTheSession ==
  screen.trace # None => screen.trace.session = screen.session \/ screen.trace.switched

\* When nothing is in flight, the history on display is the session's, whichever way turns,
\* switches and fetches have overtaken one another.
HistoryCatchesUp ==
  (sent = {} /\ screen.session # None) =>
    excused \/ cache[screen.session] = server[screen.session].turns

\* Once it has been set, the mode on display is the one in force for the session on display.
\* The user goes by it when they leave the agent alone.
ModeIsInForce ==
  (Setting = {} /\ screen.session # None) =>
    excused \/ screen.mode = server[screen.session].mode

===================================================================================
