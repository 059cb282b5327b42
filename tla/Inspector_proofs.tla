----------------------------- MODULE Inspector_proofs -----------------------------
(***************************************************************************)
(* What the window shows, for any number of sessions and clicks: the       *)
(* trace, the history and the mode on display are those of the session on  *)
(* display.                                                                *)
(***************************************************************************)
EXTENDS Inspector, TLAPS

Ids == Sessions \cup {None}
Kinds == {"session", "turn", "mode", "history"}
Kept == [mode : Modes, turns : Nat]

Requests == [n : Nat, kind : Kinds, id : Ids, arg : Ids \cup Modes, at : {"out", "handled"},
             mode : Modes \cup {None}, turns : Nat, switched : BOOLEAN]

Screens == [session : Ids, mode : Modes \cup {None},
            trace : [session : Ids, switched : BOOLEAN] \cup {None},
            latest : Nat, error : BOOLEAN, faded : BOOLEAN]

TypeOK ==
  /\ server \in Seq(Kept)
  /\ Len(server) <= MaxSessions
  /\ sent \subseteq Requests
  /\ clicks \in Nat
  /\ screen \in Screens
  /\ cache \in [Sessions -> Nat \cup {None}]
  /\ excused \in BOOLEAN

-----------------------------------------------------------------------------------
(* The inductive invariant.                                                *)

\* Requests and the display name sessions on record: a request without an id makes one.
OnRecord(id) == id = None \/ id \in Known

NamesARecord(r) ==
  /\ OnRecord(r.id)
  /\ r.kind = "session" => OnRecord(r.arg)
  /\ r.kind = "session" => (r.at = "handled" => r.id # None)
  /\ r.kind # "session" => r.id # None
  /\ r.kind = "mode" => r.arg \in Modes

Named ==
  /\ OnRecord(screen.session)
  /\ \A r \in sent : NamesARecord(r)

\* Until a session is on display, the last request for one is under way or has failed, so
\* the app is mounted with a session, and a turn is about one.
Mounted ==
  /\ screen.session = None => screen.error \/ \E r \in Of("session") : r.n = screen.latest
  /\ screen.faded => screen.session # None
  /\ \A r \in Of("turn") : screen.session # None

\* A turn under way belongs to the session on display, or knows that it does not.
Marked == \A r \in Of("turn") : r.id = screen.session \/ r.switched

\* Unless excused, one thing is set at a time.
OneSetting == ~excused => \A q, r \in Setting : q = r

\* A session on its way is not the one on display.
Elsewhere ==
  (~excused /\ screen.session # None) =>
    \A r \in Of("session") : r.id # screen.session /\ r.arg # screen.session

\* A history is fetched once at a time.
OneFetch == \A g, h \in Of("history") : g.id = h.id => g = h

\* The history of session d is up to date, or something under way will bring it up to date:
\* a turn that will invalidate it, or a fetch that is yet to be handled or saw the last turn.
WillCatchUp(d) ==
  \/ \E t \in Of("turn") : t.id = d /\ t.at = "handled"
  \/ \E h \in Of("history") : h.id = d /\ (h.at = "handled" => h.turns = server[d].turns)
  \/ /\ cache[d] = server[d].turns
     /\ \A h \in Of("history") : h.id # d

CatchesUp == (~excused /\ screen.session # None) => WillCatchUp(screen.session)

\* The mode under way is the one on display, and goes to the session on display.
ModeSent ==
  (~excused /\ screen.session # None) =>
    \A r \in Of("mode") : r.id = screen.session /\ r.arg = screen.mode

\* Once the server has handled it, or none is under way, the mode on display is in force.
ModeHolds ==
  (~excused /\ screen.session # None) =>
    \/ \E r \in Of("mode") : r.at = "out"
    \/ screen.mode = server[screen.session].mode

\* The session about to come on display still has the mode it was answered with.
ModeAnswered ==
  ~excused => \A r \in Of("session") : r.at = "handled" => r.mode = server[r.id].mode

IInv ==
  /\ TypeOK
  /\ Named
  /\ Mounted
  /\ Marked
  /\ TraceIsOfTheSession
  /\ OneSetting
  /\ Elsewhere
  /\ OneFetch
  /\ CatchesUp
  /\ ModeSent
  /\ ModeHolds
  /\ ModeAnswered

-----------------------------------------------------------------------------------
(* Lemmas on the operators.                                                *)

\* What a new request is.
LEMMA RequestFields ==
  ASSUME NEW n \in Nat, NEW kind \in Kinds, NEW id \in Ids, NEW arg \in Ids \cup Modes
  PROVE  /\ Request(n, kind, id, arg) \in Requests
         /\ Request(n, kind, id, arg).n = n
         /\ Request(n, kind, id, arg).kind = kind
         /\ Request(n, kind, id, arg).id = id
         /\ Request(n, kind, id, arg).arg = arg
         /\ Request(n, kind, id, arg).at = "out"
         /\ Request(n, kind, id, arg).switched = FALSE
  BY DEF Request, Requests

\* A session on record is one of the sessions.
LEMMA KnownIsASession ==
  ASSUME TypeOK
  PROVE  /\ Known = 1..Len(server)
         /\ Len(server) \in Nat
         /\ Known \subseteq Sessions
         /\ \A s \in Known : server[s] \in Kept
         /\ None \notin Sessions
         /\ None \notin Modes
<1> USE DEF TypeOK
<1>1. Known = 1..Len(server) /\ Len(server) \in Nat
  BY DEF Known
<1>2. MaxSessions \in Nat /\ None \notin Nat /\ None \notin Modes
  BY InspectorAssumption
<1>3. \A s \in Known : server[s] \in Kept
  BY <1>1
<1> QED
  BY <1>1, <1>2, <1>3 DEF Sessions

\* A server with one session changed or made.
Put(sv, s, v) == [t \in DOMAIN sv \cup {s} |-> IF t = s THEN v ELSE sv[t]]

LEMMA PutServer ==
  ASSUME NEW sv \in Seq(Kept), NEW s \in 1..(Len(sv) + 1), NEW v \in Kept
  PROVE  /\ Put(sv, s, v) \in Seq(Kept)
         /\ Len(Put(sv, s, v)) = IF s = Len(sv) + 1 THEN Len(sv) + 1 ELSE Len(sv)
         /\ DOMAIN Put(sv, s, v) = DOMAIN sv \cup {s}
         /\ Put(sv, s, v)[s] = v
         /\ \A t \in DOMAIN sv : t # s => Put(sv, s, v)[t] = sv[t]
<1> DEFINE m == IF s = Len(sv) + 1 THEN Len(sv) + 1 ELSE Len(sv)
<1>1. Len(sv) \in Nat /\ DOMAIN sv = 1..Len(sv)
  OBVIOUS
<1>2. m \in Nat /\ DOMAIN sv \cup {s} = 1..m
  BY <1>1
<1>3. Put(sv, s, v) = [t \in 1..m |-> IF t = s THEN v ELSE sv[t]]
  BY <1>2 DEF Put
<1>4. \A t \in 1..m : (IF t = s THEN v ELSE sv[t]) \in Kept
  BY <1>1, <1>2
<1> HIDE DEF m
<1>5. Put(sv, s, v) \in [1..m -> Kept]
  BY <1>3, <1>4
<1>6. Put(sv, s, v) \in Seq(Kept) /\ Len(Put(sv, s, v)) = m
  BY <1>2, <1>5
<1>7. s \in 1..m
  BY <1>2
<1> QED
  BY <1>2, <1>3, <1>6, <1>7 DEF m

\* Requests for different histories differ.
LEMMA FetchesDiffer ==
  ASSUME NEW s, NEW t, Request(0, "history", s, None) = Request(0, "history", t, None)
  PROVE  s = t
<1>1. /\ Request(0, "history", s, None).id = s
      /\ Request(0, "history", t, None).id = t
  BY DEF Request
<1> QED
  BY <1>1

\* A fetch that starts is of the history asked for, and one starts unless one is under way.
LEMMA FetchStarts ==
  ASSUME NEW s
  PROVE  /\ \A q \in Fetch(s) : q = Request(0, "history", s, None)
         /\ \A r \in Of("history") : r.id = s => Fetch(s) = {}
         /\ \/ Request(0, "history", s, None) \in Fetch(s)
            \/ \E r \in Of("history") : r.id = s
<1>1. \A q \in Fetch(s) : q = Request(0, "history", s, None)
  BY DEF Fetch
<1>2. \A r \in Of("history") : r.id = s => Fetch(s) = {}
  BY DEF Fetch
<1>3. ASSUME Request(0, "history", s, None) \notin Fetch(s)
      PROVE  \E r \in Of("history") : r.id = s
  <2>1. PICK r \in Of("history") : Request(0, "history", s, None) = Request(0, "history", r.id, None)
    BY <1>3 DEF Fetch
  <2> QED
    BY <2>1, FetchesDiffer
<1> QED
  BY <1>1, <1>2, <1>3

\* An invalidation touches the fetches of the history on display only, and leaves one that
\* is yet to be handled.
LEMMA RefetchedIs ==
  ASSUME NEW s, NEW rest
  PROVE  /\ \A q \in Refetched(s, rest) :
              \/ q \in rest /\ (s = screen.session => q.kind # "history" \/ q.id # s)
              \/ s = screen.session /\ q = Request(0, "history", s, None)
         /\ \A q \in rest :
              s # screen.session \/ q.kind # "history" \/ q.id # s => q \in Refetched(s, rest)
         /\ s = screen.session => Request(0, "history", s, None) \in Refetched(s, rest)
BY DEF Refetched

-----------------------------------------------------------------------------------
(* What a request does on the server.                                      *)

Answered(r) == [r EXCEPT !.at = "handled", !.id = Target(r), !.mode = Served(r).mode,
                         !.turns = Served(r).turns]

\* A request goes to the session it names, or makes the next one, and changes its turns or
\* its mode at most.
LEMMA Serves ==
  ASSUME TypeOK, Named, NEW r \in sent, Handle(r)
  PROVE  /\ r.at = "out"
         /\ Target(r) \in Sessions
         /\ Target(r) \in 1..(Len(server) + 1)
         /\ r.id # None => Target(r) = r.id /\ Target(r) \in Known
         /\ r.id = None => Target(r) \notin Known /\ r.kind = "session"
         /\ Served(r) \in Kept
         /\ r.id # None /\ r.kind # "turn" => Served(r).turns = server[r.id].turns
         /\ r.id # None /\ r.kind # "mode" => Served(r).mode = server[r.id].mode
         /\ r.kind = "mode" => Served(r).mode = r.arg
         /\ server' = Put(server, Target(r), Served(r))
         /\ sent' = (sent \ {r}) \cup {Answered(r)}
         /\ UNCHANGED <<clicks, screen, cache, excused>>
<1> DEFINE L == Len(server)
<1>1. /\ r \in Requests
      /\ NamesARecord(r)
  BY DEF TypeOK, Named
<1>2. /\ Known = 1..L
      /\ L \in Nat
      /\ \A s \in Known : server[s] \in Kept
      /\ None \notin Sessions
      /\ Known \subseteq Sessions
  BY KnownIsASession
<1> HIDE DEF L
<1>3. r.id # None => r.id \in Known
  BY <1>1 DEF NamesARecord, OnRecord
<1>4. Target(r) = IF r.id = None THEN L + 1 ELSE r.id
  BY DEF Target, L
<1>5. /\ Target(r) \in 1..(L + 1)
      /\ r.id # None => Target(r) = r.id /\ Target(r) \in Known
      /\ r.id = None => Target(r) \notin Known /\ r.kind = "session"
  BY <1>1, <1>2, <1>3, <1>4 DEF NamesARecord
<1> DEFINE old == IF r.id = None THEN [mode |-> ServerMode, turns |-> 0] ELSE server[r.id]
<1>6. /\ old \in [mode : Modes, turns : Nat]
      /\ r.id # None => old = server[r.id]
  BY <1>2, <1>3, InspectorAssumption DEF Kept
<1>7. Served(r) = CASE r.kind = "turn" -> [old EXCEPT !.turns = @ + 1]
                    [] r.kind = "mode" -> [old EXCEPT !.mode = r.arg]
                    [] OTHER           -> old
  BY DEF Served
<1> HIDE DEF old
<1>8. r.kind = "mode" => r.arg \in Modes
  BY <1>1 DEF NamesARecord
<1>9. CASE r.kind = "turn"
  <2>1. Served(r) = [old EXCEPT !.turns = @ + 1]
    BY <1>7, <1>9
  <2>2. Served(r) \in Kept /\ Served(r).mode = old.mode
    BY <2>1, <1>6 DEF Kept
  <2> QED
    BY <2>2, <1>5, <1>6, <1>9 DEF Handle, Replace, Put, Answered, Known, L
<1>10. CASE r.kind = "mode"
  <2>1. Served(r) = [old EXCEPT !.mode = r.arg]
    BY <1>7, <1>10
  <2>2. Served(r) \in Kept /\ Served(r).turns = old.turns /\ Served(r).mode = r.arg
    BY <2>1, <1>6, <1>8, <1>10 DEF Kept
  <2> QED
    BY <2>2, <1>5, <1>6, <1>10 DEF Handle, Replace, Put, Answered, Known, L
<1>11. CASE r.kind # "turn" /\ r.kind # "mode"
  <2>1. Served(r) = old
    BY <1>7, <1>11
  <2> QED
    BY <2>1, <1>5, <1>6, <1>11 DEF Handle, Replace, Put, Answered, Known, L, Kept
<1> QED
  BY <1>9, <1>10, <1>11

\* What the answer says.
LEMMA AnswerIs ==
  ASSUME TypeOK, Named, NEW r \in sent, Handle(r)
  PROVE  /\ Answered(r) \in Requests
         /\ Answered(r).n = r.n
         /\ Answered(r).kind = r.kind
         /\ Answered(r).id = Target(r)
         /\ Answered(r).arg = r.arg
         /\ Answered(r).at = "handled"
         /\ Answered(r).mode = Served(r).mode
         /\ Answered(r).turns = Served(r).turns
         /\ Answered(r).switched = r.switched
<1>1. r \in Requests
  BY DEF TypeOK
<1>2. Target(r) \in Ids /\ Served(r).mode \in Modes /\ Served(r).turns \in Nat
  BY Serves DEF Ids, Kept
<1> QED
  BY <1>1, <1>2 DEF Answered, Requests

\* The server after it.
LEMMA ServerAfter ==
  ASSUME TypeOK, Named, NEW r \in sent, Handle(r)
  PROVE  /\ server' \in Seq(Kept)
         /\ Len(server') <= MaxSessions
         /\ Known' = Known \cup {Target(r)}
         /\ server'[Target(r)] = Served(r)
         /\ \A t \in Known : t # Target(r) => server'[t] = server[t]
         /\ \A t \in Known : r.kind # "turn" => server'[t].turns = server[t].turns
         /\ \A t \in Known : r.kind # "mode" => server'[t].mode = server[t].mode
<1> DEFINE s == Target(r)
           v == Served(r)
           L == Len(server)
<1>1. /\ server \in Seq(Kept)
      /\ L \in Nat
      /\ L <= MaxSessions
      /\ s \in 1..(L + 1)
      /\ s \in 1..MaxSessions
      /\ v \in Kept
      /\ MaxSessions \in Nat
      /\ server' = Put(server, s, v)
  BY Serves, InspectorAssumption DEF TypeOK, Sessions
<1>2. /\ Put(server, s, v) \in Seq(Kept)
      /\ Len(Put(server, s, v)) = IF s = L + 1 THEN L + 1 ELSE L
      /\ DOMAIN Put(server, s, v) = DOMAIN server \cup {s}
      /\ Put(server, s, v)[s] = v
      /\ \A t \in DOMAIN server : t # s => Put(server, s, v)[t] = server[t]
  BY <1>1, PutServer
<1>3. /\ r.id # None => s = r.id /\ s \in Known
      /\ r.id = None => s \notin Known
      /\ r.id # None /\ r.kind # "turn" => v.turns = server[r.id].turns
      /\ r.id # None /\ r.kind # "mode" => v.mode = server[r.id].mode
  BY Serves
<1> HIDE DEF s, v, L
<1>4. Len(server') <= MaxSessions
  BY <1>1, <1>2
<1>5. /\ server' \in Seq(Kept)
      /\ DOMAIN server' = Known \cup {s}
      /\ server'[s] = v
      /\ \A t \in Known : t # s => server'[t] = server[t]
  BY <1>1, <1>2 DEF Known
<1>6. \A t \in Known : r.kind # "turn" => server'[t].turns = server[t].turns
  BY <1>3, <1>5
<1>7. \A t \in Known : r.kind # "mode" => server'[t].mode = server[t].mode
  BY <1>3, <1>5
<1> QED
  BY <1>4, <1>5, <1>6, <1>7 DEF Known, s, v

-----------------------------------------------------------------------------------
(* The invariant holds at the start and is kept by every action.           *)

LEMMA InitInv ==
  ASSUME Init
  PROVE  IInv
<1> DEFINE first == Request(0, "session", None, None)
<1>1. /\ server = <<>>
      /\ clicks = 0
      /\ sent = {first}
      /\ screen = [session |-> None, mode |-> None, trace |-> None, latest |-> 0,
                   error |-> FALSE, faded |-> FALSE]
      /\ cache = [s \in Sessions |-> None]
      /\ excused = FALSE
  BY DEF Init
<1>2. 0 \in Nat /\ "session" \in Kinds /\ None \in Ids
  BY DEF Kinds, Ids
<1>3. /\ first \in Requests
      /\ first.n = 0
      /\ first.kind = "session"
      /\ first.id = None
      /\ first.arg = None
      /\ first.at = "out"
  BY <1>2 DEF Request, Requests
<1> HIDE DEF first
<1>4. TypeOK
  <2>1. server \in Seq(Kept) /\ Len(server) <= MaxSessions
    BY <1>1, InspectorAssumption
  <2>2. screen \in Screens
    BY <1>1, <1>2 DEF Screens
  <2> QED
    BY <2>1, <2>2, <1>1, <1>2, <1>3 DEF TypeOK
<1>5. Named
  BY <1>1, <1>3 DEF Named, NamesARecord, OnRecord
<1>6. Mounted
  BY <1>1, <1>3 DEF Mounted, Of
<1>7. /\ Marked
      /\ TraceIsOfTheSession
      /\ Elsewhere
      /\ CatchesUp
      /\ ModeSent
      /\ ModeHolds
  BY <1>1, <1>3 DEF Marked, TraceIsOfTheSession, Elsewhere, CatchesUp, ModeSent, ModeHolds, Of
<1>8. /\ OneSetting
      /\ OneFetch
      /\ ModeAnswered
  BY <1>1, <1>3 DEF OneSetting, OneFetch, ModeAnswered, Setting, Of
<1> QED
  BY <1>4, <1>5, <1>6, <1>7, <1>8 DEF IInv

\* A history that will catch up goes on to, as long as no fetch and no turn is done with.
LEMMA CatchingUpStays ==
  ASSUME CatchesUp, excused => excused', screen'.session = screen.session,
         UNCHANGED <<server, cache>>, Of("history")' = Of("history"),
         Of("turn") \subseteq Of("turn")'
  PROVE  CatchesUp'
<1> SUFFICES ASSUME ~excused', screen'.session # None
             PROVE  WillCatchUp(screen.session)'
  BY DEF CatchesUp
<1>1. WillCatchUp(screen.session)
  BY DEF CatchesUp
<1> QED
  BY <1>1 DEF WillCatchUp

\* The clicks that set something ask for it once, and excuse the rest if it is not alone.
LEMMA SelectInv ==
  ASSUME IInv, NEW id \in Known \cup {None}, Select(id)
  PROVE  IInv'
<1> USE DEF IInv
<1>1. /\ None \notin Sessions
      /\ Known \subseteq Sessions
  BY KnownIsASession
<1>2. id \in Ids /\ id \in Ids \cup Modes /\ "session" \in Kinds
  BY <1>1 DEF Ids, Kinds
<1> DEFINE q == Request(clicks + 1, "session", id, id)
<1>3. /\ q \in Requests
      /\ sent' = sent \cup {q}
      /\ sent' \subseteq Requests
      /\ clicks' \in Nat
      /\ clicks' = clicks + 1
      /\ q.n = clicks + 1
      /\ q.kind = "session"
      /\ q.id = id
      /\ q.arg = id
      /\ q.at = "out"
      /\ q.switched = FALSE
  <2>1. /\ clicks \in Nat
        /\ clicks + 1 \in Nat
        /\ sent \subseteq Requests
        /\ sent' = sent \cup {q}
        /\ clicks' = clicks + 1
    BY DEF TypeOK, Select, Click
  <2>2. /\ q \in Requests
        /\ q.n = clicks + 1
        /\ q.kind = "session"
        /\ q.id = id
        /\ q.arg = id
        /\ q.at = "out"
        /\ q.switched = FALSE
    BY <1>2, <2>1 DEF Request, Requests
  <2> HIDE DEF q
  <2> QED
    BY <2>1, <2>2
<1> HIDE DEF q
<1>4. /\ Shown
      /\ id # screen.session
      /\ screen' = [screen EXCEPT !.latest = clicks + 1]
      /\ excused' = (excused \/ Setting # {})
      /\ UNCHANGED <<server, cache>>
  BY DEF Select
<1>5. TypeOK'
  BY <1>3, <1>4 DEF TypeOK, Screens
<1>6. /\ screen'.session = screen.session
      /\ screen'.mode = screen.mode
      /\ screen'.trace = screen.trace
      /\ screen'.latest = clicks + 1
      /\ screen'.error = screen.error
      /\ screen'.faded = screen.faded
  BY <1>4 DEF TypeOK, Screens
<1>7. Named'
  BY <1>3, <1>4, <1>6 DEF Named, NamesARecord, OnRecord, Known
<1>8. Mounted'
  BY <1>3, <1>4, <1>6 DEF Mounted, Of, Shown
<1>9. Marked' /\ TraceIsOfTheSession'
  BY <1>3, <1>4, <1>6 DEF Marked, TraceIsOfTheSession, Of
<1>10. OneSetting'
  BY <1>3, <1>4 DEF OneSetting, Setting, Of
<1>11. Elsewhere'
  BY <1>3, <1>4, <1>6 DEF Elsewhere, Of
<1>12. OneFetch'
  BY <1>3 DEF OneFetch, Of
<1>13. CatchesUp'
  <2>1. /\ Of("history")' = Of("history")
        /\ Of("turn") \subseteq Of("turn")'
    BY <1>3 DEF Of
  <2> QED
    BY <2>1, <1>4, <1>6, CatchingUpStays
<1>14. ModeSent' /\ ModeHolds'
  BY <1>3, <1>4, <1>6 DEF ModeSent, ModeHolds, Of
<1>15. ModeAnswered'
  BY <1>3, <1>4 DEF ModeAnswered, Of
<1> QED
  BY <1>5, <1>7, <1>8, <1>9, <1>10, <1>11, <1>12, <1>13, <1>14, <1>15

LEMMA RetryInv ==
  ASSUME IInv, Retry
  PROVE  IInv'
<1> USE DEF IInv
<1>2. None \in Ids /\ None \in Ids \cup Modes /\ "session" \in Kinds
  BY DEF Ids, Kinds
<1> DEFINE q == Request(clicks + 1, "session", None, None)
<1>3. /\ q \in Requests
      /\ sent' = sent \cup {q}
      /\ sent' \subseteq Requests
      /\ clicks' \in Nat
      /\ clicks' = clicks + 1
      /\ q.n = clicks + 1
      /\ q.kind = "session"
      /\ q.id = None
      /\ q.arg = None
      /\ q.at = "out"
      /\ q.switched = FALSE
  <2>1. /\ clicks \in Nat
        /\ clicks + 1 \in Nat
        /\ sent \subseteq Requests
        /\ sent' = sent \cup {q}
        /\ clicks' = clicks + 1
    BY DEF TypeOK, Retry, Click
  <2>2. /\ q \in Requests
        /\ q.n = clicks + 1
        /\ q.kind = "session"
        /\ q.id = None
        /\ q.arg = None
        /\ q.at = "out"
        /\ q.switched = FALSE
    BY <1>2, <2>1 DEF Request, Requests
  <2> HIDE DEF q
  <2> QED
    BY <2>1, <2>2
<1> HIDE DEF q
<1>4. /\ screen' = [screen EXCEPT !.error = FALSE, !.latest = clicks + 1]
      /\ excused' = (excused \/ Setting # {})
      /\ UNCHANGED <<server, cache>>
  BY DEF Retry
<1>5. TypeOK'
  BY <1>3, <1>4 DEF TypeOK, Screens
<1>6. /\ screen'.session = screen.session
      /\ screen'.mode = screen.mode
      /\ screen'.trace = screen.trace
      /\ screen'.latest = clicks + 1
      /\ screen'.faded = screen.faded
  BY <1>4 DEF TypeOK, Screens
<1>7. Named'
  BY <1>3, <1>4, <1>6 DEF Named, NamesARecord, OnRecord, Known
<1>8. Mounted'
  BY <1>3, <1>4, <1>6 DEF Mounted, Of
<1>9. Marked' /\ TraceIsOfTheSession'
  BY <1>3, <1>4, <1>6 DEF Marked, TraceIsOfTheSession, Of
<1>10. OneSetting'
  BY <1>3, <1>4 DEF OneSetting, Setting, Of
<1>11. Elsewhere'
  BY <1>3, <1>4, <1>6 DEF Elsewhere, Of
<1>12. OneFetch'
  BY <1>3 DEF OneFetch, Of
<1>13. CatchesUp'
  <2>1. /\ Of("history")' = Of("history")
        /\ Of("turn") \subseteq Of("turn")'
    BY <1>3 DEF Of
  <2> QED
    BY <2>1, <1>4, <1>6, CatchingUpStays
<1>14. ModeSent' /\ ModeHolds'
  BY <1>3, <1>4, <1>6 DEF ModeSent, ModeHolds, Of
<1>15. ModeAnswered'
  BY <1>3, <1>4 DEF ModeAnswered, Of
<1> QED
  BY <1>5, <1>7, <1>8, <1>9, <1>10, <1>11, <1>12, <1>13, <1>14, <1>15

LEMMA SendInv ==
  ASSUME IInv, Send
  PROVE  IInv'
<1> USE DEF IInv
<1>1. screen.session # None /\ screen.session \in Ids
  BY DEF Send, Shown, Mounted, TypeOK, Screens
<1>2. None \in Ids /\ None \in Ids \cup Modes /\ "turn" \in Kinds
  BY DEF Ids, Kinds
<1> DEFINE q == Request(clicks + 1, "turn", screen.session, None)
<1>3. /\ q \in Requests
      /\ sent' = sent \cup {q}
      /\ sent' \subseteq Requests
      /\ clicks' \in Nat
      /\ clicks' = clicks + 1
      /\ q.n = clicks + 1
      /\ q.kind = "turn"
      /\ q.id = screen.session
      /\ q.arg = None
      /\ q.at = "out"
      /\ q.switched = FALSE
  <2>1. /\ clicks \in Nat
        /\ clicks + 1 \in Nat
        /\ sent \subseteq Requests
        /\ sent' = sent \cup {q}
        /\ clicks' = clicks + 1
    BY DEF TypeOK, Send, Click
  <2>2. /\ q \in Requests
        /\ q.n = clicks + 1
        /\ q.kind = "turn"
        /\ q.id = screen.session
        /\ q.arg = None
        /\ q.at = "out"
        /\ q.switched = FALSE
    BY <1>2, <2>1, <1>1 DEF Request, Requests
  <2> HIDE DEF q
  <2> QED
    BY <2>1, <2>2
<1> HIDE DEF q
<1>4. UNCHANGED <<server, screen, cache, excused>>
  BY DEF Send
<1>5. TypeOK'
  BY <1>3, <1>4 DEF TypeOK
<1>7. Named'
  BY <1>1, <1>3, <1>4 DEF Named, NamesARecord, OnRecord, Known
<1>8. Mounted'
  BY <1>1, <1>3, <1>4 DEF Mounted, Of
<1>9. Marked' /\ TraceIsOfTheSession'
  BY <1>3, <1>4 DEF Marked, TraceIsOfTheSession, Of
<1>10. OneSetting'
  BY <1>3, <1>4 DEF OneSetting, Setting, Of
<1>11. Elsewhere'
  BY <1>3, <1>4 DEF Elsewhere, Of
<1>12. OneFetch'
  BY <1>3 DEF OneFetch, Of
<1>13. CatchesUp'
  <2>1. /\ Of("history")' = Of("history")
        /\ Of("turn") \subseteq Of("turn")'
    BY <1>3 DEF Of
  <2> QED
    BY <2>1, <1>4, CatchingUpStays
<1>14. ModeSent' /\ ModeHolds'
  BY <1>3, <1>4 DEF ModeSent, ModeHolds, Of
<1>15. ModeAnswered'
  BY <1>3, <1>4 DEF ModeAnswered, Of
<1> QED
  BY <1>5, <1>7, <1>8, <1>9, <1>10, <1>11, <1>12, <1>13, <1>14, <1>15

LEMMA ChangeModeInv ==
  ASSUME IInv, NEW mode \in Modes, ChangeMode(mode)
  PROVE  IInv'
<1> USE DEF IInv
<1>1. screen.session # None /\ screen.session \in Ids
  BY DEF ChangeMode, Shown, Mounted, TypeOK, Screens
<1>2. mode \in Ids \cup Modes /\ "mode" \in Kinds
  BY DEF Kinds
<1> DEFINE q == Request(clicks + 1, "mode", screen.session, mode)
<1>3. /\ q \in Requests
      /\ sent' = sent \cup {q}
      /\ sent' \subseteq Requests
      /\ clicks' \in Nat
      /\ clicks' = clicks + 1
      /\ q.n = clicks + 1
      /\ q.kind = "mode"
      /\ q.id = screen.session
      /\ q.arg = mode
      /\ q.at = "out"
      /\ q.switched = FALSE
  <2>1. /\ clicks \in Nat
        /\ clicks + 1 \in Nat
        /\ sent \subseteq Requests
        /\ sent' = sent \cup {q}
        /\ clicks' = clicks + 1
    BY DEF TypeOK, ChangeMode, Click
  <2>2. /\ q \in Requests
        /\ q.n = clicks + 1
        /\ q.kind = "mode"
        /\ q.id = screen.session
        /\ q.arg = mode
        /\ q.at = "out"
        /\ q.switched = FALSE
    BY <1>2, <2>1, <1>1 DEF Request, Requests
  <2> HIDE DEF q
  <2> QED
    BY <2>1, <2>2
<1> HIDE DEF q
<1>4. /\ screen' = [screen EXCEPT !.mode = mode]
      /\ excused' = (excused \/ Setting # {})
      /\ UNCHANGED <<server, cache>>
  BY DEF ChangeMode
<1>5. TypeOK'
  BY <1>3, <1>4 DEF TypeOK, Screens
<1>6. /\ screen'.session = screen.session
      /\ screen'.mode = mode
      /\ screen'.trace = screen.trace
      /\ screen'.latest = screen.latest
      /\ screen'.error = screen.error
      /\ screen'.faded = screen.faded
  BY <1>4 DEF TypeOK, Screens
<1>7. Named'
  BY <1>1, <1>3, <1>4, <1>6 DEF Named, NamesARecord, OnRecord, Known
<1>8. Mounted'
  BY <1>3, <1>4, <1>6 DEF Mounted, Of
<1>9. Marked' /\ TraceIsOfTheSession'
  BY <1>3, <1>4, <1>6 DEF Marked, TraceIsOfTheSession, Of
<1>10. OneSetting'
  BY <1>3, <1>4 DEF OneSetting, Setting, Of
<1>11. Elsewhere'
  BY <1>3, <1>4, <1>6 DEF Elsewhere, Of
<1>12. OneFetch'
  BY <1>3 DEF OneFetch, Of
<1>13. CatchesUp'
  <2>1. /\ Of("history")' = Of("history")
        /\ Of("turn") \subseteq Of("turn")'
    BY <1>3 DEF Of
  <2> QED
    BY <2>1, <1>4, <1>6, CatchingUpStays
<1>14. ModeSent' /\ ModeHolds'
  BY <1>3, <1>4, <1>6 DEF ModeSent, ModeHolds, Setting, Of
<1>15. ModeAnswered'
  BY <1>3, <1>4 DEF ModeAnswered, Of
<1> QED
  BY <1>5, <1>7, <1>8, <1>9, <1>10, <1>11, <1>12, <1>13, <1>14, <1>15

LEMMA FadeInv ==
  ASSUME IInv, Fade
  PROVE  IInv'
<1> USE DEF IInv
<1>1. /\ ~screen.error
      /\ \A r \in Of("session") : r.n # screen.latest
      /\ screen' = [screen EXCEPT !.faded = TRUE]
      /\ UNCHANGED <<server, sent, clicks, cache, excused>>
  BY DEF Fade
<1>2. TypeOK'
  BY <1>1 DEF TypeOK, Screens
<1>3. /\ screen'.session = screen.session
      /\ screen'.mode = screen.mode
      /\ screen'.trace = screen.trace
  BY <1>1 DEF TypeOK, Screens
<1>4. Mounted'
  BY <1>1, <1>3 DEF Mounted, Of
<1>5. /\ Of("turn")' = Of("turn")
      /\ Of("history")' = Of("history")
      /\ Of("session")' = Of("session")
      /\ Of("mode")' = Of("mode")
      /\ Setting' = Setting
      /\ Known' = Known
  BY <1>1 DEF Of, Setting, Known
<1>6. Named'
  BY <1>1, <1>3, <1>5 DEF Named, NamesARecord, OnRecord
<1>7. /\ Marked'
      /\ TraceIsOfTheSession'
      /\ OneSetting'
      /\ Elsewhere'
      /\ OneFetch'
  BY <1>1, <1>3, <1>5 DEF Marked, TraceIsOfTheSession, OneSetting, Elsewhere, OneFetch
<1>8. CatchesUp'
  BY <1>1, <1>3, <1>5, CatchingUpStays
<1>9. /\ ModeSent'
      /\ ModeHolds'
      /\ ModeAnswered'
  BY <1>1, <1>3, <1>5 DEF ModeSent, ModeHolds, ModeAnswered
<1> QED
  BY <1>2, <1>4, <1>6, <1>7, <1>8, <1>9

\* The server serves a request: a turn that changes a history will invalidate it, and the
\* mode it was sent is the one on display.
LEMMA HandleInv ==
  ASSUME IInv, NEW r \in sent, Handle(r)
  PROVE  IInv'
<1> USE DEF IInv
<1> DEFINE c == Answered(r)
           s == Target(r)
           v == Served(r)
<1>1. /\ r \in Requests
      /\ NamesARecord(r)
      /\ r.at = "out"
      /\ s \in Sessions
      /\ r.id # None => s = r.id /\ s \in Known
      /\ r.id = None => s \notin Known /\ r.kind = "session"
      /\ sent' = (sent \ {r}) \cup {c}
      /\ clicks' = clicks
      /\ screen' = screen
      /\ cache' = cache
      /\ excused' = excused
  BY Serves DEF TypeOK, Named
<1>2. /\ c \in Requests
      /\ c.n = r.n
      /\ c.kind = r.kind
      /\ c.id = s
      /\ c.arg = r.arg
      /\ c.at = "handled"
      /\ c.mode = v.mode
      /\ c.turns = v.turns
      /\ c.switched = r.switched
  BY AnswerIs
<1>3. /\ server' \in Seq(Kept)
      /\ Len(server') <= MaxSessions
      /\ Known' = Known \cup {s}
      /\ server'[s] = v
      /\ \A t \in Known : t # s => server'[t] = server[t]
      /\ \A t \in Known : r.kind # "turn" => server'[t].turns = server[t].turns
      /\ \A t \in Known : r.kind # "mode" => server'[t].mode = server[t].mode
  BY ServerAfter
<1>4. r.kind = "mode" => v.mode = r.arg
  BY Serves
<1>5. None \notin Sessions /\ None \notin Known
  BY KnownIsASession
<1> HIDE DEF c, s, v
<1>6. TypeOK'
  BY <1>1, <1>2, <1>3 DEF TypeOK
<1>7. Named'
  <2>1. OnRecord(screen.session)'
    BY <1>1, <1>3 DEF Named, OnRecord
  <2>2. ASSUME NEW q \in sent'
        PROVE  NamesARecord(q)'
    <3>1. CASE q \in sent
      <4>1. NamesARecord(q)
        BY <3>1 DEF Named
      <4> QED
        BY <4>1, <1>3 DEF NamesARecord, OnRecord
    <3>2. CASE q = c
      BY <3>2, <1>1, <1>2, <1>3, <1>5 DEF NamesARecord, OnRecord
    <3> QED
      BY <3>1, <3>2, <1>1
  <2> QED
    BY <2>1, <2>2 DEF Named
<1>8. Mounted'
  BY <1>1, <1>2 DEF Mounted, Of
<1>9. Marked'
  BY <1>1, <1>2 DEF Marked, Of
<1>10. TraceIsOfTheSession'
  BY <1>1 DEF TraceIsOfTheSession
<1>11. OneSetting'
  BY <1>1, <1>2 DEF OneSetting, Setting, Of
<1>12. Elsewhere'
  BY <1>1, <1>2, <1>5 DEF Elsewhere, Named, OnRecord, Of
<1>13. OneFetch'
  BY <1>1, <1>2 DEF OneFetch, Of
<1>14. CatchesUp'
  <2> SUFFICES ASSUME ~excused, screen.session # None
               PROVE  WillCatchUp(screen.session)'
    BY <1>1 DEF CatchesUp
  <2>1. PICK d \in Known : d = screen.session /\ WillCatchUp(d)
    BY DEF CatchesUp, Named, OnRecord
  <2> SUFFICES WillCatchUp(d)'
    BY <1>1, <2>1
  <2>2. ASSUME NEW t \in Of("turn"), t.id = d, t.at = "handled"
        PROVE  WillCatchUp(d)'
    <3>1. t \in Of("turn")'
      BY <2>2, <1>1 DEF Of
    <3> QED
      BY <2>2, <3>1 DEF WillCatchUp
  <2>3. CASE r.kind = "turn" /\ s = d
    <3>1. c \in Of("turn")'
      BY <2>3, <1>1, <1>2 DEF Of
    <3> QED
      BY <2>3, <3>1, <1>2 DEF WillCatchUp
  <2>4. CASE ~(r.kind = "turn" /\ s = d)
    <3>1. server'[d].turns = server[d].turns
      BY <2>1, <2>4, <1>3
    <3>2. ASSUME NEW h \in Of("history"), h.id = d,
                 h.at = "handled" => h.turns = server[d].turns
          PROVE  WillCatchUp(d)'
      <4>1. CASE h = r
        <5>1. c \in Of("history")' /\ c.id = d
          BY <4>1, <3>2, <1>1, <1>2, <1>5, <2>1 DEF Of
        <5>2. c.turns = server'[d].turns
          BY <5>1, <1>2, <1>3
        <5> QED
          BY <5>1, <5>2 DEF WillCatchUp
      <4>2. CASE h # r
        <5>1. h \in Of("history")'
          BY <4>2, <1>1 DEF Of
        <5> QED
          BY <5>1, <3>1, <3>2 DEF WillCatchUp
      <4> QED
        BY <4>1, <4>2
    <3>3. ASSUME cache[d] = server[d].turns,
                 \A h \in Of("history") : h.id # d
          PROVE  WillCatchUp(d)'
      <4>1. \A h \in Of("history")' : h.id # d
        BY <3>3, <1>1, <1>2, <1>5 DEF Of
      <4> QED
        BY <4>1, <3>1, <3>3, <1>1 DEF WillCatchUp
    <3> QED
      BY <2>1, <2>2, <3>2, <3>3 DEF WillCatchUp
  <2> QED
    BY <2>3, <2>4
<1>15. ModeSent'
  BY <1>1, <1>2 DEF ModeSent, Named, NamesARecord, Of
<1>16. ModeHolds'
  <2> DEFINE d == screen.session
  <2> SUFFICES ASSUME ~excused, d # None
               PROVE  \/ \E q \in Of("mode")' : q.at = "out"
                      \/ screen.mode = server'[d].mode
    BY <1>1 DEF ModeHolds
  <2>1. d \in Known
    BY DEF Named, OnRecord
  <2>2. \/ \E q \in Of("mode") : q.at = "out"
        \/ screen.mode = server[d].mode
    BY DEF ModeHolds
  <2>3. CASE r.kind = "mode"
    <3>1. r.id = d /\ r.arg = screen.mode
      BY <2>3 DEF ModeSent, Of
    <3>2. s = d /\ server'[d].mode = screen.mode
      BY <2>3, <3>1, <1>1, <1>3, <1>4
    <3> QED
      BY <3>2
  <2>4. CASE r.kind # "mode"
    <3>1. server'[d].mode = server[d].mode
      BY <2>1, <2>4, <1>3
    <3>2. Of("mode")' = Of("mode")
      BY <2>4, <1>1, <1>2 DEF Of
    <3> QED
      BY <2>2, <3>1, <3>2
  <2> QED
    BY <2>3, <2>4
<1>17. ModeAnswered'
  <2> SUFFICES ASSUME ~excused, NEW q \in Of("session")', q.at = "handled"
               PROVE  q.mode = server'[q.id].mode
    BY <1>1 DEF ModeAnswered
  <2>1. CASE q = c
    BY <2>1, <1>2, <1>3
  <2>2. CASE q # c
    <3>1. q \in Of("session") /\ q # r
      BY <2>2, <1>1 DEF Of
    <3>2. q.mode = server[q.id].mode /\ q.id \in Known
      BY <3>1 DEF ModeAnswered, Named, NamesARecord, OnRecord, Of
    <3>3. r.kind # "mode"
      BY <3>1 DEF OneSetting, Setting, Of
    <3> QED
      BY <3>2, <3>3, <1>3
  <2> QED
    BY <2>1, <2>2
<1> QED
  BY <1>6, <1>7, <1>8, <1>9, <1>10, <1>11, <1>12, <1>13, <1>14, <1>15, <1>16, <1>17

\* A session request that is sent again asks for what it asked for.
LEMMA ResendInv ==
  ASSUME IInv, NEW r \in sent, Resend(r)
  PROVE  IInv'
<1> USE DEF IInv
<1> DEFINE c == [r EXCEPT !.at = "out", !.id = r.arg]
<1>1. /\ r \in Requests
      /\ NamesARecord(r)
      /\ r.kind = "session"
      /\ sent' = (sent \ {r}) \cup {c}
      /\ UNCHANGED <<server, clicks, screen, cache, excused>>
  BY DEF TypeOK, Named, Resend, Replace
<1>2. r.arg \in Ids
  BY <1>1, KnownIsASession DEF NamesARecord, OnRecord, Ids
<1>3. /\ c \in Requests
      /\ c.n = r.n
      /\ c.kind = "session"
      /\ c.id = r.arg
      /\ c.arg = r.arg
      /\ c.at = "out"
  BY <1>1, <1>2 DEF Requests
<1> HIDE DEF c
<1>4. TypeOK'
  BY <1>1, <1>3 DEF TypeOK
<1>5. Named'
  BY <1>1, <1>3 DEF Named, NamesARecord, OnRecord, Known
<1>6. Mounted'
  BY <1>1, <1>3 DEF Mounted, Of
<1>7. /\ Of("turn")' = Of("turn")
      /\ Of("history")' = Of("history")
      /\ Of("mode")' = Of("mode")
  BY <1>1, <1>3 DEF Of
<1>8. Marked' /\ TraceIsOfTheSession'
  BY <1>1, <1>7 DEF Marked, TraceIsOfTheSession
<1>9. OneSetting'
  BY <1>1, <1>3 DEF OneSetting, Setting, Of
<1>10. Elsewhere'
  BY <1>1, <1>3 DEF Elsewhere, Of
<1>11. OneFetch'
  BY <1>7 DEF OneFetch
<1>12. CatchesUp'
  BY <1>1, <1>7, CatchingUpStays
<1>13. ModeSent' /\ ModeHolds'
  BY <1>1, <1>7 DEF ModeSent, ModeHolds
<1>14. ModeAnswered'
  BY <1>1, <1>3 DEF ModeAnswered, Of
<1> QED
  BY <1>4, <1>5, <1>6, <1>8, <1>9, <1>10, <1>11, <1>12, <1>13, <1>14

\* A request that fails stands for nothing, and the last one for a session brings up the
\* error screen.
LEMMA FailInv ==
  ASSUME IInv, NEW r \in sent, Fail(r)
  PROVE  IInv'
<1> USE DEF IInv
<1>1. /\ r \in Requests
      /\ sent' = sent \ {r}
      /\ screen' = [screen EXCEPT !.error = screen.error \/ (r.kind = "session" /\ r.n = screen.latest)]
      /\ excused' = (excused \/ r.kind # "session")
      /\ UNCHANGED <<server, clicks, cache>>
  BY DEF TypeOK, Fail
<1>2. TypeOK'
  BY <1>1 DEF TypeOK, Screens
<1>3. /\ screen'.session = screen.session
      /\ screen'.mode = screen.mode
      /\ screen'.trace = screen.trace
      /\ screen'.latest = screen.latest
      /\ screen'.faded = screen.faded
      /\ screen'.error = (screen.error \/ (r.kind = "session" /\ r.n = screen.latest))
  BY <1>1 DEF TypeOK, Screens
<1>4. Named'
  BY <1>1, <1>3 DEF Named, NamesARecord, OnRecord, Known
<1>5. Mounted'
  BY <1>1, <1>3 DEF Mounted, Of
<1>6. Marked' /\ TraceIsOfTheSession'
  BY <1>1, <1>3 DEF Marked, TraceIsOfTheSession, Of
<1>7. OneSetting' /\ OneFetch'
  BY <1>1 DEF OneSetting, OneFetch, Setting, Of
<1>8. Elsewhere'
  BY <1>1, <1>3 DEF Elsewhere, Of
<1>9. CASE r.kind # "session"
  <2>1. excused'
    BY <1>1, <1>9
  <2> QED
    BY <2>1, <1>2, <1>4, <1>5, <1>6, <1>7, <1>8 DEF CatchesUp, ModeSent, ModeHolds, ModeAnswered
<1>10. CASE r.kind = "session"
  <2>1. /\ Of("turn")' = Of("turn")
        /\ Of("history")' = Of("history")
        /\ Of("mode")' = Of("mode")
        /\ Of("session")' \subseteq Of("session")
    BY <1>1, <1>10 DEF Of
  <2>2. excused' = excused
    BY <1>1, <1>10 DEF TypeOK
  <2>3. CatchesUp'
    BY <2>1, <2>2, <1>1, <1>3, CatchingUpStays
  <2>4. ModeSent' /\ ModeHolds'
    BY <2>1, <2>2, <1>1, <1>3 DEF ModeSent, ModeHolds
  <2>5. ModeAnswered'
    BY <2>1, <2>2, <1>1 DEF ModeAnswered
  <2> QED
    BY <2>3, <2>4, <2>5, <1>2, <1>4, <1>5, <1>6, <1>7, <1>8
<1> QED
  BY <1>9, <1>10

\* How a request looks from another session: a turn is no longer of the session on display.
Switched(q) == [q EXCEPT !.switched = q.switched \/ q.kind = "turn"]

LEMMA SwitchedIs ==
  ASSUME NEW q \in Requests
  PROVE  /\ Switched(q) \in Requests
         /\ Switched(q).kind = q.kind
         /\ Switched(q).id = q.id
         /\ Switched(q).arg = q.arg
         /\ Switched(q).at = q.at
         /\ q.kind = "turn" => Switched(q).switched
         /\ q.kind # "turn" => Switched(q) = q
<1>1. q.switched \in BOOLEAN /\ (q.switched \/ q.kind = "turn") \in BOOLEAN
  BY DEF Requests
<1>2. /\ Switched(q) \in Requests
      /\ Switched(q).kind = q.kind
      /\ Switched(q).id = q.id
      /\ Switched(q).arg = q.arg
      /\ Switched(q).at = q.at
      /\ Switched(q).switched = (q.switched \/ q.kind = "turn")
  BY <1>1 DEF Switched, Requests
<1>3. q.kind # "turn" => Switched(q) = q
  BY <1>1 DEF Switched, Requests
<1> QED
  BY <1>2, <1>3

\* Another session comes on display: nothing else is being set, its mode is in force, and
\* its history is fetched.
LEMMA EnterSessionInv ==
  ASSUME IInv, NEW r \in sent, EnterSession(r)
  PROVE  IInv'
<1> USE DEF IInv
<1> DEFINE rest == sent \ {r}
           get == Request(0, "history", r.id, None)
<1>1. /\ r \in Requests
      /\ r.kind = "session"
      /\ r.at = "handled"
      /\ r.id # None
      /\ r.id \in Known
      /\ r.id \in Sessions
      /\ r \in Of("session")
  BY KnownIsASession DEF TypeOK, EnterSession, Named, NamesARecord, OnRecord, Of
<1>2. /\ screen' = [screen EXCEPT !.session = r.id, !.mode = r.mode, !.trace = None]
      /\ cache' = [cache EXCEPT ![r.id] = r.turns]
      /\ excused' = (excused \/ (r.id # screen.session /\ Of("history") # {}))
      /\ UNCHANGED <<server, clicks>>
  BY DEF EnterSession, Entered
<1>3. /\ screen'.session = r.id
      /\ screen'.mode = r.mode
      /\ screen'.trace = None
      /\ screen' \in Screens
  BY <1>1, <1>2 DEF TypeOK, Screens, Requests, Ids
<1>4. cache' \in [Sessions -> Nat \cup {None}] /\ excused' \in BOOLEAN
  BY <1>1, <1>2 DEF TypeOK, Requests
<1>5. \/ r.id = screen.session /\ sent' = rest
      \/ r.id # screen.session /\ sent' = {Switched(q) : q \in rest} \cup Fetch(r.id)
  BY DEF EnterSession, Switched
<1>6. /\ get \in Requests
      /\ get.kind = "history"
      /\ get.id = r.id
      /\ get.at = "out"
  BY <1>1, InspectorAssumption DEF Request, Requests, Ids, Kinds
<1>7. /\ \A q \in Fetch(r.id) : q = get
      /\ \A q \in Of("history") : q.id = r.id => Fetch(r.id) = {}
      /\ \/ get \in Fetch(r.id)
         \/ \E q \in Of("history") : q.id = r.id
  BY FetchStarts
<1> HIDE DEF get
<1>8. \A q \in rest : /\ q \in Requests
                      /\ Switched(q) \in Requests
                      /\ Switched(q).kind = q.kind
                      /\ Switched(q).id = q.id
                      /\ Switched(q).arg = q.arg
                      /\ Switched(q).at = q.at
                      /\ q.kind = "turn" => Switched(q).switched
                      /\ q.kind # "turn" => Switched(q) = q
  BY SwitchedIs DEF TypeOK
<1>9. \A p \in sent' :
        \/ p \in rest /\ p.kind # "turn"
        \/ \E q \in rest : /\ p.kind = "turn"
                           /\ q.kind = "turn"
                           /\ p.id = q.id
                           /\ r.id = screen.session => p = q
                           /\ r.id # screen.session => p.switched
        \/ p = get /\ r.id # screen.session /\ p \in Fetch(r.id)
  BY <1>5, <1>7, <1>8
<1>10. sent' \subseteq Requests
  BY <1>5, <1>6, <1>7, <1>8
<1>11. TypeOK'
  BY <1>2, <1>3, <1>4, <1>10 DEF TypeOK
<1>12. Named'
  <2>1. OnRecord(screen.session)'
    BY <1>1, <1>2, <1>3 DEF OnRecord, Known
  <2>2. ASSUME NEW p \in sent'
        PROVE  NamesARecord(p)
    <3>1. \A q \in rest : NamesARecord(q)
      BY DEF Named
    <3> QED
      BY <1>1, <1>6, <1>9, <3>1 DEF NamesARecord, OnRecord
  <2> QED
    BY <2>1, <2>2, <1>2 DEF Named, NamesARecord, OnRecord, Known
<1>13. Mounted'
  BY <1>1, <1>3 DEF Mounted
<1>14. Marked'
  BY <1>3, <1>6, <1>9 DEF Marked, Of
<1>15. TraceIsOfTheSession'
  BY <1>3 DEF TraceIsOfTheSession
<1>16. /\ Of("session")' \subseteq Of("session") \ {r}
       /\ Of("mode")' \subseteq Of("mode")
       /\ Setting' \subseteq Setting \ {r}
  BY <1>1, <1>6, <1>9 DEF Of, Setting
<1>17. OneSetting'
  BY <1>2, <1>16 DEF OneSetting
<1>18. OneFetch'
  <2>1. \A p \in Of("history")' : p \in Of("history") \/ (p = get /\ p \in Fetch(r.id))
    BY <1>9 DEF Of
  <2> QED
    BY <2>1, <1>6, <1>7 DEF OneFetch
<1>19. ~excused' => /\ Of("session")' = {}
                    /\ Of("mode")' = {}
  BY <1>1, <1>2, <1>16 DEF OneSetting, Setting
<1>20. /\ Elsewhere'
       /\ ModeSent'
       /\ ModeAnswered'
  BY <1>19 DEF Elsewhere, ModeSent, ModeAnswered
<1>21. ~excused' => screen.session = None \/ r.id # screen.session
  BY <1>1, <1>2 DEF Elsewhere
<1>22. CatchesUp'
  <2> SUFFICES ASSUME ~excused'
               PROVE  WillCatchUp(screen.session)'
    BY DEF CatchesUp
  <2>1. r.id # screen.session /\ Of("history") = {}
    BY <1>1, <1>2, <1>21
  <2>2. get \in Of("history")'
    BY <2>1, <1>5, <1>6, <1>7 DEF Of
  <2>3. get.id = screen'.session /\ get.at # "handled"
    BY <1>3, <1>6
  <2> QED
    BY <2>2, <2>3 DEF WillCatchUp
<1>23. ModeHolds'
  BY <1>1, <1>2, <1>3 DEF ModeHolds, ModeAnswered
<1> QED
  BY <1>11, <1>12, <1>13, <1>14, <1>15, <1>17, <1>18, <1>20, <1>22, <1>23

\* A turn's answer is shown as that of the session on display, if it knows of no other, and
\* the history on display is fetched if it is the one the turn changed.
LEMMA ShowTurnInv ==
  ASSUME IInv, NEW r \in sent, ShowTurn(r)
  PROVE  IInv'
<1> USE DEF IInv
<1>1. /\ r \in Requests
      /\ r.kind = "turn"
      /\ r \in Of("turn")
      /\ r.id \in Ids
      /\ r.switched \in BOOLEAN
      /\ r.id = screen.session \/ r.switched
      /\ screen.session # None
      /\ screen.session \in Ids
      /\ screen.session \in Known
      /\ screen' = [screen EXCEPT !.trace = [session |-> r.id, switched |-> r.switched]]
      /\ UNCHANGED <<server, clicks, cache, excused>>
  BY DEF ShowTurn, TypeOK, Requests, Screens, Marked, Mounted, Named, OnRecord, Of
<1>2. PICK s \in {r.id, screen.session} : sent' = Refetched(s, sent \ {r})
  BY DEF ShowTurn, Invalidated
<1> DEFINE get == Request(0, "history", s, None)
           tr == [session |-> r.id, switched |-> r.switched]
<1>3. /\ tr \in [session : Ids, switched : BOOLEAN]
      /\ tr.session = r.id
      /\ tr.switched = r.switched
  BY <1>1
<1>4. /\ get \in Requests
      /\ get.kind = "history"
      /\ get.id = s
      /\ get.at = "out"
  BY <1>1, InspectorAssumption DEF Request, Requests, Ids, Kinds
<1>5. /\ \A q \in sent' : \/ /\ q \in sent \ {r}
                             /\ s = screen.session => q.kind # "history" \/ q.id # s
                          \/ s = screen.session /\ q = get
      /\ \A q \in sent \ {r} : s # screen.session \/ q.kind # "history" \/ q.id # s => q \in sent'
      /\ s = screen.session => get \in sent'
  BY <1>2, RefetchedIs
<1> HIDE DEF get, tr
<1>6. screen' = [screen EXCEPT !.trace = tr]
  BY <1>1 DEF tr
<1>7. /\ screen' \in Screens
      /\ screen'.session = screen.session
      /\ screen'.mode = screen.mode
      /\ screen'.trace = tr
      /\ screen'.latest = screen.latest
      /\ screen'.error = screen.error
      /\ screen'.faded = screen.faded
  BY <1>3, <1>6 DEF TypeOK, Screens
<1>8. TypeOK'
  <2>1. sent' \subseteq Requests
    BY <1>4, <1>5 DEF TypeOK
  <2> QED
    BY <2>1, <1>1, <1>7 DEF TypeOK
<1>9. Named'
  <2>1. \A q \in sent' : q \in sent \/ (q = get /\ s \in Known)
    BY <1>1, <1>5
  <2>2. None \notin Known
    BY KnownIsASession
  <2> QED
    BY <2>1, <2>2, <1>1, <1>4, <1>7 DEF Named, NamesARecord, OnRecord, Known
<1>10. /\ Of("session")' = Of("session")
       /\ Of("mode")' = Of("mode")
       /\ Of("turn")' = Of("turn") \ {r}
       /\ Setting' = Setting
  BY <1>1, <1>4, <1>5 DEF Of, Setting
<1>11. Mounted'
  BY <1>7, <1>10 DEF Mounted
<1>12. Marked'
  BY <1>7, <1>10 DEF Marked
<1>13. TraceIsOfTheSession'
  BY <1>1, <1>3, <1>7 DEF TraceIsOfTheSession
<1>14. /\ OneSetting'
       /\ Elsewhere'
       /\ ModeSent'
       /\ ModeHolds'
       /\ ModeAnswered'
  BY <1>1, <1>7, <1>10 DEF OneSetting, Elsewhere, ModeSent, ModeHolds, ModeAnswered
<1>15. OneFetch'
  BY <1>4, <1>5 DEF OneFetch, Of
<1>16. CatchesUp'
  <2>1. CASE s = screen.session
    <3>1. get \in Of("history")' /\ get.id = screen'.session /\ get.at # "handled"
      BY <2>1, <1>4, <1>5, <1>7 DEF Of
    <3> QED
      BY <3>1 DEF CatchesUp, WillCatchUp
  <2>2. CASE s # screen.session
    <3>1. Of("history")' = Of("history")
      BY <2>2, <1>1, <1>5 DEF Of
    <3>2. r.id # screen.session
      BY <2>2
    <3>3. ASSUME ~excused
          PROVE  WillCatchUp(screen.session)'
      <4>1. PICK d \in Known : d = screen.session /\ WillCatchUp(d)
        BY <1>1, <3>3 DEF CatchesUp
      <4>2. WillCatchUp(d)'
        BY <4>1, <3>1, <3>2, <1>1, <1>10 DEF WillCatchUp
      <4> QED
        BY <4>1, <4>2, <1>7
    <3> QED
      BY <3>3, <1>1 DEF CatchesUp
  <2> QED
    BY <2>1, <2>2
<1> QED
  BY <1>8, <1>9, <1>11, <1>12, <1>13, <1>14, <1>15, <1>16

\* A history that comes is up to date, or a turn yet to be shown will fetch it again.
LEMMA ShowHistoryInv ==
  ASSUME IInv, NEW r \in sent, ShowHistory(r)
  PROVE  IInv'
<1> USE DEF IInv
<1>1. /\ r \in Requests
      /\ r.kind = "history"
      /\ r.at = "handled"
      /\ r \in Of("history")
      /\ r.id \in Sessions
      /\ cache' = [cache EXCEPT ![r.id] = r.turns]
      /\ sent' = sent \ {r}
      /\ UNCHANGED <<server, clicks, screen, excused>>
  BY KnownIsASession DEF ShowHistory, TypeOK, Named, NamesARecord, OnRecord, Of
<1>2. /\ cache' \in [Sessions -> Nat \cup {None}]
      /\ cache'[r.id] = r.turns
      /\ \A t \in Sessions : t # r.id => cache'[t] = cache[t]
  BY <1>1 DEF TypeOK, Requests
<1>3. TypeOK'
  BY <1>1, <1>2 DEF TypeOK
<1>4. Named'
  BY <1>1 DEF Named, NamesARecord, OnRecord, Known
<1>5. /\ Of("session")' = Of("session")
      /\ Of("mode")' = Of("mode")
      /\ Of("turn")' = Of("turn")
      /\ Of("history")' = Of("history") \ {r}
      /\ Setting' = Setting
  BY <1>1 DEF Of, Setting
<1>6. /\ Mounted'
      /\ Marked'
      /\ TraceIsOfTheSession'
      /\ OneSetting'
      /\ Elsewhere'
      /\ OneFetch'
      /\ ModeSent'
      /\ ModeHolds'
      /\ ModeAnswered'
  BY <1>1, <1>5 DEF Mounted, Marked, TraceIsOfTheSession, OneSetting, Elsewhere, OneFetch,
                    ModeSent, ModeHolds, ModeAnswered
<1>7. CatchesUp'
  <2> SUFFICES ASSUME ~excused, screen.session # None
               PROVE  WillCatchUp(screen.session)'
    BY <1>1 DEF CatchesUp
  <2>1. PICK d \in Known : d = screen.session /\ WillCatchUp(d)
    BY DEF CatchesUp, Named, OnRecord
  <2> SUFFICES WillCatchUp(d)'
    BY <1>1, <2>1
  <2>2. d \in Sessions
    BY KnownIsASession
  <2>3. CASE r.id = d
    <3>1. \A h \in Of("history")' : h.id # d
      BY <2>3, <1>1, <1>5 DEF OneFetch
    <3>2. CASE \E t \in Of("turn") : t.id = d /\ t.at = "handled"
      BY <3>2, <1>5 DEF WillCatchUp
    <3>3. CASE ~\E t \in Of("turn") : t.id = d /\ t.at = "handled"
      <4>1. PICK h \in Of("history") :
              h.id = d /\ (h.at = "handled" => h.turns = server[d].turns)
        BY <3>3, <2>1, <2>3, <1>1 DEF WillCatchUp
      <4>2. h = r
        BY <4>1, <2>3, <1>1 DEF OneFetch
      <4>3. cache'[d] = server'[d].turns
        BY <4>1, <4>2, <2>3, <1>1, <1>2
      <4> QED
        BY <4>3, <3>1 DEF WillCatchUp
    <3> QED
      BY <3>2, <3>3
  <2>4. CASE r.id # d
    <3>1. cache'[d] = cache[d]
      BY <2>2, <2>4, <1>2
    <3> QED
      BY <3>1, <2>1, <2>4, <1>1, <1>5 DEF WillCatchUp
  <2> QED
    BY <2>3, <2>4
<1> QED
  BY <1>3, <1>4, <1>6, <1>7

\* A mode that has been set is in force.
LEMMA ModeIsSetInv ==
  ASSUME IInv, NEW r \in sent, ModeIsSet(r)
  PROVE  IInv'
<1> USE DEF IInv
<1>1. /\ r.kind = "mode"
      /\ r.at = "handled"
      /\ r \in Of("mode")
      /\ sent' = sent \ {r}
      /\ UNCHANGED <<server, clicks, screen, cache, excused>>
  BY DEF ModeIsSet, Of
<1>2. TypeOK' /\ Named'
  BY <1>1 DEF TypeOK, Named, NamesARecord, OnRecord, Known
<1>3. /\ Of("session")' = Of("session")
      /\ Of("mode")' = Of("mode") \ {r}
      /\ Of("turn")' = Of("turn")
      /\ Of("history")' = Of("history")
      /\ Setting' \subseteq Setting
  BY <1>1 DEF Of, Setting
<1>4. /\ Mounted'
      /\ Marked'
      /\ TraceIsOfTheSession'
      /\ OneSetting'
      /\ Elsewhere'
      /\ OneFetch'
      /\ ModeSent'
      /\ ModeAnswered'
  BY <1>1, <1>3 DEF Mounted, Marked, TraceIsOfTheSession, OneSetting, Elsewhere, OneFetch,
                    ModeSent, ModeAnswered
<1>5. CatchesUp'
  BY <1>1, <1>3, CatchingUpStays
<1>6. ModeHolds'
  <2>1. ~excused => \A q \in Of("mode") : q.at # "out"
    BY <1>1 DEF OneSetting, Setting
  <2> QED
    BY <2>1, <1>1 DEF ModeHolds
<1> QED
  BY <1>2, <1>4, <1>5, <1>6

LEMMA StepInvariant ==
  ASSUME IInv, [Next]_vars
  PROVE  IInv'
<1>1. CASE UNCHANGED vars
  BY <1>1 DEF vars, IInv, TypeOK, Named, NamesARecord, OnRecord, Known, Mounted, Marked,
              TraceIsOfTheSession, OneSetting, Elsewhere, OneFetch, CatchesUp, WillCatchUp,
              ModeSent, ModeHolds, ModeAnswered, Setting, Of
<1>2. CASE \E id \in Known \cup {None} : Select(id)
  BY <1>2, SelectInv
<1>3. CASE Fade
  BY <1>3, FadeInv
<1>4. CASE Retry
  BY <1>4, RetryInv
<1>5. CASE Send
  BY <1>5, SendInv
<1>6. CASE \E mode \in Modes : ChangeMode(mode)
  BY <1>6, ChangeModeInv
<1>7. ASSUME NEW r \in sent,
             \/ Handle(r)
             \/ Resend(r)
             \/ Fail(r)
             \/ EnterSession(r)
             \/ ShowTurn(r)
             \/ ShowHistory(r)
             \/ ModeIsSet(r)
      PROVE  IInv'
  BY <1>7, HandleInv, ResendInv, FailInv, EnterSessionInv, ShowTurnInv, ShowHistoryInv,
     ModeIsSetInv
<1>8. CASE Rest
  BY <1>1, <1>8 DEF Rest
<1> QED
  BY <1>1, <1>2, <1>3, <1>4, <1>5, <1>6, <1>7, <1>8 DEF Next

LEMMA Invariance == Spec => []IInv
<1>1. Init => IInv
  BY InitInv
<1>2. IInv /\ [Next]_vars => IInv'
  BY StepInvariant
<1> QED
  BY <1>1, <1>2, PTL DEF Spec

-----------------------------------------------------------------------------------
(* Theorems.                                                               *)

\* Whatever overtakes what and whatever is lost, the window's state stays well formed:
\* no request names a session that is not on record, and the app is mounted with one.
THEOREM TypeCorrect == Spec => [](TypeOK /\ Named /\ Mounted)
<1>1. IInv => TypeOK /\ Named /\ Mounted
  BY DEF IInv
<1> QED
  BY <1>1, Invariance, PTL

\* The trace on display is that of a turn of the session on display, unless the session was
\* changed while the turn ran (turnMutation.onSuccess shows it whatever is on display).
THEOREM TracesStayHome == Spec => []TraceIsOfTheSession
<1>1. IInv => TraceIsOfTheSession
  BY DEF IInv
<1> QED
  BY <1>1, Invariance, PTL

\* Once nothing is in flight, the history on display is the session's, for any number of
\* sessions, clicks, turns and re-sent requests, as long as no answer it needs was lost and
\* no session or mode requests have met.
THEOREM HistoriesCatchUp == Spec => []HistoryCatchesUp
<1>1. ASSUME IInv
      PROVE  HistoryCatchesUp
  <2> SUFFICES ASSUME sent = {}, screen.session # None, ~excused
               PROVE  cache[screen.session] = server[screen.session].turns
    BY DEF HistoryCatchesUp
  <2>1. WillCatchUp(screen.session)
    BY <1>1 DEF IInv, CatchesUp
  <2> QED
    BY <2>1 DEF WillCatchUp, Of
<1> QED
  BY <1>1, Invariance, PTL

\* Once it has been set, the mode on display is in force for the session on display, under
\* the same excuses.
THEOREM ModesAreInForce == Spec => []ModeIsInForce
<1>1. ASSUME IInv
      PROVE  ModeIsInForce
  <2> SUFFICES ASSUME Setting = {}, screen.session # None, ~excused
               PROVE  screen.mode = server[screen.session].mode
    BY DEF ModeIsInForce
  <2>1. Of("mode") = {}
    BY DEF Setting
  <2> QED
    BY <1>1, <2>1 DEF IInv, ModeHolds
<1> QED
  BY <1>1, Invariance, PTL

===================================================================================
