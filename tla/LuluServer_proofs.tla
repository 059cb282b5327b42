---------------------------- MODULE LuluServer_proofs -----------------------------
(***************************************************************************)
(* Theorems about LuluServer, for any requests in flight, sessions,        *)
(* scopes, profiles, personas, modes and keys, however many requests are   *)
(* made: a turn keeps its scope, sessions do not mix and are independent,  *)
(* keys stay saved and profiles keep their persona.                        *)
(***************************************************************************)
EXTENDS LuluServer, TLAPS

-----------------------------------------------------------------------------------
(* The shapes of the state.                                                *)

Texts == Personas \cup {Blank}
Asking == Scopes \cup {None}
Arguments == {None} \cup Scopes \cup ModeChoices \cup Profiles \cup Keys
               \cup [name : Profiles, source : Personas \cup Profiles]

\* Where a request of each kind can be, and where it has an entry.
PhasesOf(kind) ==
  CASE kind = "turn"    -> {"session", "install", "scope", "search", "model", "check", "remember",
                            "trace", "last"}
    [] kind = "create"  -> {"session", "install"}
    [] kind = "mode"    -> {"lookup", "mode"}
    [] kind = "profile" -> {"lookup", "profile", "system", "name"}
    [] kind = "cost"    -> {"lookup", "cost", "spent"}
    [] kind = "new"     -> {"exists", "text", "open", "persona"}
    [] kind = "key"     -> {"readenv", "truncate", "writeenv", "apply", "rebuild", "answer"}

Holding == {"install", "scope", "search", "model", "check", "remember", "trace", "last", "mode",
            "profile", "system", "name", "cost", "spent"}

Pcs == {"idle", "session", "install", "scope", "search", "model", "check", "remember", "trace",
        "last", "lookup", "mode", "profile", "system", "name", "cost", "spent", "exists", "text",
        "open", "persona", "readenv", "truncate", "writeenv", "apply", "rebuild", "answer"}

Doing == [pc : Pcs, kind : Kinds \cup {None}, id : SessionIds \cup {None}, arg : Arguments,
          obj : Nat \cup {None}, iter : Nat, buf : SUBSET Keys, text : Texts \cup {None},
          searched : Asking, remembered : Asking, personas : SUBSET Texts, alone : BOOLEAN]

Entry == [persona : Texts, profile : Profiles, mode : ModeChoices, model : Providers,
          scope : Asking, trace : Asking, last : Asking]

Wish == [mode : ModeChoices, profile : Profiles, persona : Texts, scope : Asking]

\* What a request has in each of its phases; n is the number of entries.
Phase(d, n) ==
  /\ d.pc = "idle" => d = Idle
  /\ d.pc # "idle" => /\ d.kind \in Kinds /\ d.id \in SessionIds /\ d.arg \in Args(d.kind)
                      /\ d.pc \in PhasesOf(d.kind)
  /\ d.pc \in Holding => d.obj \in 1..n
  /\ d.pc \notin Holding => d.obj = None
  /\ d.pc \in {"session", "install", "scope"} =>
       d.searched = None /\ d.remembered = None /\ d.personas = {}
  /\ d.pc \in {"open", "persona", "system", "name"} => d.text # None
  /\ d.kind # "turn" => d.personas = {}

Shape ==
  /\ request \in [Requests -> Doing] /\ \A r \in Requests : Phase(request[r], Len(entry))
  /\ sessions \in [SessionIds -> 1..Len(entry) \cup {None}]
  /\ entry \in Seq(Entry)
  /\ provider \in Providers /\ env \subseteq Keys
  /\ asked \in [SessionIds -> SUBSET Asking] /\ want \in [SessionIds -> Wish]
  /\ disk \in [Profiles -> Texts \cup {None}] /\ created \in [Profiles -> SUBSET Texts]

\* The kinds and what comes with each.
LEMMA KindsAre ==
  /\ Kinds \subseteq {"turn", "create", "mode", "profile", "new", "key", "cost"}
  /\ Args("turn") = Scopes /\ Args("mode") = ModeChoices
  /\ Args("create") = Profiles /\ Args("profile") = Profiles
  /\ Args("new") = [name : Profiles, source : Personas \cup Profiles]
  /\ Args("key") = Keys /\ Args("cost") = {None}
  /\ PhasesOf("turn") = {"session", "install", "scope", "search", "model", "check", "remember",
                         "trace", "last"}
  /\ PhasesOf("create") = {"session", "install"} /\ PhasesOf("mode") = {"lookup", "mode"}
  /\ PhasesOf("profile") = {"lookup", "profile", "system", "name"}
  /\ PhasesOf("cost") = {"lookup", "cost", "spent"}
  /\ PhasesOf("new") = {"exists", "text", "open", "persona"}
  /\ PhasesOf("key") = {"readenv", "truncate", "writeenv", "apply", "rebuild", "answer"}
BY ServerAssumption DEF Args, PhasesOf

\* Where a request is tells its kind.
LEMMA KindOf ==
  ASSUME NEW d, NEW n, Phase(d, n)
  PROVE  /\ d.pc \in {"scope", "search", "model", "check", "remember", "trace", "last"} =>
              d.kind = "turn" /\ d.arg \in Scopes
         /\ d.pc \in {"session", "install"} =>
              (d.kind = "turn" /\ d.arg \in Scopes) \/ (d.kind = "create" /\ d.arg \in Profiles)
         /\ d.pc = "lookup" => d.kind \in {"mode", "profile", "cost"}
         /\ d.pc = "mode" => d.kind = "mode" /\ d.arg \in ModeChoices
         /\ d.pc \in {"profile", "system", "name"} => d.kind = "profile" /\ d.arg \in Profiles
         /\ d.pc \in {"cost", "spent"} => d.kind = "cost"
         /\ d.pc \in {"exists", "text", "open", "persona"} =>
              d.kind = "new" /\ d.arg \in [name : Profiles, source : Personas \cup Profiles]
         /\ d.pc \in {"readenv", "truncate", "writeenv", "apply", "rebuild", "answer"} =>
              d.kind = "key" /\ d.arg \in Keys
         /\ d.pc # "idle" => d.id \in SessionIds /\ d.kind \in Kinds
<1>1. CASE d.pc = "idle"
  BY <1>1
<1>2. CASE d.pc # "idle"
  <2>1. d.kind \in {"turn", "create", "mode", "profile", "new", "key", "cost"} /\ d.id \in SessionIds
        /\ d.arg \in Args(d.kind) /\ d.pc \in PhasesOf(d.kind) /\ d.kind \in Kinds
    BY <1>2, KindsAre DEF Phase
  <2>2. CASE d.kind = "turn"
    BY <2>1, <2>2, KindsAre
  <2>3. CASE d.kind = "create"
    BY <2>1, <2>3, KindsAre
  <2>4. CASE d.kind = "mode"
    BY <2>1, <2>4, KindsAre
  <2>5. CASE d.kind = "profile"
    BY <2>1, <2>5, KindsAre
  <2>6. CASE d.kind = "new"
    BY <2>1, <2>6, KindsAre
  <2>7. CASE d.kind = "key"
    BY <2>1, <2>7, KindsAre
  <2>8. CASE d.kind = "cost"
    BY <2>1, <2>8, KindsAre
  <2> QED BY <2>1, <2>2, <2>3, <2>4, <2>5, <2>6, <2>7, <2>8
<1> QED BY <1>1, <1>2

LEMMA IdleIs ==
  /\ Idle \in Doing /\ Idle.pc = "idle" /\ Idle.kind = None /\ Idle.id = None /\ Idle.obj = None
  /\ Idle.searched = None /\ Idle.remembered = None /\ Idle.personas = {} /\ Idle.text = None
  /\ \A n : Phase(Idle, n)
<1>1. /\ Idle.pc = "idle" /\ Idle.kind = None /\ Idle.id = None /\ Idle.obj = None
      /\ Idle.searched = None /\ Idle.remembered = None /\ Idle.personas = {} /\ Idle.text = None
  BY DEF Idle
<1>2. Idle \in Doing
  <2>1. None \in Arguments
    BY DEF Arguments
  <2>2. None \in Asking
    BY DEF Asking
  <2>3. TRUE \in BOOLEAN
    OBVIOUS
  <2> QED BY <2>1, <2>2, <2>3 DEF Idle, Doing, Pcs
<1> QED BY <1>1, <1>2 DEF Phase, Holding

\* What the state says of a request.
LEMMA Here ==
  ASSUME Shape, NEW r \in Requests
  PROVE  /\ request[r] \in Doing /\ Phase(request[r], Len(entry)) /\ Len(entry) \in Nat
         /\ request[r].pc \in Holding => Loop(r) \in Entry /\ request[r].obj \in DOMAIN entry
<1>1. /\ request[r] \in Doing /\ Phase(request[r], Len(entry)) /\ Len(entry) \in Nat
      /\ entry \in Seq(Entry) /\ DOMAIN entry = 1..Len(entry)
  BY DEF Shape
<1> QED BY <1>1 DEF Phase, Loop

-----------------------------------------------------------------------------------
(* Each step keeps the shapes.                                             *)

LEMMA OneMoves ==
  ASSUME Shape, NEW r \in Requests, NEW n, Set(r, n)
  PROVE  request'[r] = n /\ \A q \in Requests : q # r => request'[q] = request[q]
BY DEF Shape, Set

\* The request moves, the rest keeps its shapes.
LEMMA Moved ==
  ASSUME Shape, NEW r \in Requests, NEW n \in Doing, Set(r, n), Phase(n, Len(entry')),
         entry' \in Seq(Entry), Len(entry') >= Len(entry),
         sessions' \in [SessionIds -> 1..Len(entry') \cup {None}],
         provider' \in Providers, env' \subseteq Keys, UNCHANGED asked,
         want' \in [SessionIds -> Wish],
         disk' \in [Profiles -> Texts \cup {None}], created' \in [Profiles -> SUBSET Texts]
  PROVE  Shape'
<1>1. request' \in [Requests -> Doing] /\ request'[r] = n
      /\ \A q \in Requests : q # r => request'[q] = request[q]
  BY DEF Shape, Set
<1>2. ASSUME NEW q \in Requests, q # r PROVE Phase(request'[q], Len(entry'))
  <2>1. request'[q] = request[q] /\ Phase(request[q], Len(entry))
        /\ Len(entry) \in Nat /\ Len(entry') \in Nat
    BY <1>1, <1>2 DEF Shape
  <2>2. request[q].obj \in 1..Len(entry) => request[q].obj \in 1..Len(entry')
    BY <2>1
  <2> QED BY <2>1, <2>2 DEF Phase
<1> QED BY <1>1, <1>2 DEF Shape

\* Only the request moves.
LEMMA OnlyMoved ==
  ASSUME Shape, NEW r \in Requests, NEW n \in Doing, Set(r, n), Phase(n, Len(entry)),
         UNCHANGED <<sessions, entry, provider, env, asked, want, disk, created>>
  PROVE  Shape'
<1>1. Len(entry) \in Nat
  BY DEF Shape
<1> QED BY <1>1, Moved DEF Shape

\* The profiles on disk change.
LEMMA Written ==
  ASSUME Shape, NEW r \in Requests, NEW n \in Doing, Set(r, n), Phase(n, Len(entry)),
         UNCHANGED <<sessions, entry, provider, env, asked, want>>,
         disk' \in [Profiles -> Texts \cup {None}], created' \in [Profiles -> SUBSET Texts]
  PROVE  Shape'
<1>1. Len(entry) \in Nat
  BY DEF Shape
<1> QED BY <1>1, Moved DEF Shape

\* An entry is changed, and perhaps what is wanted of its session.
LEMMA Updated ==
  ASSUME Shape, NEW r \in Requests, NEW n \in Doing, Set(r, n), Phase(n, Len(entry)),
         NEW e \in DOMAIN entry, NEW x \in Entry, entry' = [entry EXCEPT ![e] = x],
         UNCHANGED <<sessions, provider, env, asked, disk, created>>,
         want' \in [SessionIds -> Wish]
  PROVE  Shape'
<1>1. entry \in Seq(Entry) /\ Len(entry) \in Nat
  BY DEF Shape
<1>2. entry' \in Seq(Entry) /\ Len(entry') = Len(entry)
  BY <1>1
<1> QED BY <1>1, <1>2, Moved DEF Shape

LEMMA BeginKeepsShape ==
  ASSUME Shape, NEW r \in Requests, NEW kind \in Kinds, NEW s \in SessionIds,
         NEW arg \in Args(kind), Begin(r, kind, s, arg)
  PROVE  Shape'
<1> DEFINE n == [Idle EXCEPT !.pc = FirstStep(kind), !.kind = kind, !.id = s, !.arg = arg]
<1>1. Set(r, n) /\ UNCHANGED <<sessions, entry, provider, env, asked, want, disk, created>>
  BY DEF Begin
<1>2. /\ FirstStep(kind) \in {"session", "exists", "readenv", "lookup"}
      /\ FirstStep(kind) \in PhasesOf(kind) /\ arg \in Arguments
  <2>1. kind \in {"turn", "create", "mode", "profile", "new", "key", "cost"}
    BY KindsAre
  <2> QED BY <2>1, KindsAre DEF FirstStep, Arguments
<1>3. n \in Doing
  BY <1>2, IdleIs DEF Doing, Pcs
<1>4. /\ n.pc = FirstStep(kind) /\ n.kind = kind /\ n.id = s /\ n.arg = arg /\ n.obj = None
      /\ n.searched = None /\ n.remembered = None /\ n.personas = {}
  BY DEF Idle
<1> HIDE DEF n
<1>5. Phase(n, Len(entry))
  BY <1>2, <1>4 DEF Phase, Holding
<1> QED BY <1>1, <1>3, <1>5, OnlyMoved

\* A request that goes on to another phase.
LEMMA Goes ==
  ASSUME Shape, NEW r \in Requests, NEW n \in Doing, request[r].pc # "idle",
         n.kind = request[r].kind, n.id = request[r].id, n.arg = request[r].arg,
         n.pc \in PhasesOf(n.kind), n.pc # "idle",
         NEW m \in Nat, n.pc \in Holding => n.obj \in 1..m, n.pc \notin Holding => n.obj = None,
         n.pc \in {"session", "install", "scope"} =>
           n.searched = None /\ n.remembered = None /\ n.personas = {},
         n.pc \in {"open", "persona", "system", "name"} => n.text # None,
         n.kind # "turn" => n.personas = {}
  PROVE  Phase(n, m)
BY Here DEF Phase

LEMMA ProfileStepsKeepShape ==
  ASSUME Shape, NEW r \in Requests,
         TestProfile(r) \/ ChooseText(r) \/ TruncatePersona(r) \/ WritePersona(r)
  PROVE  Shape'
<1> DEFINE d == request[r]
<1>1. d \in Doing /\ Phase(d, Len(entry)) /\ Len(entry) \in Nat
  BY Here
<1>2. /\ d.kind = "new" /\ d.arg \in [name : Profiles, source : Personas \cup Profiles] /\ d.pc # "idle"
      /\ d.obj = None /\ d.personas = {} /\ d.arg.name \in Profiles
  <2>1. d.pc \in {"exists", "text", "open", "persona"}
    BY DEF TestProfile, ChooseText, TruncatePersona, WritePersona, At
  <2> QED BY <1>1, <2>1, KindOf DEF Phase, Holding
<1>3. disk \in [Profiles -> Texts \cup {None}] /\ created \in [Profiles -> SUBSET Texts]
  BY DEF Shape
<1>4. CASE TestProfile(r)
  <2>1. UNCHANGED <<sessions, entry, provider, env, asked, want, disk, created>>
        /\ (Set(r, Idle) \/ Set(r, [d EXCEPT !.pc = "text"])) /\ d.pc = "exists"
    BY <1>4 DEF TestProfile, Goto, profiles, At
  <2>2. CASE Set(r, Idle)
    BY <2>1, <2>2, IdleIs, OnlyMoved
  <2>3. CASE Set(r, [d EXCEPT !.pc = "text"])
    <3> DEFINE n == [d EXCEPT !.pc = "text"]
    <3>1. /\ n \in Doing /\ n.pc = "text" /\ n.kind = "new" /\ n.id = d.id /\ n.arg = d.arg
          /\ n.obj = None /\ n.personas = {}
      BY <1>1, <1>2 DEF Doing, Pcs
    <3> HIDE DEF n
    <3>2. Phase(n, Len(entry))
      BY <1>1, <1>2, <3>1, KindsAre, Goes DEF Holding
    <3> QED BY <2>1, <2>3, <3>1, <3>2, OnlyMoved DEF n
  <2> QED BY <2>1, <2>2, <2>3
<1>5. CASE ChooseText(r)
  <2> DEFINE text == IF d.arg.source \in Profiles THEN Persona(d.arg.source) ELSE d.arg.source
             n == [d EXCEPT !.pc = "open", !.text = text]
  <2>1. /\ UNCHANGED <<sessions, entry, provider, env, asked, want, disk, created>>
        /\ Set(r, IF text = None THEN Idle ELSE n)
    BY <1>5 DEF ChooseText, profiles
  <2>2. CASE text = None
    BY <2>1, <2>2, IdleIs, OnlyMoved
  <2>3. CASE text # None
    <3>1. text \in Texts
      BY <1>2, <1>3, <2>3, ServerAssumption DEF Persona, Texts
    <3> HIDE DEF text
    <3>2. /\ n \in Doing /\ n.pc = "open" /\ n.kind = "new" /\ n.id = d.id /\ n.arg = d.arg
          /\ n.obj = None /\ n.personas = {} /\ n.text # None
      BY <1>1, <1>2, <2>3, <3>1 DEF Doing, Pcs
    <3> HIDE DEF n
    <3>3. Phase(n, Len(entry))
      BY <1>1, <1>2, <3>2, KindsAre, Goes DEF Holding
    <3> QED BY <2>1, <2>3, <3>2, <3>3, OnlyMoved
  <2> QED BY <2>2, <2>3
<1>6. CASE TruncatePersona(r)
  <2> DEFINE n == [d EXCEPT !.pc = "persona"]
  <2>1. /\ UNCHANGED <<sessions, entry, provider, env, asked, want, created>>
        /\ Set(r, n) /\ disk' = [disk EXCEPT ![d.arg.name] = Blank] /\ d.pc = "open"
    BY <1>6 DEF TruncatePersona, Goto, At
  <2>2. disk' \in [Profiles -> Texts \cup {None}]
    BY <1>3, <2>1 DEF Texts
  <2>3. /\ n \in Doing /\ n.pc = "persona" /\ n.kind = "new" /\ n.id = d.id /\ n.arg = d.arg
        /\ n.obj = None /\ n.personas = {} /\ n.text # None
    BY <1>1, <1>2, <2>1 DEF Doing, Pcs, Phase
  <2> HIDE DEF n
  <2>4. Phase(n, Len(entry))
    BY <1>1, <1>2, <2>3, KindsAre, Goes DEF Holding
  <2> QED BY <1>3, <2>1, <2>2, <2>3, <2>4, Written
<1>7. CASE WritePersona(r)
  <2>1. /\ UNCHANGED <<sessions, entry, provider, env, asked, want>> /\ d.pc = "persona"
        /\ Set(r, Idle) /\ disk' = [disk EXCEPT ![d.arg.name] = d.text]
        /\ created' = [created EXCEPT ![d.arg.name] = @ \cup {d.text}]
    BY <1>7 DEF WritePersona, At
  <2>2. d.text \in Texts
    BY <1>1, <2>1 DEF Doing, Phase
  <2>3. disk' \in [Profiles -> Texts \cup {None}] /\ created' \in [Profiles -> SUBSET Texts]
    BY <1>2, <1>3, <2>1, <2>2
  <2> QED BY <2>1, <2>3, IdleIs, Written
<1> QED BY <1>4, <1>5, <1>6, <1>7

\* A request that has its entry: it goes on with it, or is done.
LEMMA EnteredIs ==
  ASSUME Shape, NEW r \in Requests, NEW m \in Nat, NEW e \in 1..m,
         request[r].pc \in {"session", "install"}, Entered(r, e)
  PROVE  \E n \in Doing :
           /\ Set(r, n) /\ Phase(n, m)
           /\ \/ n = Idle
              \/ n = [request[r] EXCEPT !.pc = "scope", !.obj = e] /\ request[r].kind = "turn"
<1> DEFINE d == request[r]
           n == [d EXCEPT !.pc = "scope", !.obj = e]
<1>1. d \in Doing /\ Phase(d, Len(entry))
  BY Here
<1>2. CASE d.kind = "turn"
  <2>1. Set(r, n)
    BY <1>2 DEF Entered
  <2>2. /\ n \in Doing /\ n.pc = "scope" /\ n.kind = "turn" /\ n.id = d.id /\ n.arg = d.arg
        /\ n.obj = e /\ n.searched = None /\ n.remembered = None /\ n.personas = {}
    <3>1. d.searched = None /\ d.remembered = None /\ d.personas = {} /\ e \in Nat
      <4>1. d.pc \in {"session", "install"}
        OBVIOUS
      <4> QED BY <1>1, <4>1 DEF Phase
    <3> QED BY <1>1, <1>2, <3>1 DEF Doing, Pcs
  <2>3. d.pc # "idle" /\ n.pc \in PhasesOf(n.kind)
    BY <2>2, KindsAre
  <2> HIDE DEF n
  <2>4. Phase(n, m)
    BY <1>2, <2>2, <2>3, Goes DEF Holding
  <2> QED BY <1>2, <2>1, <2>2, <2>4 DEF n
<1>3. CASE d.kind # "turn"
  <2>1. Set(r, Idle)
    BY <1>3 DEF Entered
  <2> QED BY <2>1, IdleIs
<1> QED BY <1>2, <1>3

LEMMA FoundKeepsShape ==
  ASSUME Shape, NEW r \in Requests, Found(r)
  PROVE  Shape'
<1> DEFINE e == sessions[request[r].id]
<1>1. /\ request[r].pc = "session" /\ e # None /\ Entered(r, e)
      /\ UNCHANGED <<sessions, entry, provider, env, asked, want, disk, created>>
  BY DEF Found, At, Known, profiles
<1>2. e \in 1..Len(entry) /\ Len(entry) \in Nat
  <2>1. request[r].id \in SessionIds
    BY <1>1, Here, KindOf
  <2> QED BY <1>1, <2>1 DEF Shape
<1>3. PICK n \in Doing : Set(r, n) /\ Phase(n, Len(entry))
  BY <1>1, <1>2, EnteredIs
<1> QED BY <1>1, <1>3, OnlyMoved

\* The entry _build_loop makes.
Made(p) == [persona |-> Persona(p), profile |-> p, mode |-> ServerMode, model |-> provider,
            scope |-> None, trace |-> None, last |-> None]

LEMMA BuildIs ==
  ASSUME Shape, NEW r \in Requests, Build(r)
  PROVE  \E p \in Profiles : \E n \in Doing :
           /\ p = IF request[r].kind = "create" THEN request[r].arg ELSE Default
           /\ Persona(p) \in Texts /\ Made(p) \in Entry
           /\ request[r].pc = "session" /\ sessions[request[r].id] = None
           /\ request[r].id \in SessionIds
           /\ entry' = Append(entry, Made(p)) /\ entry' \in Seq(Entry)
           /\ Len(entry') = Len(entry) + 1 /\ DOMAIN entry' = 1..Len(entry) + 1
           /\ \A e \in DOMAIN entry : entry'[e] = entry[e]
           /\ entry'[Len(entry) + 1] = Made(p)
           /\ want' = [want EXCEPT ![request[r].id] = [@ EXCEPT !.profile = p, !.persona = Persona(p)]]
           /\ Set(r, n) /\ n = [request[r] EXCEPT !.pc = "install", !.obj = Len(entry) + 1]
           /\ Phase(n, Len(entry'))
           /\ UNCHANGED <<sessions, provider, env, asked, disk, created, met, saved, keysMet, spoiled>>
<1> DEFINE d == request[r]
           p == IF d.kind = "create" THEN d.arg ELSE Default
           l == Len(entry)
           n == [d EXCEPT !.pc = "install", !.obj = l + 1]
<1>1. /\ d.pc = "session" /\ sessions[d.id] = None /\ Persona(p) # None
      /\ entry' = Append(entry, Made(p)) /\ Set(r, n)
      /\ UNCHANGED <<sessions, provider, env, asked, disk, created, met, saved, keysMet, spoiled>>
  BY DEF Build, At, Known, Made, profiles
<1>2. /\ d \in Doing /\ Phase(d, Len(entry)) /\ l \in Nat /\ d.id \in SessionIds
      /\ d.kind \in {"turn", "create"}
      /\ d.kind = "create" => d.arg \in Profiles
  <2>1. d.kind \in {"turn", "create"} /\ (d.kind = "create" => d.arg \in Profiles)
    BY <1>1, Here, KindOf
  <2> QED BY <1>1, <2>1, Here, KindOf
<1>3. p \in Profiles
  BY <1>2, ServerAssumption
<1>4. Persona(p) \in Texts
  BY <1>1, <1>3, ServerAssumption DEF Shape, Persona, Texts
<1>5. Made(p) \in Entry
  BY <1>3, <1>4, ServerAssumption DEF Made, Entry, Shape, Asking
<1>6. entry \in Seq(Entry) /\ DOMAIN entry = 1..l
  BY DEF Shape
<1>7. want' = [want EXCEPT ![d.id] = [@ EXCEPT !.profile = p, !.persona = Persona(p)]]
  <2>1. want' = [want EXCEPT ![d.id].profile = p, ![d.id].persona = Persona(p)]
    BY DEF Build
  <2>2. want \in [SessionIds -> Wish]
    BY DEF Shape
  <2> HIDE DEF p
  <2> QED BY <1>2, <2>1, <2>2
<1>8. /\ entry' \in Seq(Entry) /\ Len(entry') = l + 1 /\ DOMAIN entry' = 1..l + 1
      /\ \A e \in 1..l : entry'[e] = entry[e]
      /\ entry'[l + 1] = Made(p)
  BY <1>1, <1>5, <1>6
<1> HIDE DEF p
<1>9. /\ n \in Doing /\ n.pc = "install" /\ n.kind = d.kind /\ n.id = d.id /\ n.arg = d.arg
      /\ n.obj = l + 1 /\ n.searched = None /\ n.remembered = None /\ n.personas = {}
  <2>1. d.searched = None /\ d.remembered = None /\ d.personas = {} /\ l + 1 \in Nat
    BY <1>1, <1>2 DEF Phase
  <2> HIDE DEF l
  <2> QED BY <1>1, <1>2, <2>1 DEF Doing, Pcs
<1>10. d.pc # "idle" /\ n.pc \in PhasesOf(n.kind) /\ l + 1 \in 1..l + 1 /\ l + 1 \in Nat
  BY <1>1, <1>2, <1>9, KindsAre
<1> HIDE DEF n
<1>11. Phase(n, Len(entry'))
  BY <1>2, <1>8, <1>9, <1>10, Goes DEF Holding
<1> QED BY <1>1, <1>2, <1>3, <1>4, <1>5, <1>6, <1>7, <1>8, <1>9, <1>11 DEF n, p

LEMMA BuildKeepsShape ==
  ASSUME Shape, NEW r \in Requests, Build(r)
  PROVE  Shape'
<1> DEFINE d == request[r]
           l == Len(entry)
<1>1. PICK p \in Profiles, n \in Doing :
           /\ Persona(p) \in Texts /\ d.id \in SessionIds
           /\ entry' \in Seq(Entry) /\ Len(entry') = l + 1
           /\ want' = [want EXCEPT ![d.id] = [@ EXCEPT !.profile = p, !.persona = Persona(p)]]
           /\ Set(r, n) /\ Phase(n, Len(entry'))
           /\ UNCHANGED <<sessions, provider, env, asked, disk, created>>
  BY BuildIs
<1>2. /\ l \in Nat /\ want \in [SessionIds -> Wish]
      /\ sessions \in [SessionIds -> 1..l \cup {None}] /\ provider \in Providers /\ env \subseteq Keys
      /\ disk \in [Profiles -> Texts \cup {None}] /\ created \in [Profiles -> SUBSET Texts]
  BY DEF Shape
<1>3. want' \in [SessionIds -> Wish]
  <2>1. [want[d.id] EXCEPT !.profile = p, !.persona = Persona(p)] \in Wish
    BY <1>1, <1>2 DEF Wish
  <2> QED BY <1>1, <1>2, <2>1
<1>4. sessions' \in [SessionIds -> 1..l + 1 \cup {None}]
  <2>1. 1..l \subseteq 1..l + 1
    BY <1>2
  <2> HIDE DEF l
  <2> QED BY <1>1, <1>2, <2>1
<1>5. Len(entry') >= Len(entry)
  BY <1>1, <1>2
<1> QED BY <1>1, <1>2, <1>3, <1>4, <1>5, Moved

LEMMA InstallKeepsShape ==
  ASSUME Shape, NEW r \in Requests, Install(r)
  PROVE  Shape'
<1> DEFINE d == request[r]
<1>1. /\ d.pc = "install" /\ sessions' = [sessions EXCEPT ![d.id] = d.obj] /\ Entered(r, d.obj)
      /\ UNCHANGED <<entry, provider, env, asked, want, disk, created>>
  BY DEF Install, At, profiles
<1>2. d.obj \in 1..Len(entry) /\ Len(entry) \in Nat
  BY <1>1, Here DEF Phase, Holding
<1>3. PICK n \in Doing : Set(r, n) /\ Phase(n, Len(entry))
  BY <1>1, <1>2, EnteredIs
<1>4. sessions' \in [SessionIds -> 1..Len(entry) \cup {None}]
  BY <1>1, <1>2 DEF Shape
<1>5. /\ entry \in Seq(Entry) /\ provider \in Providers /\ env \subseteq Keys
      /\ want \in [SessionIds -> Wish]
      /\ disk \in [Profiles -> Texts \cup {None}] /\ created \in [Profiles -> SUBSET Texts]
  BY DEF Shape
<1> QED BY <1>1, <1>2, <1>3, <1>4, <1>5, Moved

\* A request goes on, and nothing else changes.
LEMMA GoesOn ==
  ASSUME Shape, NEW r \in Requests, NEW n \in Doing, Set(r, n), request[r].pc # "idle",
         n.kind = request[r].kind, n.id = request[r].id, n.arg = request[r].arg,
         n.pc \in PhasesOf(n.kind), n.pc # "idle",
         n.pc \in Holding => n.obj \in 1..Len(entry), n.pc \notin Holding => n.obj = None,
         n.pc \notin {"session", "install", "scope"},
         n.pc \in {"open", "persona", "system", "name"} => n.text # None,
         n.kind # "turn" => n.personas = {},
         UNCHANGED <<sessions, entry, provider, env, asked, want, disk, created>>
  PROVE  Shape'
<1>1. Len(entry) \in Nat
  BY Here
<1>2. Phase(n, Len(entry))
  BY <1>1, Goes
<1> QED BY <1>2, OnlyMoved

\* Where an entry is in use, it is one, and the session is one.
LEMMA InUse ==
  ASSUME Shape, NEW r \in Requests, request[r].pc \in Holding
  PROVE  /\ request[r] \in Doing /\ Phase(request[r], Len(entry)) /\ request[r].pc # "idle"
         /\ request[r].obj \in 1..Len(entry) /\ request[r].obj \in DOMAIN entry
         /\ Loop(r) \in Entry /\ Loop(r) = entry[request[r].obj]
         /\ request[r].id \in SessionIds /\ entry \in Seq(Entry)
         /\ DOMAIN entry = 1..Len(entry) /\ Len(entry) \in Nat
<1>1. request[r].pc # "idle"
  BY DEF Holding
<1> QED BY <1>1, Here DEF Phase, Loop, Shape

LEMMA TurnStepsKeepShape ==
  ASSUME Shape, NEW r \in Requests,
         Search(r) \/ (\E calls \in BOOLEAN : Complete(r, calls)) \/ Check(r) \/ Remember(r)
  PROVE  Shape'
<1> DEFINE d == request[r]
<1>1. /\ d.pc \in {"search", "model", "check", "remember"}
      /\ UNCHANGED <<sessions, entry, provider, env, asked, want, disk, created>>
  BY DEF Search, Complete, Check, Remember, At, profiles
<1>2. /\ d \in Doing /\ Phase(d, Len(entry)) /\ d.obj \in 1..Len(entry) /\ d.kind = "turn"
      /\ Loop(r).scope \in Asking /\ Loop(r).persona \in Texts /\ d.pc # "idle"
  BY <1>1, InUse, KindOf DEF Holding, Entry
<1>3. CASE Search(r)
  <2> DEFINE n == [d EXCEPT !.pc = "model", !.searched = Loop(r).scope]
  <2>1. Set(r, n)
    BY <1>3 DEF Search
  <2>2. /\ n \in Doing /\ n.pc = "model" /\ n.kind = "turn" /\ n.id = d.id /\ n.arg = d.arg
        /\ n.obj = d.obj
    BY <1>2 DEF Doing, Pcs
  <2> HIDE DEF n
  <2> QED BY <1>1, <1>2, <2>1, <2>2, KindsAre, GoesOn DEF Holding
<1>4. ASSUME NEW calls \in BOOLEAN, Complete(r, calls) PROVE Shape'
  <2> DEFINE pc == IF calls THEN "check" ELSE "remember"
             iter == d.iter + 1
             told == d.personas \cup {Loop(r).persona}
             n == [d EXCEPT !.pc = pc, !.iter = iter, !.personas = told]
  <2>1. Set(r, n)
    BY <1>4 DEF Complete
  <2>2. pc \in {"check", "remember"} /\ iter \in Nat /\ told \subseteq Texts
    BY <1>2 DEF Doing
  <2> HIDE DEF pc, iter, told
  <2>3. /\ n \in Doing /\ n.pc = pc /\ n.kind = "turn" /\ n.id = d.id /\ n.arg = d.arg
        /\ n.obj = d.obj
    BY <1>2, <2>2 DEF Doing, Pcs
  <2> HIDE DEF n
  <2> QED BY <1>1, <1>2, <2>1, <2>2, <2>3, KindsAre, GoesOn DEF Holding
<1>5. CASE Check(r)
  <2> DEFINE pc == IF LoopsOn(d.iter) THEN "model" ELSE "remember"
             n == [d EXCEPT !.pc = pc]
  <2>1. Set(r, n)
    BY <1>5 DEF Check, Goto
  <2>2. pc \in {"model", "remember"}
    OBVIOUS
  <2> HIDE DEF pc
  <2>3. /\ n \in Doing /\ n.pc = pc /\ n.kind = "turn" /\ n.id = d.id /\ n.arg = d.arg
        /\ n.obj = d.obj
    BY <1>2, <2>2 DEF Doing, Pcs
  <2> HIDE DEF n
  <2> QED BY <1>1, <1>2, <2>1, <2>2, <2>3, KindsAre, GoesOn DEF Holding
<1>6. CASE Remember(r)
  <2>1. PICK text \in BOOLEAN :
          Set(r, [d EXCEPT !.pc = "trace", !.remembered = IF text THEN Loop(r).scope ELSE None])
    BY <1>6 DEF Remember
  <2> DEFINE scope == IF text THEN Loop(r).scope ELSE None
             n == [d EXCEPT !.pc = "trace", !.remembered = scope]
  <2>2. scope \in Asking
    BY <1>2 DEF Asking
  <2>3. Set(r, n)
    BY <2>1
  <2> HIDE DEF scope
  <2>4. /\ n \in Doing /\ n.pc = "trace" /\ n.kind = "turn" /\ n.id = d.id /\ n.arg = d.arg
        /\ n.obj = d.obj
    BY <1>2, <2>2 DEF Doing, Pcs
  <2> HIDE DEF n
  <2> QED BY <1>1, <1>2, <2>3, <2>4, KindsAre, GoesOn DEF Holding
<1> QED BY <1>3, <1>4, <1>5, <1>6

LEMMA UpdatesKeepShape ==
  ASSUME Shape, NEW r \in Requests, SetTrace(r) \/ SetLast(r) \/ SetMode(r) \/ SetPersona(r) \/ SetProfile(r)
  PROVE  Shape'
<1> DEFINE d == request[r]
           e == Loop(r)
           o == d.obj
           w == want[d.id]
<1>1. /\ d.pc \in {"trace", "last", "mode", "system", "name"}
      /\ UNCHANGED <<sessions, provider, env, asked, disk, created>>
  BY DEF SetTrace, SetLast, SetMode, SetPersona, SetProfile, At, profiles
<1>2. /\ d \in Doing /\ Phase(d, Len(entry)) /\ o \in 1..Len(entry) /\ o \in DOMAIN entry
      /\ e \in Entry /\ d.pc # "idle" /\ d.id \in SessionIds
  BY <1>1, InUse DEF Holding
<1>3. want \in [SessionIds -> Wish] /\ w \in Wish
  BY <1>2 DEF Shape
<1>4. CASE SetTrace(r)
  <2> DEFINE n == [d EXCEPT !.pc = "last"]
             x == [e EXCEPT !.trace = d.searched]
  <2>1. Set(r, n) /\ entry' = [entry EXCEPT ![o] = x] /\ UNCHANGED want /\ d.pc = "trace"
    BY <1>4 DEF SetTrace, Goto, Update, At
  <2>2. x \in Entry
    BY <1>2 DEF Entry, Doing
  <2>3. /\ n \in Doing /\ n.pc = "last" /\ n.kind = d.kind /\ n.id = d.id /\ n.arg = d.arg
        /\ n.obj = d.obj
    BY <1>2 DEF Doing, Pcs
  <2>4. d.kind = "turn"
    BY <1>2, <2>1, KindOf
  <2> HIDE DEF n, x, e, o
  <2>5. Len(entry) \in Nat
    BY Here
  <2>6. Phase(n, Len(entry))
    BY <1>2, <2>3, <2>4, <2>5, KindsAre, Goes DEF Holding, o
  <2> QED BY <1>1, <1>2, <1>3, <2>1, <2>2, <2>3, <2>6, Updated
<1>5. CASE SetLast(r)
  <2> DEFINE x == [e EXCEPT !.last = d.arg]
             v == [w EXCEPT !.scope = d.arg]
  <2>1. Set(r, Idle) /\ entry' = [entry EXCEPT ![o] = x] /\ want' = [want EXCEPT ![d.id].scope = d.arg]
        /\ d.pc = "last"
    BY <1>5 DEF SetLast, Update, At
  <2>2. d.arg \in Asking
    BY <1>2, <2>1, KindOf DEF Asking
  <2>3. x \in Entry /\ v \in Wish
    BY <1>2, <1>3, <2>2 DEF Entry, Wish
  <2>4. want' \in [SessionIds -> Wish]
    BY <1>2, <1>3, <2>1, <2>3
  <2> HIDE DEF x, e, o
  <2> QED BY <1>1, <1>2, <2>1, <2>3, <2>4, IdleIs, Updated
<1>6. CASE SetMode(r)
  <2> DEFINE x == [e EXCEPT !.mode = d.arg]
             v == [w EXCEPT !.mode = d.arg]
  <2>1. Set(r, Idle) /\ entry' = [entry EXCEPT ![o] = x] /\ want' = [want EXCEPT ![d.id].mode = d.arg]
        /\ d.pc = "mode"
    BY <1>6 DEF SetMode, Update, At
  <2>2. d.arg \in ModeChoices
    BY <1>2, <2>1, KindOf
  <2>3. x \in Entry /\ v \in Wish
    BY <1>2, <1>3, <2>2 DEF Entry, Wish
  <2>4. want' \in [SessionIds -> Wish]
    BY <1>2, <1>3, <2>1, <2>3
  <2> HIDE DEF x, e, o
  <2> QED BY <1>1, <1>2, <2>1, <2>3, <2>4, IdleIs, Updated
<1>7. CASE SetPersona(r)
  <2> DEFINE n == [d EXCEPT !.pc = "name"]
             x == [e EXCEPT !.persona = d.text]
  <2>1. Set(r, n) /\ entry' = [entry EXCEPT ![o] = x] /\ UNCHANGED want /\ d.pc = "system"
    BY <1>7 DEF SetPersona, Goto, Update, At
  <2>2. d.text \in Texts
    BY <1>2, <2>1 DEF Doing, Phase
  <2>3. x \in Entry
    BY <1>2, <2>2 DEF Entry
  <2>4. /\ n \in Doing /\ n.pc = "name" /\ n.kind = d.kind /\ n.id = d.id /\ n.arg = d.arg
        /\ n.obj = d.obj /\ n.text = d.text /\ n.personas = d.personas
    BY <1>2 DEF Doing, Pcs
  <2>5. d.kind = "profile" /\ d.text # None /\ d.personas = {}
    BY <1>2, <2>1, KindOf DEF Phase
  <2> HIDE DEF n, x, e, o
  <2>6. Len(entry) \in Nat
    BY Here
  <2>7. Phase(n, Len(entry))
    BY <1>2, <2>4, <2>5, <2>6, KindsAre, Goes DEF Holding, o
  <2> QED BY <1>1, <1>2, <1>3, <2>1, <2>3, <2>4, <2>7, Updated
<1>8. CASE SetProfile(r)
  <2> DEFINE x == [e EXCEPT !.profile = d.arg]
             v == [w EXCEPT !.profile = d.arg, !.persona = d.text]
  <2>1. Set(r, Idle) /\ entry' = [entry EXCEPT ![o] = x] /\ d.pc = "name"
        /\ want' = [want EXCEPT ![d.id].profile = d.arg, ![d.id].persona = d.text]
    BY <1>8 DEF SetProfile, Update, At
  <2>2. d.arg \in Profiles /\ d.text \in Texts
    BY <1>2, <2>1, KindOf DEF Doing, Phase
  <2>3. x \in Entry /\ v \in Wish
    BY <1>2, <1>3, <2>2 DEF Entry, Wish
  <2>4. want' = [want EXCEPT ![d.id] = v]
    BY <1>2, <1>3, <2>1
  <2>5. want' \in [SessionIds -> Wish]
    BY <1>2, <1>3, <2>3, <2>4
  <2> HIDE DEF x, e, o
  <2> QED BY <1>1, <1>2, <2>1, <2>3, <2>5, IdleIs, Updated
<1> QED BY <1>4, <1>5, <1>6, <1>7, <1>8

LEMMA UseScopeIs ==
  ASSUME Shape, NEW r \in Requests, UseScope(r)
  PROVE  /\ request[r].pc = "scope" /\ request'[r].pc = "search"
         /\ entry' = [entry EXCEPT ![request[r].obj] = Scoped(Loop(r), request[r].arg)]
         /\ asked' = [asked EXCEPT ![request[r].id] = @ \cup {request[r].arg}]
         /\ request' \in [Requests -> Doing]
         /\ \A q \in Requests :
              /\ q # r => request'[q].pc = request[q].pc
              /\ request'[q].kind = request[q].kind /\ request'[q].id = request[q].id
              /\ request'[q].arg = request[q].arg /\ request'[q].obj = request[q].obj
              /\ request'[q].buf = request[q].buf /\ request'[q].text = request[q].text
              /\ request'[q].searched = request[q].searched
              /\ request'[q].remembered = request[q].remembered
              /\ request'[q].personas = request[q].personas
              /\ q # r => /\ request'[q].alone => request[q].alone
                          /\ HasLoop(q) /\ request[q].obj = request[r].obj => ~request'[q].alone
              /\ request[q].pc = "idle" => request'[q] = request[q]
         /\ UNCHANGED <<sessions, provider, env, made, want, met, saved, keysMet, disk, created, spoiled>>
<1> DEFINE e == request[r].obj
           others == {q \in Requests \ {r} : HasLoop(q) /\ request[q].obj = e}
           f(q) == IF q = r THEN [request[q] EXCEPT !.pc = "search", !.alone = others = {}]
                   ELSE IF q \in others THEN [request[q] EXCEPT !.alone = FALSE]
                   ELSE request[q]
<1>1. /\ request[r].pc = "scope" /\ entry' = [entry EXCEPT ![e] = Scoped(Loop(r), request[r].arg)]
      /\ asked' = [asked EXCEPT ![request[r].id] = @ \cup {request[r].arg}]
      /\ request' = [q \in Requests |-> f(q)]
      /\ UNCHANGED <<sessions, provider, env, made, want, met, saved, keysMet, disk, created, spoiled>>
  BY DEF UseScope, Update, At, profiles
<1> DEFINE alone == others = {}
<1>2. alone \in BOOLEAN /\ (\A q : q \in others <=> q \in Requests \ {r} /\ HasLoop(q) /\ request[q].obj = e)
  OBVIOUS
<1>3. \A q \in Requests :
        \/ q = r /\ request'[q] = [request[q] EXCEPT !.pc = "search", !.alone = alone]
        \/ q # r /\ q \in others /\ request'[q] = [request[q] EXCEPT !.alone = FALSE]
        \/ q # r /\ q \notin others /\ request'[q] = request[q]
  BY <1>1
<1> HIDE DEF alone, others, f
<1>4. ASSUME NEW q \in Requests
      PROVE  /\ request'[q] \in Doing
             /\ q = r => request'[q].pc = "search"
             /\ q # r => request'[q].pc = request[q].pc
             /\ request'[q].kind = request[q].kind /\ request'[q].id = request[q].id
             /\ request'[q].arg = request[q].arg /\ request'[q].obj = request[q].obj
             /\ request'[q].buf = request[q].buf /\ request'[q].text = request[q].text
             /\ request'[q].searched = request[q].searched
             /\ request'[q].remembered = request[q].remembered
             /\ request'[q].personas = request[q].personas
             /\ q # r => /\ request'[q].alone => request[q].alone
                         /\ HasLoop(q) /\ request[q].obj = e => ~request'[q].alone
             /\ request[q].pc = "idle" => request'[q] = request[q]
  <2>1. request[q] \in Doing
    BY Here
  <2>2. CASE q = r /\ request'[q] = [request[q] EXCEPT !.pc = "search", !.alone = alone]
    BY <1>1, <1>2, <2>1, <2>2 DEF Doing, Pcs
  <2>3. CASE q # r /\ q \in others /\ request'[q] = [request[q] EXCEPT !.alone = FALSE]
    <3>1. FALSE \in BOOLEAN /\ request[q].pc # "idle"
      BY <1>2, <2>3 DEF HasLoop
    <3> QED BY <2>1, <2>3, <3>1 DEF Doing, Pcs
  <2>4. CASE q # r /\ q \notin others /\ request'[q] = request[q]
    BY <1>2, <2>1, <2>4
  <2> QED BY <1>3, <2>2, <2>3, <2>4
<1>5. request' \in [Requests -> Doing]
  <2>1. request' = [q \in Requests |-> request'[q]]
    BY <1>1
  <2> QED BY <1>4, <2>1
<1> QED BY <1>1, <1>4, <1>5

LEMMA UseScopeKeepsShape ==
  ASSUME Shape, NEW r \in Requests, UseScope(r)
  PROVE  Shape'
<1> DEFINE d == request[r]
           x == Scoped(Loop(r), d.arg)
<1>1. /\ d.pc = "scope" /\ request'[r].pc = "search"
      /\ entry' = [entry EXCEPT ![d.obj] = x]
      /\ asked' = [asked EXCEPT ![d.id] = @ \cup {d.arg}]
      /\ request' \in [Requests -> Doing]
      /\ UNCHANGED <<sessions, provider, env, want, disk, created>>
  BY UseScopeIs
<1>2. \A q \in Requests :
        /\ q # r => request'[q].pc = request[q].pc
        /\ request'[q].kind = request[q].kind /\ request'[q].id = request[q].id
        /\ request'[q].arg = request[q].arg /\ request'[q].obj = request[q].obj
        /\ request'[q].text = request[q].text
        /\ request'[q].searched = request[q].searched
        /\ request'[q].remembered = request[q].remembered
        /\ request'[q].personas = request[q].personas
        /\ request[q].pc = "idle" => request'[q] = request[q]
  BY UseScopeIs
<1>3. /\ d \in Doing /\ Phase(d, Len(entry)) /\ d.pc # "idle" /\ d.id \in SessionIds
      /\ d.obj \in DOMAIN entry /\ Loop(r) \in Entry /\ d.arg \in Asking /\ d.kind = "turn"
  BY <1>1, InUse, KindOf DEF Holding, Asking
<1>4. x \in Entry
  BY <1>3 DEF Scoped, Entry
<1> HIDE DEF x
<1>5. entry' \in Seq(Entry) /\ Len(entry') = Len(entry)
  BY <1>1, <1>3, <1>4 DEF Shape
<1>6. asked' \in [SessionIds -> SUBSET Asking]
  BY <1>1, <1>3 DEF Shape
<1>7. \A q \in Requests : Phase(request'[q], Len(entry'))
  <2> SUFFICES ASSUME NEW q \in Requests PROVE Phase(request'[q], Len(entry))
    BY <1>5
  <2>1. Phase(request[q], Len(entry))
    BY Here
  <2>2. CASE q = r
    <3>1. request'[r].kind = "turn" /\ "search" \in PhasesOf("turn") /\ d.obj \in 1..Len(entry)
      BY <1>1, <1>2, <1>3, KindsAre DEF Phase, Holding
    <3> QED BY <1>1, <1>2, <1>3, <2>1, <2>2, <3>1 DEF Phase, Holding
  <2>3. CASE q # r /\ request[q].pc = "idle"
    BY <1>2, <2>1, <2>3
  <2>4. CASE q # r /\ request[q].pc # "idle"
    BY <1>2, <2>1, <2>4 DEF Phase
  <2> QED BY <2>2, <2>3, <2>4
<1>8. /\ sessions \in [SessionIds -> 1..Len(entry) \cup {None}] /\ provider \in Providers
      /\ env \subseteq Keys /\ want \in [SessionIds -> Wish]
      /\ disk \in [Profiles -> Texts \cup {None}] /\ created \in [Profiles -> SUBSET Texts]
  BY DEF Shape
<1> QED BY <1>1, <1>5, <1>6, <1>7, <1>8 DEF Shape

LEMMA LookupIs ==
  ASSUME Shape, NEW r \in Requests, Lookup(r)
  PROVE  /\ request[r].pc = "lookup"
         /\ UNCHANGED <<sessions, entry, provider, env, asked, want, disk, created, met, saved, keysMet,
                        spoiled>>
         /\ \E n \in Doing :
              /\ Set(r, n) /\ Phase(n, Len(entry))
              /\ \/ n = Idle
                 \/ /\ sessions[request[r].id] # None /\ request[r].kind \in {"mode", "profile", "cost"}
                    /\ n = [request[r] EXCEPT !.pc = request[r].kind, !.obj = sessions[request[r].id]]
<1> DEFINE d == request[r]
           e == sessions[d.id]
           n == [d EXCEPT !.pc = d.kind, !.obj = e]
<1>1. /\ d.pc = "lookup"
      /\ UNCHANGED <<sessions, entry, provider, env, asked, want, disk, created, met, saved, keysMet,
                     spoiled>>
      /\ Set(r, Idle) \/ (e # None /\ Set(r, n))
  BY DEF Lookup, At, profiles
<1>2. /\ d \in Doing /\ Phase(d, Len(entry)) /\ d.id \in SessionIds /\ d.pc # "idle"
      /\ d.kind \in {"mode", "profile", "cost"}
  BY <1>1, Here, KindOf
<1>3. CASE Set(r, Idle)
  BY <1>1, <1>3, IdleIs
<1>4. CASE e # None /\ Set(r, n)
  <2>1. e \in 1..Len(entry) /\ Len(entry) \in Nat
    BY <1>2, <1>4 DEF Shape
  <2>2. d.personas = {}
    BY <1>2 DEF Phase
  <2> HIDE DEF e
  <2>3. /\ n \in Doing /\ n.pc = d.kind /\ n.kind = d.kind /\ n.id = d.id /\ n.arg = d.arg
        /\ n.obj = e /\ n.personas = {}
    <3>1. d.kind \in Pcs /\ e \in Nat
      BY <1>2, <2>1 DEF Pcs
    <3> DEFINE pc == d.kind
    <3>2. pc \in Pcs /\ pc = d.kind
      BY <3>1
    <3> HIDE DEF pc
    <3>3. n = [d EXCEPT !.pc = pc, !.obj = e]
      BY <3>2
    <3> QED BY <1>2, <2>2, <3>1, <3>2, <3>3 DEF Doing
  <2>4. n.pc \in PhasesOf(n.kind) /\ n.pc # "idle" /\ n.pc \in Holding
        /\ n.pc \notin {"session", "install", "scope"}
        /\ n.pc \notin {"open", "persona", "system", "name"}
    BY <1>2, <2>3, KindsAre DEF Holding
  <2> HIDE DEF n
  <2>5. Phase(n, Len(entry))
    BY <1>2, <2>1, <2>3, <2>4, Goes
  <2> QED BY <1>1, <1>2, <1>4, <2>3, <2>5 DEF n, e
<1> QED BY <1>1, <1>3, <1>4

LEMMA SettingsKeepShape ==
  ASSUME Shape, NEW r \in Requests,
         Lookup(r) \/ LoadPersona(r) \/ CostScope(r) \/ CostSpent(r) \/ Fail(r)
  PROVE  Shape'
<1> DEFINE d == request[r]
<1>1. UNCHANGED <<sessions, entry, provider, env, asked, want, disk, created>>
  BY DEF Lookup, LoadPersona, CostScope, CostSpent, Fail, profiles
<1>2. CASE Lookup(r)
  BY <1>1, <1>2, LookupIs, OnlyMoved
<1>3. CASE Set(r, Idle)
  BY <1>1, <1>3, IdleIs, OnlyMoved
<1>4. CASE LoadPersona(r) /\ ~Set(r, Idle)
  <2> DEFINE text == Persona(d.arg)
             n == [d EXCEPT !.pc = "system", !.text = text]
  <2>1. Set(r, n) /\ text # None /\ d.pc = "profile"
    BY <1>4 DEF LoadPersona, At
  <2>2. /\ d \in Doing /\ Phase(d, Len(entry)) /\ d.obj \in 1..Len(entry) /\ d.kind = "profile"
        /\ d.pc # "idle" /\ d.arg \in Profiles
    BY <2>1, InUse, KindOf DEF Holding
  <2>3. text \in Texts
    BY <2>1, <2>2, ServerAssumption DEF Shape, Persona, Texts
  <2>4. d.personas = {}
    BY <2>2 DEF Phase
  <2> HIDE DEF text
  <2>5. /\ n \in Doing /\ n.pc = "system" /\ n.kind = "profile" /\ n.id = d.id /\ n.arg = d.arg
        /\ n.obj = d.obj /\ n.personas = {} /\ n.text # None
    BY <2>1, <2>2, <2>3, <2>4 DEF Doing, Pcs
  <2> HIDE DEF n
  <2> QED BY <1>1, <2>1, <2>2, <2>5, KindsAre, GoesOn DEF Holding
<1>5. CASE CostScope(r)
  <2> DEFINE n == [d EXCEPT !.pc = "spent", !.searched = Loop(r).last]
  <2>1. Set(r, n) /\ d.pc = "cost"
    BY <1>5 DEF CostScope, At
  <2>2. /\ d \in Doing /\ Phase(d, Len(entry)) /\ d.obj \in 1..Len(entry) /\ d.kind = "cost"
        /\ d.pc # "idle" /\ Loop(r).last \in Asking
    BY <2>1, InUse, KindOf DEF Holding, Entry
  <2>3. d.personas = {}
    BY <2>2 DEF Phase
  <2>4. /\ n \in Doing /\ n.pc = "spent" /\ n.kind = "cost" /\ n.id = d.id /\ n.arg = d.arg
        /\ n.obj = d.obj /\ n.personas = {}
    BY <2>2, <2>3 DEF Doing, Pcs
  <2> HIDE DEF n
  <2> QED BY <1>1, <2>1, <2>2, <2>4, KindsAre, GoesOn DEF Holding
<1> QED BY <1>2, <1>3, <1>4, <1>5 DEF CostSpent, Fail

LEMMA KeyStepsKeepShape ==
  ASSUME Shape, NEW r \in Requests,
         ReadEnv(r) \/ TruncateEnv(r) \/ WriteEnv(r) \/ ApplyKey(r) \/ RebuildModel(r) \/ AnswerKey(r)
  PROVE  Shape'
<1> DEFINE d == request[r]
<1>1. /\ d.pc \in {"readenv", "truncate", "writeenv", "apply", "rebuild", "answer"}
      /\ UNCHANGED <<sessions, asked, want, disk, created>>
  BY DEF ReadEnv, TruncateEnv, WriteEnv, ApplyKey, RebuildModel, AnswerKey, At, profiles
<1>2. /\ d \in Doing /\ Phase(d, Len(entry)) /\ Len(entry) \in Nat /\ d.pc # "idle" /\ d.id \in SessionIds
      /\ d.kind = "key" /\ d.arg \in Keys
  BY <1>1, Here, KindOf
<1>3. d.personas = {} /\ d.obj = None /\ d.buf \subseteq Keys
  BY <1>1, <1>2 DEF Phase, Doing, Holding
<1>4. /\ entry \in Seq(Entry) /\ sessions \in [SessionIds -> 1..Len(entry) \cup {None}]
      /\ provider \in Providers /\ env \subseteq Keys /\ want \in [SessionIds -> Wish]
      /\ disk \in [Profiles -> Texts \cup {None}] /\ created \in [Profiles -> SUBSET Texts]
  BY DEF Shape
<1>5. ASSUME NEW n \in Doing, Set(r, n), n.kind = d.kind, n.id = d.id, n.arg = d.arg, n.obj = None,
             n.personas = {},
             n.pc \in {"truncate", "writeenv", "apply", "rebuild", "answer"},
             entry' \in Seq(Entry), Len(entry') = Len(entry), env' \subseteq Keys, provider' \in Providers
      PROVE  Shape'
  <2>1. Phase(n, Len(entry'))
    BY <1>2, <1>5, KindsAre, Goes DEF Holding
  <2>2. Len(entry') >= Len(entry) /\ sessions' \in [SessionIds -> 1..Len(entry') \cup {None}]
    BY <1>1, <1>2, <1>4, <1>5
  <2> QED BY <1>1, <1>4, <1>5, <2>1, <2>2, Moved
<1>6. ASSUME NEW pc \in {"truncate", "writeenv", "apply", "rebuild", "answer"}, Goto(r, pc),
             entry' \in Seq(Entry), Len(entry') = Len(entry), env' \subseteq Keys, provider' \in Providers
      PROVE  Shape'
  <2> DEFINE n == [d EXCEPT !.pc = pc]
  <2>1. /\ n \in Doing /\ n.pc = pc /\ n.kind = d.kind /\ n.id = d.id /\ n.arg = d.arg
        /\ n.obj = None /\ n.personas = {}
    BY <1>2, <1>3 DEF Doing, Pcs
  <2>2. Set(r, n)
    BY <1>6 DEF Goto
  <2> HIDE DEF n
  <2> QED BY <1>5, <1>6, <2>1, <2>2
<1>7. CASE ReadEnv(r)
  <2> DEFINE n == [d EXCEPT !.pc = "truncate", !.buf = env]
  <2>1. Set(r, n) /\ UNCHANGED <<entry, provider, env>>
    BY <1>7 DEF ReadEnv
  <2>2. /\ n \in Doing /\ n.pc = "truncate" /\ n.kind = d.kind /\ n.id = d.id /\ n.arg = d.arg
        /\ n.obj = None /\ n.personas = {}
    BY <1>2, <1>3, <1>4 DEF Doing, Pcs
  <2> HIDE DEF n
  <2> QED BY <1>4, <1>5, <2>1, <2>2
<1>8. CASE TruncateEnv(r)
  BY <1>4, <1>6, <1>8 DEF TruncateEnv
<1>9. CASE WriteEnv(r)
  BY <1>2, <1>3, <1>4, <1>6, <1>9 DEF WriteEnv
<1>10. CASE ApplyKey(r)
  <2> DEFINE pc == IF d.arg \in Providers THEN "rebuild" ELSE "answer"
  <2>1. pc \in {"truncate", "writeenv", "apply", "rebuild", "answer"} /\ provider' \in Providers
    BY <1>4, <1>10 DEF ApplyKey
  <2>2. Goto(r, pc) /\ UNCHANGED <<entry, env>>
    BY <1>10 DEF ApplyKey
  <2> HIDE DEF pc
  <2> QED BY <1>4, <1>6, <2>1, <2>2
<1>11. CASE RebuildModel(r)
  <2> DEFINE e == sessions[d.id]
             x == [entry[e] EXCEPT !.model = provider]
  <2>1. Goto(r, "answer") /\ UNCHANGED <<provider, env>>
        /\ entry' = IF e = None THEN entry ELSE [entry EXCEPT ![e].model = provider]
    BY <1>11 DEF RebuildModel
  <2>2. CASE e = None
    BY <1>4, <1>6, <2>1, <2>2
  <2>3. CASE e # None
    <3>1. e \in 1..Len(entry) /\ e \in DOMAIN entry /\ entry[e] \in Entry
      BY <1>2, <1>4, <2>3
    <3>2. x \in Entry
      BY <1>4, <3>1 DEF Entry
    <3>3. entry' = [entry EXCEPT ![e] = x]
      BY <2>1, <2>3
    <3> HIDE DEF x, e
    <3>4. entry' \in Seq(Entry) /\ Len(entry') = Len(entry)
      BY <1>4, <3>1, <3>2, <3>3
    <3> QED BY <1>4, <1>6, <2>1, <3>4
  <2> QED BY <2>2, <2>3
<1>12. CASE AnswerKey(r)
  BY <1>12, IdleIs, OnlyMoved DEF AnswerKey, profiles
<1> QED BY <1>7, <1>8, <1>9, <1>10, <1>11, <1>12

LEMMA RestartKeepsShape ==
  ASSUME Shape, Restart
  PROVE  Shape'
<1>1. /\ request' = [r \in Requests |-> Idle] /\ sessions' = [s \in SessionIds |-> None]
      /\ provider' = Provider /\ want' = [s \in SessionIds |-> Untouched] /\ entry' = <<>>
      /\ UNCHANGED <<env, asked, disk, created>>
  BY DEF Restart
<1>2. Untouched \in Wish
  <2>1. DefaultPersona \in Texts /\ None \in Asking /\ ServerMode \in ModeChoices /\ Default \in Profiles
    BY ServerAssumption DEF Texts, Asking
  <2> QED BY <2>1 DEF Untouched, Wish
<1>3. request' \in [Requests -> Doing] /\ \A r \in Requests : Phase(request'[r], Len(entry'))
  BY <1>1, IdleIs
<1>4. entry' \in Seq(Entry) /\ sessions' \in [SessionIds -> 1..Len(entry') \cup {None}]
  BY <1>1
<1>5. want' \in [SessionIds -> Wish] /\ provider' \in Providers
  BY <1>1, <1>2, ServerAssumption
<1> QED BY <1>1, <1>3, <1>4, <1>5 DEF Shape

LEMMA ShapeAtStart ==
  ASSUME Init
  PROVE  Shape
<1>1. /\ request = [r \in Requests |-> Idle] /\ sessions = [s \in SessionIds |-> None]
      /\ provider = Provider /\ want = [s \in SessionIds |-> Untouched] /\ entry = <<>>
      /\ env = {} /\ asked = [s \in SessionIds |-> {}]
      /\ disk \in [Profiles -> Personas \cup {None}] /\ created = [p \in Profiles |-> {}]
  BY DEF Init
<1>2. Untouched \in Wish
  <2>1. DefaultPersona \in Texts /\ None \in Asking /\ ServerMode \in ModeChoices /\ Default \in Profiles
    BY ServerAssumption DEF Texts, Asking
  <2> QED BY <2>1 DEF Untouched, Wish
<1>3. request \in [Requests -> Doing] /\ \A r \in Requests : Phase(request[r], Len(entry))
  BY <1>1, IdleIs
<1>4. entry \in Seq(Entry) /\ sessions \in [SessionIds -> 1..Len(entry) \cup {None}]
  BY <1>1
<1>5. want \in [SessionIds -> Wish] /\ provider \in Providers
  BY <1>1, <1>2, ServerAssumption
<1>6. disk \in [Profiles -> Texts \cup {None}] /\ created \in [Profiles -> SUBSET Texts]
  BY <1>1 DEF Texts
<1> QED BY <1>1, <1>3, <1>4, <1>5, <1>6 DEF Shape

LEMMA ShapeKept ==
  ASSUME Shape, [Next]_vars
  PROVE  Shape'
<1>1. CASE Restart
  BY <1>1, RestartKeepsShape
<1>2. ASSUME NEW r \in Requests, Step(r) PROVE Shape'
  <2>1. ASSUME NEW kind \in Kinds, NEW s \in SessionIds, NEW arg \in Args(kind), Begin(r, kind, s, arg)
        PROVE  Shape'
    BY <2>1, BeginKeepsShape
  <2>2. CASE Found(r) \/ Build(r) \/ Install(r) \/ UseScope(r)
    BY <2>2, FoundKeepsShape, BuildKeepsShape, InstallKeepsShape, UseScopeKeepsShape
  <2>3. CASE TestProfile(r) \/ ChooseText(r) \/ TruncatePersona(r) \/ WritePersona(r)
    BY <2>3, ProfileStepsKeepShape
  <2>4. CASE Search(r) \/ (\E calls \in BOOLEAN : Complete(r, calls)) \/ Check(r) \/ Remember(r)
    BY <2>4, TurnStepsKeepShape
  <2>5. CASE SetTrace(r) \/ SetLast(r) \/ SetMode(r) \/ SetPersona(r) \/ SetProfile(r)
    BY <2>5, UpdatesKeepShape
  <2>6. CASE Lookup(r) \/ LoadPersona(r) \/ CostScope(r) \/ CostSpent(r) \/ Fail(r)
    BY <2>6, SettingsKeepShape
  <2>7. CASE \/ ReadEnv(r) \/ TruncateEnv(r) \/ WriteEnv(r) \/ ApplyKey(r) \/ RebuildModel(r)
             \/ AnswerKey(r)
    BY <2>7, KeyStepsKeepShape
  <2> QED BY <1>2, <2>1, <2>2, <2>3, <2>4, <2>5, <2>6, <2>7 DEF Step
<1>3. CASE UNCHANGED vars
  BY <1>3 DEF Shape, vars, profiles
<1> QED BY <1>1, <1>2, <1>3 DEF Next

-----------------------------------------------------------------------------------
(* What a step of a request touches.                                       *)

\* A session has an entry if it is the session's, or that of one of its requests.
Holds(s, e) == sessions[s] = e \/ \E r \in Requests : request[r].id = s /\ request[r].obj = e

\* All but alone, which a turn loses when another joins it.
Alike(a, b) ==
  /\ a.pc = b.pc /\ a.kind = b.kind /\ a.id = b.id /\ a.arg = b.arg /\ a.obj = b.obj
  /\ a.buf = b.buf /\ a.text = b.text /\ a.searched = b.searched /\ a.remembered = b.remembered
  /\ a.personas = b.personas

Starts(r) == \E kind \in Kinds, s \in SessionIds : \E arg \in Args(kind) : Begin(r, kind, s, arg)

LEMMA OthersStay ==
  ASSUME Shape, NEW r \in Requests, Step(r), NEW q \in Requests, q # r
  PROVE  /\ Alike(request'[q], request[q]) /\ (request'[q].alone => request[q].alone)
         /\ ~UseScope(r) => request'[q] = request[q]
<1>1. CASE UseScope(r)
  <2>1. /\ request'[q].pc = request[q].pc
        /\ request'[q].kind = request[q].kind /\ request'[q].id = request[q].id
        /\ request'[q].arg = request[q].arg /\ request'[q].obj = request[q].obj
        /\ request'[q].buf = request[q].buf /\ request'[q].text = request[q].text
        /\ request'[q].searched = request[q].searched
        /\ request'[q].remembered = request[q].remembered
        /\ request'[q].personas = request[q].personas
        /\ request'[q].alone => request[q].alone
    BY <1>1, UseScopeIs
  <2> QED BY <1>1, <2>1 DEF Alike
<1>2. ASSUME NEW n, Set(r, n) PROVE request'[q] = request[q]
  BY <1>2, OneMoves
<1>3. request'[q] = request[q] \/ UseScope(r)
  <2>1. CASE Starts(r)
    BY <1>2, <2>1 DEF Starts, Begin
  <2>2. CASE Found(r) \/ Build(r) \/ Install(r)
    BY <1>2, <2>2 DEF Found, Build, Install, Entered
  <2>3. CASE TestProfile(r) \/ ChooseText(r) \/ TruncatePersona(r) \/ WritePersona(r)
    BY <1>2, <2>3 DEF TestProfile, ChooseText, TruncatePersona, WritePersona, Goto
  <2>4. CASE Search(r) \/ (\E calls \in BOOLEAN : Complete(r, calls)) \/ Check(r) \/ Remember(r)
    BY <1>2, <2>4 DEF Search, Complete, Check, Remember, Goto
  <2>5. CASE SetTrace(r) \/ SetLast(r) \/ SetMode(r) \/ SetPersona(r) \/ SetProfile(r)
    BY <1>2, <2>5 DEF SetTrace, SetLast, SetMode, SetPersona, SetProfile, Goto
  <2>6. CASE Lookup(r) \/ LoadPersona(r) \/ CostScope(r) \/ CostSpent(r) \/ Fail(r)
    BY <1>2, <2>6 DEF Lookup, LoadPersona, CostScope, CostSpent, Fail
  <2>7. CASE \/ ReadEnv(r) \/ TruncateEnv(r) \/ WriteEnv(r) \/ ApplyKey(r) \/ RebuildModel(r)
             \/ AnswerKey(r)
    BY <1>2, <2>7 DEF ReadEnv, TruncateEnv, WriteEnv, ApplyKey, RebuildModel, AnswerKey, Goto
  <2> QED BY <2>1, <2>2, <2>3, <2>4, <2>5, <2>6, <2>7 DEF Step, Starts
<1> QED BY <1>1, <1>3 DEF Alike

\* A step of a request that has begun is one for its own session.
Own(r) ==
  LET d == request[r] IN
  /\ d.pc # "idle" /\ d.id \in SessionIds
  /\ request'[r] = Idle \/ (/\ request'[r].kind = d.kind /\ request'[r].id = d.id
                             /\ request'[r].arg = d.arg /\ request'[r].pc # "idle")
  /\ \A s \in SessionIds \ {d.id} : sessions'[s] = sessions[s] /\ want'[s] = want[s] /\ asked'[s] = asked[s]
  /\ asked[d.id] \subseteq asked'[d.id]
  /\ sessions'[d.id] \in {sessions[d.id], d.obj}
  /\ DOMAIN entry \subseteq DOMAIN entry'
  /\ \A e \in DOMAIN entry : Holds(d.id, e) \/ entry'[e] = entry[e]
  /\ Build(r) \/ (request'[r].obj \in {None, d.obj, sessions[d.id]} /\ DOMAIN entry' = DOMAIN entry)
  /\ met' = met

\* A step that leaves the entries, the sessions and what is wanted of them.
LEMMA OwnIfAlone ==
  ASSUME Shape, NEW r \in Requests, NEW n, Set(r, n), request[r].pc # "idle",
         n = Idle \/ (/\ n.kind = request[r].kind /\ n.id = request[r].id
                      /\ n.arg = request[r].arg /\ n.pc # "idle"),
         n.obj \in {None, request[r].obj, sessions[request[r].id]},
         UNCHANGED <<sessions, entry, want, asked, met>>
  PROVE  Own(r)
<1>1. request'[r] = n /\ request[r].id \in SessionIds
  BY OneMoves, Here, KindOf
<1> QED BY <1>1 DEF Own

\* A step that changes the entry in use.
LEMMA OwnIfUpdated ==
  ASSUME Shape, NEW r \in Requests, NEW n, Set(r, n), request[r].pc \in Holding,
         n = Idle \/ (/\ n.kind = request[r].kind /\ n.id = request[r].id
                      /\ n.arg = request[r].arg /\ n.pc # "idle"),
         n.obj \in {None, request[r].obj}, NEW x, Update(r, x),
         UNCHANGED <<sessions, asked, met>>,
         \A s \in SessionIds \ {request[r].id} : want'[s] = want[s]
  PROVE  Own(r)
<1>1. /\ request'[r] = n /\ request[r].id \in SessionIds /\ request[r].pc # "idle"
      /\ request[r].obj \in DOMAIN entry
  BY OneMoves, InUse
<1>2. /\ DOMAIN entry' = DOMAIN entry
      /\ \A e \in DOMAIN entry : e = request[r].obj \/ entry'[e] = entry[e]
  <2>1. entry' = [entry EXCEPT ![request[r].obj] = x] /\ entry \in Seq(Entry)
    BY DEF Update, Shape
  <2> QED BY <2>1
<1> QED BY <1>1, <1>2 DEF Own, Holds

LEMMA StepsAreOwn ==
  ASSUME Shape, NEW r \in Requests, Step(r)
  PROVE  Starts(r) \/ Own(r)
<1> DEFINE d == request[r]
           o == d.obj
<1>1. /\ d \in Doing /\ Phase(d, Len(entry)) /\ entry \in Seq(Entry) /\ want \in [SessionIds -> Wish]
      /\ sessions \in [SessionIds -> 1..Len(entry) \cup {None}]
      /\ d.pc # "idle" => d.id \in SessionIds
  BY Here, KindOf DEF Shape
<1>2. Idle.obj = None
  BY IdleIs
<1>3. ASSUME d.pc # "idle", Set(r, Idle), UNCHANGED <<sessions, entry, want, asked, met>>
      PROVE  Own(r)
  BY <1>2, <1>3, OwnIfAlone
<1>4. CASE TestProfile(r) \/ TruncatePersona(r) \/ WritePersona(r)
  <2>1. UNCHANGED <<sessions, entry, want, asked, met>> /\ d.pc \in {"exists", "open", "persona"}
    BY <1>4 DEF TestProfile, TruncatePersona, WritePersona, profiles, At
  <2>2. ASSUME NEW pc, pc # "idle", Goto(r, pc) PROVE Own(r)
    <3>1. Set(r, [d EXCEPT !.pc = pc])
      BY <2>2 DEF Goto
    <3>2. /\ [d EXCEPT !.pc = pc].kind = d.kind /\ [d EXCEPT !.pc = pc].id = d.id
          /\ [d EXCEPT !.pc = pc].arg = d.arg /\ [d EXCEPT !.pc = pc].pc = pc
          /\ [d EXCEPT !.pc = pc].obj = o
      BY <1>1 DEF Doing
    <3> QED BY <2>1, <2>2, <3>1, <3>2, OwnIfAlone
  <2>3. Set(r, Idle) \/ Goto(r, "text") \/ Goto(r, "persona")
    BY <1>4 DEF TestProfile, TruncatePersona, WritePersona
  <2> QED BY <1>3, <2>1, <2>2, <2>3
<1>5. CASE ChooseText(r)
  <2>1. PICK text : Set(r, Idle) \/ Set(r, [d EXCEPT !.pc = "open", !.text = text])
    BY <1>5 DEF ChooseText
  <2>2. UNCHANGED <<sessions, entry, want, asked, met>> /\ d.pc = "text"
    BY <1>5 DEF ChooseText, At
  <2> DEFINE n == [d EXCEPT !.pc = "open", !.text = text]
  <2>3. n.kind = d.kind /\ n.id = d.id /\ n.arg = d.arg /\ n.pc = "open" /\ n.obj = o
    BY <1>1 DEF Doing
  <2> HIDE DEF n
  <2>4. Set(r, Idle) \/ Set(r, n)
    BY <2>1 DEF n
  <2> QED BY <1>3, <2>2, <2>3, <2>4, OwnIfAlone
<1>6. CASE Found(r)
  <2> DEFINE e == sessions[d.id]
             n == [d EXCEPT !.pc = "scope", !.obj = e]
  <2>1. /\ Set(r, Idle) \/ Set(r, n)
        /\ UNCHANGED <<sessions, entry, want, asked, met>> /\ d.pc = "session"
    BY <1>6 DEF Found, Entered, Known, At
  <2>2. n.kind = d.kind /\ n.id = d.id /\ n.arg = d.arg /\ n.pc = "scope" /\ n.obj = e
    BY <1>1 DEF Doing
  <2> HIDE DEF n
  <2> QED BY <1>3, <2>1, <2>2, OwnIfAlone
<1>7. CASE Build(r)
  <2>1. PICK p \in Profiles, n \in Doing :
           /\ request[r].pc = "session" /\ request[r].id \in SessionIds
           /\ DOMAIN entry' = 1..Len(entry) + 1
           /\ \A e \in DOMAIN entry : entry'[e] = entry[e]
           /\ want' = [want EXCEPT ![request[r].id] = [@ EXCEPT !.profile = p, !.persona = Persona(p)]]
           /\ Set(r, n) /\ n = [request[r] EXCEPT !.pc = "install", !.obj = Len(entry) + 1]
           /\ UNCHANGED <<sessions, provider, env, asked, disk, created, met, saved, keysMet, spoiled>>
    BY <1>7, BuildIs
  <2>2. n.kind = d.kind /\ n.id = d.id /\ n.arg = d.arg /\ n.pc = "install"
    BY <1>1, <2>1 DEF Doing
  <2>3. request'[r] = n
    BY <2>1, OneMoves
  <2>4. \A s \in SessionIds \ {d.id} : want'[s] = want[s]
    BY <1>1, <2>1
  <2>5. DOMAIN entry \subseteq DOMAIN entry'
    <3>1. DOMAIN entry = 1..Len(entry) /\ Len(entry) \in Nat
      BY <1>1
    <3> QED BY <2>1, <3>1
  <2> QED BY <1>7, <2>1, <2>2, <2>3, <2>4, <2>5 DEF Own
<1>8. CASE Install(r)
  <2> DEFINE n == [d EXCEPT !.pc = "scope", !.obj = o]
  <2>1. /\ d.pc = "install" /\ sessions' = [sessions EXCEPT ![d.id] = o]
        /\ UNCHANGED <<entry, want, asked, met>>
        /\ Set(r, Idle) \/ Set(r, n)
    BY <1>8 DEF Install, Entered, At
  <2>2. n.kind = d.kind /\ n.id = d.id /\ n.arg = d.arg /\ n.pc = "scope" /\ n.obj = o
    BY <1>1 DEF Doing
  <2> HIDE DEF n
  <2>3. request'[r] = Idle \/ request'[r] = n
    BY <2>1, OneMoves
  <2>4. d.id \in SessionIds /\ (\A s \in SessionIds \ {d.id} : sessions'[s] = sessions[s]) /\ sessions'[d.id] = o
    BY <1>1, <2>1
  <2> QED BY <1>2, <2>1, <2>2, <2>3, <2>4 DEF Own
<1>9. CASE UseScope(r)
  <2>1. /\ d.pc = "scope" /\ request'[r].pc = "search"
        /\ entry' = [entry EXCEPT ![o] = Scoped(Loop(r), d.arg)]
        /\ asked' = [asked EXCEPT ![d.id] = @ \cup {d.arg}]
        /\ request'[r].kind = d.kind /\ request'[r].id = d.id
        /\ request'[r].arg = d.arg /\ request'[r].obj = o
        /\ UNCHANGED <<sessions, want, met>>
    BY <1>9, UseScopeIs
  <2>2. asked \in [SessionIds -> SUBSET Asking] /\ d.id \in SessionIds
    BY <1>1, <2>1 DEF Shape
  <2>3. (\A s \in SessionIds \ {d.id} : asked'[s] = asked[s]) /\ asked[d.id] \subseteq asked'[d.id]
    BY <2>1, <2>2
  <2>4. /\ DOMAIN entry' = DOMAIN entry
        /\ \A e \in DOMAIN entry : e = o \/ entry'[e] = entry[e]
    BY <1>1, <2>1
  <2>5. Holds(d.id, o)
    BY DEF Holds
  <2> QED BY <2>1, <2>2, <2>3, <2>4, <2>5 DEF Own
<1>10. CASE Search(r) \/ (\E calls \in BOOLEAN : Complete(r, calls)) \/ Check(r) \/ Remember(r)
  <2>1. PICK n : Set(r, n) /\ n.kind = d.kind /\ n.id = d.id /\ n.arg = d.arg /\ n.pc # "idle" /\ n.obj = o
    <3>1. CASE Search(r)
      <4> WITNESS [d EXCEPT !.pc = "model", !.searched = Loop(r).scope]
      <4> QED BY <1>1, <3>1 DEF Search, Doing
    <3>2. CASE \E calls \in BOOLEAN : Complete(r, calls)
      <4>1. PICK calls \in BOOLEAN : Complete(r, calls)
        BY <3>2
      <4> DEFINE pc == IF calls THEN "check" ELSE "remember"
                 iter == d.iter + 1
                 told == d.personas \cup {Loop(r).persona}
                 n == [d EXCEPT !.pc = pc, !.iter = iter, !.personas = told]
      <4>2. Set(r, n) /\ pc # "idle"
        BY <4>1 DEF Complete
      <4> HIDE DEF pc, iter, told
      <4> WITNESS n
      <4> QED BY <1>1, <4>2 DEF Doing
    <3>3. CASE Check(r)
      <4> DEFINE pc == IF LoopsOn(d.iter) THEN "model" ELSE "remember"
      <4>1. Set(r, [d EXCEPT !.pc = pc]) /\ pc # "idle"
        BY <3>3 DEF Check, Goto
      <4> HIDE DEF pc
      <4> WITNESS [d EXCEPT !.pc = pc]
      <4> QED BY <1>1, <4>1 DEF Doing
    <3>4. CASE Remember(r)
      <4>1. PICK text \in BOOLEAN :
          Set(r, [d EXCEPT !.pc = "trace", !.remembered = IF text THEN Loop(r).scope ELSE None])
        BY <3>4 DEF Remember
      <4> DEFINE scope == IF text THEN Loop(r).scope ELSE None
      <4>2. Set(r, [d EXCEPT !.pc = "trace", !.remembered = scope])
        BY <4>1
      <4> HIDE DEF scope
      <4> WITNESS [d EXCEPT !.pc = "trace", !.remembered = scope]
      <4> QED BY <1>1, <4>2 DEF Doing
    <3> QED BY <1>10, <3>1, <3>2, <3>3, <3>4
  <2>2. UNCHANGED <<sessions, entry, want, asked, met>> /\ d.pc # "idle"
    BY <1>10 DEF Search, Complete, Check, Remember, At
  <2> QED BY <2>1, <2>2, OwnIfAlone
<1>11. CASE SetTrace(r) \/ SetLast(r) \/ SetMode(r) \/ SetPersona(r) \/ SetProfile(r)
  <2>1. UNCHANGED <<sessions, asked, met>> /\ d.pc \in Holding /\ d.id \in SessionIds
    BY <1>1, <1>11 DEF SetTrace, SetLast, SetMode, SetPersona, SetProfile, At, Holding
  <2>2. \A s \in SessionIds \ {d.id} : want'[s] = want[s]
    BY <1>1, <1>11, <2>1 DEF SetTrace, SetLast, SetMode, SetPersona, SetProfile
  <2>3. PICK n : Set(r, n) /\ (n = Idle \/ (n.kind = d.kind /\ n.id = d.id /\ n.arg = d.arg /\ n.pc # "idle"))
                 /\ n.obj \in {None, o}
    <3>1. CASE Set(r, Idle)
      BY <1>2, <3>1
    <3>2. ASSUME NEW pc \in {"last", "name"}, Goto(r, pc)
          PROVE \E n : Set(r, n) /\ n.kind = d.kind /\ n.id = d.id /\ n.arg = d.arg /\ n.pc # "idle" /\ n.obj = o
      <4> WITNESS [d EXCEPT !.pc = pc]
      <4> QED BY <1>1, <3>2 DEF Doing, Goto
    <3> QED BY <1>11, <3>1, <3>2 DEF SetTrace, SetLast, SetMode, SetPersona, SetProfile
  <2>4. PICK x : Update(r, x)
    BY <1>11 DEF SetTrace, SetLast, SetMode, SetPersona, SetProfile
  <2> QED BY <2>1, <2>2, <2>3, <2>4, OwnIfUpdated
<1>12. CASE Lookup(r)
  <2>1. PICK n \in Doing : Set(r, n) /\ (n = Idle \/ n = [d EXCEPT !.pc = d.kind, !.obj = sessions[d.id]])
    BY <1>12, LookupIs
  <2>2. d.pc = "lookup" /\ d.kind \in {"mode", "profile", "cost"} /\ UNCHANGED <<sessions, entry, want, asked, met>>
    BY <1>1, <1>12, LookupIs, KindOf
  <2>3. CASE n = [d EXCEPT !.pc = d.kind, !.obj = sessions[d.id]]
    <3>1. n.kind = d.kind /\ n.id = d.id /\ n.arg = d.arg /\ n.pc # "idle" /\ n.obj = sessions[d.id]
      <4> DEFINE pc == d.kind
                 e == sessions[d.id]
      <4>1. pc # "idle" /\ n = [d EXCEPT !.pc = pc, !.obj = e]
        BY <2>2, <2>3
      <4> HIDE DEF pc, e
      <4>2. n.kind = d.kind /\ n.id = d.id /\ n.arg = d.arg /\ n.pc # "idle" /\ n.obj = e
        BY <1>1, <4>1 DEF Doing
      <4> QED BY <4>2 DEF e
    <3> QED BY <2>1, <2>2, <3>1, OwnIfAlone
  <2> QED BY <1>3, <2>1, <2>2, <2>3
<1>13. CASE LoadPersona(r) \/ CostScope(r) \/ CostSpent(r) \/ Fail(r)
  <2>1. UNCHANGED <<sessions, entry, want, asked, met>> /\ d.pc # "idle"
    BY <1>13 DEF LoadPersona, CostScope, CostSpent, Fail, At
  <2>2. PICK x : \/ Set(r, Idle) \/ Set(r, [d EXCEPT !.pc = "system", !.text = x])
                 \/ Set(r, [d EXCEPT !.pc = "spent", !.searched = x])
    BY <1>13 DEF LoadPersona, CostScope, CostSpent, Fail
  <2>3. CASE Set(r, [d EXCEPT !.pc = "system", !.text = x])
    <3> DEFINE n == [d EXCEPT !.pc = "system", !.text = x]
    <3>1. n.kind = d.kind /\ n.id = d.id /\ n.arg = d.arg /\ n.pc = "system" /\ n.obj = o
      BY <1>1 DEF Doing
    <3> HIDE DEF n
    <3>2. Set(r, n)
      BY <2>3 DEF n
    <3> QED BY <2>1, <3>1, <3>2, OwnIfAlone
  <2>4. CASE Set(r, [d EXCEPT !.pc = "spent", !.searched = x])
    <3> DEFINE n == [d EXCEPT !.pc = "spent", !.searched = x]
    <3>1. n.kind = d.kind /\ n.id = d.id /\ n.arg = d.arg /\ n.pc = "spent" /\ n.obj = o
      BY <1>1 DEF Doing
    <3> HIDE DEF n
    <3>2. Set(r, n)
      BY <2>4 DEF n
    <3> QED BY <2>1, <3>1, <3>2, OwnIfAlone
  <2> QED BY <1>3, <2>1, <2>2, <2>3, <2>4
<1>14. CASE ReadEnv(r) \/ TruncateEnv(r) \/ WriteEnv(r) \/ ApplyKey(r) \/ RebuildModel(r) \/ AnswerKey(r)
  <2>1. UNCHANGED <<sessions, want, asked, met>> /\ d.pc # "idle" /\ d.id \in SessionIds
    BY <1>1, <1>14 DEF ReadEnv, TruncateEnv, WriteEnv, ApplyKey, RebuildModel, AnswerKey, At
  <2>2. PICK n : Set(r, n) /\ (n = Idle \/ (n.kind = d.kind /\ n.id = d.id /\ n.arg = d.arg /\ n.pc # "idle"))
                 /\ n.obj \in {None, o}
    <3>1. CASE Set(r, Idle)
      BY <1>2, <3>1
    <3>2. ASSUME NEW pc, pc # "idle", Goto(r, pc)
          PROVE \E n : Set(r, n) /\ n.kind = d.kind /\ n.id = d.id /\ n.arg = d.arg /\ n.pc # "idle" /\ n.obj = o
      <4> WITNESS [d EXCEPT !.pc = pc]
      <4> QED BY <1>1, <3>2 DEF Doing, Goto
    <3>3. CASE ReadEnv(r)
      <4> WITNESS [d EXCEPT !.pc = "truncate", !.buf = env]
      <4> QED BY <1>1, <3>3 DEF Doing, ReadEnv
    <3>4. CASE TruncateEnv(r) \/ WriteEnv(r) \/ RebuildModel(r)
      BY <3>2, <3>4 DEF TruncateEnv, WriteEnv, RebuildModel
    <3>5. CASE ApplyKey(r)
      <4>1. Goto(r, "rebuild") \/ Goto(r, "answer")
        BY <3>5 DEF ApplyKey
      <4> QED BY <3>2, <4>1
    <3>6. CASE AnswerKey(r)
      BY <3>1, <3>6 DEF AnswerKey
    <3> QED BY <1>14, <3>3, <3>4, <3>5, <3>6
  <2>3. CASE ~RebuildModel(r)
    <3>1. entry' = entry
      BY <1>14, <2>3 DEF ReadEnv, TruncateEnv, WriteEnv, ApplyKey, AnswerKey
    <3> QED BY <2>1, <2>2, <3>1, OwnIfAlone
  <2>4. CASE RebuildModel(r)
    <3> DEFINE e == sessions[d.id]
    <3>1. entry' = entry \/ entry' = [entry EXCEPT ![e].model = provider]
      BY <2>4 DEF RebuildModel
    <3>2. DOMAIN entry' = DOMAIN entry /\ \A i \in DOMAIN entry : i = e \/ entry'[i] = entry[i]
      BY <1>1, <3>1
    <3>3. Holds(d.id, e)
      BY DEF Holds
    <3>4. request'[r] = n
      BY <2>2, OneMoves
    <3> QED BY <2>1, <2>2, <3>2, <3>3, <3>4 DEF Own
  <2> QED BY <2>3, <2>4
<1> QED BY <1>4, <1>5, <1>6, <1>7, <1>8, <1>9, <1>10, <1>11, <1>12, <1>13, <1>14 DEF Step, Starts

-----------------------------------------------------------------------------------
(* Keys stay saved.                                                        *)

\* While no two requests to save a key have met: there is at most one; what it read is what
\* .env has until it empties the file, has every key saved before until it writes it again,
\* and after that .env has its own key.
Saving == {"readenv", "truncate", "writeenv", "apply", "rebuild", "answer"}
Saves ==
  keysMet \/
    /\ \A r, q \in Requests : request[r].pc \in Saving /\ request[q].pc \in Saving => r = q
    /\ \A r \in Requests : request[r].pc = "truncate" => request[r].buf = env
    /\ \A r \in Requests : request[r].pc = "writeenv" => saved \subseteq request[r].buf
    /\ \A r \in Requests : request[r].pc \in {"apply", "rebuild", "answer"} => request[r].arg \in env
    /\ (\A r \in Requests : request[r].pc # "writeenv") => saved \subseteq env

\* A request to save a key is one from the time it begins until it is answered.
LEMMA SavingIsForKeys ==
  ASSUME NEW d, NEW n, Phase(d, n)
  PROVE  d.pc \in Saving <=> d.pc # "idle" /\ d.kind = "key"
<1>1. CASE d.pc = "idle"
  BY <1>1 DEF Saving
<1>2. CASE d.pc # "idle"
  <2>1. d.kind = "key" => d.pc \in PhasesOf("key")
    BY <1>2 DEF Phase
  <2> QED BY <1>2, <2>1, KindOf, KindsAre DEF Saving
<1> QED BY <1>1, <1>2

\* A step of a request that saves no key.
LEMMA OthersLeaveTheKeys ==
  ASSUME Shape, Shape', Saves, NEW r \in Requests, Step(r), Own(r), request[r].pc \notin Saving
  PROVE  Saves'
<1>1. UNCHANGED <<env, saved, keysMet>>
  <2>1. /\ ~ReadEnv(r) /\ ~TruncateEnv(r) /\ ~WriteEnv(r) /\ ~ApplyKey(r) /\ ~RebuildModel(r)
        /\ ~AnswerKey(r)
    BY DEF Saving, ReadEnv, TruncateEnv, WriteEnv, ApplyKey, RebuildModel, AnswerKey, At
  <2>2. ~Starts(r)
    BY DEF Starts, Begin, At, Own
  <2>3. CASE Found(r) \/ Build(r) \/ Install(r) \/ UseScope(r)
    BY <2>3 DEF Found, Build, Install, UseScope
  <2>4. CASE TestProfile(r) \/ ChooseText(r) \/ TruncatePersona(r) \/ WritePersona(r)
    BY <2>4 DEF TestProfile, ChooseText, TruncatePersona, WritePersona
  <2>5. CASE Search(r) \/ (\E calls \in BOOLEAN : Complete(r, calls)) \/ Check(r) \/ Remember(r)
    BY <2>5 DEF Search, Complete, Check, Remember
  <2>6. CASE SetTrace(r) \/ SetLast(r) \/ SetMode(r) \/ SetPersona(r) \/ SetProfile(r)
    BY <2>6 DEF SetTrace, SetLast, SetMode, SetPersona, SetProfile
  <2>7. CASE Lookup(r) \/ LoadPersona(r) \/ CostScope(r) \/ CostSpent(r) \/ Fail(r)
    BY <2>7 DEF Lookup, LoadPersona, CostScope, CostSpent, Fail
  <2> QED BY <2>1, <2>2, <2>3, <2>4, <2>5, <2>6, <2>7 DEF Step, Starts
<1>2. request'[r].pc \notin Saving
  <2>1. /\ Phase(request[r], Len(entry)) /\ Phase(request'[r], Len(entry'))
        /\ request[r].pc # "idle"
    BY DEF Shape, Own
  <2>2. request'[r] = Idle \/ request'[r].kind = request[r].kind
    BY DEF Own
  <2> QED BY <2>1, <2>2, IdleIs, SavingIsForKeys DEF Saving
<1>3. \A q \in Requests : q # r => /\ request'[q].pc = request[q].pc /\ request'[q].buf = request[q].buf
                                   /\ request'[q].arg = request[q].arg
  BY OthersStay DEF Alike
<1>4. \A q \in Requests : request'[q].pc \in Saving => q # r /\ request[q].pc \in Saving
  BY <1>2, <1>3
<1>5. (\A q \in Requests : request'[q].pc # "writeenv") => (\A q \in Requests : request[q].pc # "writeenv")
  BY <1>3 DEF Saving
<1> QED BY <1>1, <1>3, <1>4, <1>5 DEF Saves, Saving

LEMMA BeginKeepsSaves ==
  ASSUME Shape, Shape', Saves, NEW r \in Requests, Step(r), Starts(r)
  PROVE  Saves'
<1>1. PICK kind \in Kinds, s \in SessionIds : \E arg \in Args(kind) : Begin(r, kind, s, arg)
  BY DEF Starts
<1>2. /\ UNCHANGED <<env, saved>> /\ request[r].pc = "idle"
      /\ keysMet' = (keysMet \/ (kind = "key" /\ \E q \in Requests : request[q].kind = "key"))
  BY <1>1 DEF Begin, At
<1>3. request'[r].kind = kind /\ request'[r].pc = FirstStep(kind)
  <2>1. PICK arg : Set(r, [Idle EXCEPT !.pc = FirstStep(kind), !.kind = kind, !.id = s, !.arg = arg])
    BY <1>1 DEF Begin
  <2> DEFINE n == [Idle EXCEPT !.pc = FirstStep(kind), !.kind = kind, !.id = s, !.arg = arg]
  <2>2. n.kind = kind /\ n.pc = FirstStep(kind)
    BY DEF Idle
  <2>3. Set(r, n)
    BY <2>1
  <2> HIDE DEF n
  <2> QED BY <2>2, <2>3, OneMoves
<1>4. \A q \in Requests : q # r => /\ request'[q].pc = request[q].pc /\ request'[q].buf = request[q].buf
                                   /\ request'[q].arg = request[q].arg
  BY OthersStay DEF Alike
<1>5. request'[r].pc \in Saving => kind = "key" /\ request'[r].pc = "readenv"
  <2>1. Phase(request'[r], Len(entry'))
    BY DEF Shape
  <2>2. request'[r].pc \in Saving => kind = "key"
    BY <1>3, <2>1, SavingIsForKeys
  <2> QED BY <1>3, <2>2 DEF FirstStep
<1>6. \A q \in Requests : request[q].pc \in Saving => request[q].kind = "key"
  BY Here, SavingIsForKeys
<1>7. r \in Requests /\ request[r].pc \notin Saving /\ (keysMet => keysMet')
  BY <1>2 DEF Saving
<1>8. (\A q \in Requests : request'[q].pc # "writeenv") => (\A q \in Requests : request[q].pc # "writeenv")
  BY <1>2, <1>4
<1>9. ASSUME ~keysMet', NEW p \in Requests, NEW q \in Requests, request'[p].pc \in Saving, request'[q].pc \in Saving
      PROVE  p = q
  BY <1>2, <1>4, <1>5, <1>6, <1>9 DEF Saves
<1>10. ~keysMet' =>
         /\ \A q \in Requests : request'[q].pc = "truncate" => request'[q].buf = env'
         /\ \A q \in Requests : request'[q].pc = "writeenv" => saved' \subseteq request'[q].buf
         /\ \A q \in Requests : request'[q].pc \in {"apply", "rebuild", "answer"} => request'[q].arg \in env'
         /\ (\A q \in Requests : request'[q].pc # "writeenv") => saved' \subseteq env'
  BY <1>2, <1>4, <1>5, <1>7, <1>8 DEF Saves, Saving
<1> QED BY <1>9, <1>10 DEF Saves

LEMMA KeyStepsKeepSaves ==
  ASSUME Shape, Shape', Saves, NEW r \in Requests, Step(r),
         ReadEnv(r) \/ TruncateEnv(r) \/ WriteEnv(r) \/ ApplyKey(r) \/ RebuildModel(r) \/ AnswerKey(r)
  PROVE  Saves'
<1> DEFINE d == request[r]
<1>1. d \in Doing /\ d.pc \in Saving /\ keysMet' = keysMet
  BY Here DEF ReadEnv, TruncateEnv, WriteEnv, ApplyKey, RebuildModel, AnswerKey, At, Saving
<1>2. \A q \in Requests : q # r => request'[q] = request[q]
  <2>1. ~UseScope(r)
    BY <1>1 DEF UseScope, At, Saving
  <2> QED BY <2>1, OthersStay
<1> SUFFICES ASSUME ~keysMet PROVE Saves'
  BY <1>1 DEF Saves
<1>3. \A q \in Requests : q # r => request[q].pc \notin Saving /\ request'[q].pc \notin Saving
  BY <1>1, <1>2 DEF Saves
<1>4. SUFFICES /\ request'[r].pc = "truncate" => request'[r].buf = env'
               /\ request'[r].pc = "writeenv" => saved' \subseteq request'[r].buf
               /\ request'[r].pc \in {"apply", "rebuild", "answer"} => request'[r].arg \in env'
               /\ request'[r].pc # "writeenv" => saved' \subseteq env'
  BY <1>3 DEF Saves, Saving
<1>5. d.pc # "writeenv" => saved \subseteq env
  BY <1>3 DEF Saves, Saving
<1>6. ASSUME NEW pc, Goto(r, pc) PROVE request'[r].pc = pc /\ request'[r].arg = d.arg /\ request'[r].buf = d.buf
  <2>1. request'[r] = [d EXCEPT !.pc = pc]
    BY <1>6, OneMoves DEF Goto
  <2> QED BY <1>1, <2>1 DEF Doing
<1>7. CASE ReadEnv(r)
  <2>1. request'[r] = [d EXCEPT !.pc = "truncate", !.buf = env] /\ d.pc = "readenv" /\ UNCHANGED <<env, saved>>
    BY <1>7, OneMoves DEF ReadEnv, At
  <2>2. request'[r].pc = "truncate" /\ request'[r].buf = env
    BY <1>1, <2>1 DEF Doing
  <2> QED BY <1>5, <2>1, <2>2
<1>8. CASE TruncateEnv(r)
  <2>1. d.pc = "truncate" /\ saved' = saved /\ request'[r].pc = "writeenv" /\ request'[r].buf = d.buf
    BY <1>6, <1>8 DEF TruncateEnv, At
  <2>2. d.buf = env
    BY <2>1 DEF Saves
  <2> QED BY <1>5, <2>1, <2>2
<1>9. CASE WriteEnv(r)
  <2>1. /\ d.pc = "writeenv" /\ saved' = saved /\ request'[r].pc = "apply" /\ request'[r].arg = d.arg
        /\ env' = d.buf \cup {d.arg}
    BY <1>6, <1>9 DEF WriteEnv, At
  <2>2. saved \subseteq d.buf
    BY <2>1 DEF Saves
  <2> QED BY <2>1, <2>2
<1>10. CASE ApplyKey(r) \/ RebuildModel(r)
  <2>1. /\ d.pc \in {"apply", "rebuild"} /\ UNCHANGED <<env, saved>> /\ request'[r].arg = d.arg
        /\ request'[r].pc \in {"rebuild", "answer"}
    BY <1>6, <1>10 DEF ApplyKey, RebuildModel, At
  <2>2. d.arg \in env
    BY <2>1 DEF Saves
  <2> QED BY <1>5, <2>1, <2>2
<1>11. CASE AnswerKey(r)
  <2>1. d.pc = "answer" /\ request'[r].pc = "idle" /\ env' = env /\ saved' = saved \cup {d.arg}
    BY <1>11, OneMoves, IdleIs DEF AnswerKey, At
  <2>2. d.arg \in env
    BY <2>1 DEF Saves
  <2> QED BY <1>5, <2>1, <2>2
<1> QED BY <1>7, <1>8, <1>9, <1>10, <1>11

LEMMA SavesKept ==
  ASSUME Shape, Shape', Saves, [Next]_vars
  PROVE  Saves'
<1>1. CASE Restart
  <2>1. /\ \A r \in Requests : request'[r].pc = "idle"
        /\ keysMet' = (keysMet \/ \E r \in Requests : request[r].pc = "writeenv")
        /\ UNCHANGED <<env, saved>>
    BY <1>1, IdleIs DEF Restart, At
  <2> QED BY <2>1 DEF Saves, Saving
<1>2. ASSUME NEW r \in Requests, Step(r) PROVE Saves'
  <2>1. CASE Starts(r)
    BY <1>2, <2>1, BeginKeepsSaves
  <2>2. CASE Own(r) /\ request[r].pc \notin Saving
    BY <1>2, <2>2, OthersLeaveTheKeys
  <2>3. CASE Own(r) /\ request[r].pc \in Saving
    <3>1. ReadEnv(r) \/ TruncateEnv(r) \/ WriteEnv(r) \/ ApplyKey(r) \/ RebuildModel(r) \/ AnswerKey(r)
      <4>1. ~Starts(r)
        BY <2>3 DEF Starts, Begin, At, Saving
      <4>2. /\ ~TestProfile(r) /\ ~ChooseText(r) /\ ~TruncatePersona(r) /\ ~WritePersona(r)
            /\ ~Found(r) /\ ~Build(r) /\ ~Install(r) /\ ~UseScope(r) /\ ~Search(r)
        BY <2>3 DEF Saving, TestProfile, ChooseText, TruncatePersona, WritePersona, Found, Build, Install,
             UseScope, Search, At
      <4>3. /\ ~(\E calls \in BOOLEAN : Complete(r, calls)) /\ ~Check(r) /\ ~Remember(r) /\ ~SetTrace(r)
            /\ ~SetLast(r) /\ ~Fail(r) /\ ~Lookup(r)
        BY <2>3 DEF Saving, Complete, Check, Remember, SetTrace, SetLast, Fail, Lookup, At
      <4>4. /\ ~SetMode(r) /\ ~LoadPersona(r) /\ ~SetPersona(r) /\ ~SetProfile(r) /\ ~CostScope(r)
            /\ ~CostSpent(r)
        BY <2>3 DEF Saving, SetMode, LoadPersona, SetPersona, SetProfile, CostScope, CostSpent, At
      <4> QED BY <1>2, <4>1, <4>2, <4>3, <4>4 DEF Step, Starts
    <3> QED BY <1>2, <3>1, KeyStepsKeepSaves
  <2> QED BY <1>2, <2>1, <2>2, <2>3, StepsAreOwn
<1>3. CASE UNCHANGED vars
  BY <1>3 DEF vars, Saves
<1> QED BY <1>1, <1>2, <1>3 DEF Next

LEMMA ShapeAlways == Spec => []Shape
BY ShapeAtStart, ShapeKept, PTL DEF Spec

\* KeysPersistUnlessMet, for any keys and requests: a key that was saved is in .env, or is
\* being written back to it, unless two requests to save one met or the server stopped
\* within one.
THEOREM SavedKeysPersist == Spec => []KeysPersistUnlessMet
<1>1. Init => Saves
  <2> SUFFICES ASSUME Init PROVE Saves
    OBVIOUS
  <2>1. saved = {} /\ \A r \in Requests : request[r].pc = "idle"
    BY IdleIs DEF Init
  <2> QED BY <2>1 DEF Saves, Saving
<1>2. Saves => KeysPersistUnlessMet
  <2> SUFFICES ASSUME Saves, ~keysMet,
                      NEW k \in saved, k \notin env
               PROVE  \E q \in {q \in Requests : At(q, "writeenv")} : k \in request[q].buf
    BY DEF KeysPersistUnlessMet
  <2>1. PICK q \in Requests : request[q].pc = "writeenv"
    BY DEF Saves
  <2>2. saved \subseteq request[q].buf
    BY <2>1 DEF Saves
  <2> QED BY <2>1, <2>2 DEF At
<1> QED BY <1>1, <1>2, SavesKept, ShapeAlways, PTL DEF Spec

-----------------------------------------------------------------------------------
(* Sessions do not share entries, and scopes stay in their session.        *)

\* An entry is one session's at most.
Owned == \A s, t \in SessionIds, e \in DOMAIN entry : Holds(s, e) /\ Holds(t, e) => s = t

\* The scope of an entry is one its session asked for, and what a turn has read and written
\* under was such a scope; while the turn is alone it is the turn's own.
Scoping ==
  /\ \A s \in SessionIds, e \in DOMAIN entry : Holds(s, e) => entry[e].scope \in asked[s] \cup {None}
  /\ \A r \in Requests : HasLoop(r) =>
       {request[r].searched, request[r].remembered} \subseteq asked[request[r].id] \cup {None}
  /\ \A r \in Requests : HasLoop(r) /\ request[r].alone =>
       /\ Loop(r).scope = request[r].arg
       /\ {request[r].searched, request[r].remembered} \subseteq {request[r].arg, None}

\* Only entries have holders, and None is not one.
LEMMA HoldersHaveEntries ==
  ASSUME Shape, NEW s \in SessionIds, NEW e, Holds(s, e), e # None
  PROVE  e \in DOMAIN entry
<1>1. DOMAIN entry = 1..Len(entry) /\ sessions[s] \in 1..Len(entry) \cup {None}
  BY DEF Shape
<1>2. \A r \in Requests : request[r].obj \in 1..Len(entry) \cup {None}
  BY Here DEF Phase
<1> QED BY <1>1, <1>2 DEF Holds

LEMMA NoneIsNoEntry ==
  ASSUME Shape
  PROVE  /\ DOMAIN entry = 1..Len(entry) /\ Len(entry) \in Nat /\ None \notin DOMAIN entry
         /\ Len(entry) + 1 \notin DOMAIN entry /\ Len(entry) + 1 # None
<1>1. DOMAIN entry = 1..Len(entry) /\ Len(entry) \in Nat
  BY DEF Shape
<1> QED BY <1>1, ServerAssumption

\* A step of a request makes nobody the holder of another's entry.
LEMMA HoldersStay ==
  ASSUME Shape, Shape', NEW r \in Requests, Step(r), Own(r),
         NEW s \in SessionIds, NEW e \in DOMAIN entry', Holds(s, e)'
  PROVE  Holds(s, e) \/ (Build(r) /\ s = request[r].id /\ e = Len(entry) + 1)
<1>1. e # None
  <2>1. e \in 1..Len(entry') /\ Len(entry') \in Nat
    BY DEF Shape
  <2> QED BY <2>1, ServerAssumption
<1>2. CASE sessions'[s] = e
  <2>1. sessions'[s] = sessions[s] \/ (s = request[r].id /\ request[r].obj = e)
    BY <1>2 DEF Own
  <2> QED BY <1>2, <2>1 DEF Holds
<1>3. ASSUME NEW q \in Requests, request'[q].id = s, request'[q].obj = e, q # r
      PROVE  Holds(s, e)
  <2>1. request[q].id = s /\ request[q].obj = e
    BY <1>3, OthersStay DEF Alike
  <2> QED BY <2>1 DEF Holds
<1>4. CASE request'[r].id = s /\ request'[r].obj = e
  <2>1. request[r].id = s
    BY <1>1, <1>4, IdleIs DEF Own
  <2>2. CASE Build(r)
    <3>1. PICK p \in Profiles, n \in Doing :
            Set(r, n) /\ n = [request[r] EXCEPT !.pc = "install", !.obj = Len(entry) + 1]
      BY <2>2, BuildIs
    <3>2. request'[r] = n /\ n.obj = Len(entry) + 1
      <4>1. request[r] \in Doing
        BY Here
      <4>2. n.obj = Len(entry) + 1
        BY <3>1, <4>1 DEF Doing
      <4> QED BY <3>1, <4>2, OneMoves
    <3> QED BY <1>4, <2>1, <2>2, <3>2
  <2>3. CASE ~Build(r)
    <3>1. e \in {request[r].obj, sessions[s]}
      BY <1>1, <1>4, <2>1, <2>3 DEF Own
    <3> QED BY <2>1, <3>1 DEF Holds
  <2> QED BY <2>2, <2>3
<1> QED BY <1>2, <1>3, <1>4 DEF Holds

LEMMA BeginIs ==
  ASSUME Shape, NEW r \in Requests, Starts(r)
  PROVE  \E kind \in Kinds, s \in SessionIds : \E arg \in Args(kind) :
           /\ request[r].pc = "idle" /\ Begin(r, kind, s, arg)
           /\ request'[r].pc = FirstStep(kind) /\ request'[r].kind = kind /\ request'[r].id = s
           /\ request'[r].arg = arg /\ request'[r].obj = None /\ request'[r].personas = {}
           /\ request'[r].pc \in {"session", "exists", "readenv", "lookup"}
           /\ \A q \in Requests : q # r => request'[q] = request[q]
           /\ UNCHANGED <<sessions, entry, provider, env, asked, want, saved, disk, created>>
<1>1. PICK kind \in Kinds, s \in SessionIds : \E arg \in Args(kind) : Begin(r, kind, s, arg)
  BY DEF Starts
<1>2. PICK arg \in Args(kind) : Begin(r, kind, s, arg)
  BY <1>1
<1> DEFINE n == [Idle EXCEPT !.pc = FirstStep(kind), !.kind = kind, !.id = s, !.arg = arg]
<1>3. /\ n.pc = FirstStep(kind) /\ n.kind = kind /\ n.id = s /\ n.arg = arg /\ n.obj = None
      /\ n.personas = {}
  BY DEF Idle
<1>4. Set(r, n) /\ request[r].pc = "idle" /\ UNCHANGED <<sessions, entry, provider, env, asked, want, saved, disk, created>>
  BY <1>2 DEF Begin, At
<1>5. FirstStep(kind) \in {"session", "exists", "readenv", "lookup"}
  BY DEF FirstStep
<1> HIDE DEF n
<1> QED BY <1>2, <1>3, <1>4, <1>5, OneMoves

LEMMA BeginKeepsHolders ==
  ASSUME Shape, NEW r \in Requests, Starts(r), NEW s \in SessionIds, NEW e \in DOMAIN entry', Holds(s, e)'
  PROVE  Holds(s, e) /\ e \in DOMAIN entry
<1>1. /\ request'[r].obj = None /\ \A q \in Requests : q # r => request'[q] = request[q]
      /\ UNCHANGED <<sessions, entry>>
  BY BeginIs
<1>2. e # None
  BY <1>1, NoneIsNoEntry
<1> QED BY <1>1, <1>2 DEF Holds

LEMMA OwnedKept ==
  ASSUME Shape, Shape', Owned, [Next]_vars
  PROVE  Owned'
<1>1. CASE Restart
  <2>1. entry' = <<>>
    BY <1>1 DEF Restart
  <2>2. DOMAIN entry' = {}
    BY <2>1
  <2> QED BY <2>2 DEF Owned
<1>2. ASSUME NEW r \in Requests, Step(r), Own(r),
             NEW s \in SessionIds, NEW t \in SessionIds, NEW e \in DOMAIN entry', Holds(s, e)', Holds(t, e)'
      PROVE  s = t
  <2>1. CASE e = Len(entry) + 1
    <3>1. ~Holds(s, e) /\ ~Holds(t, e)
      BY <2>1, NoneIsNoEntry, HoldersHaveEntries
    <3> QED BY <1>2, <3>1, HoldersStay
  <2>2. CASE e # Len(entry) + 1
    <3>1. Holds(s, e) /\ Holds(t, e)
      BY <1>2, <2>2, HoldersStay
    <3>2. e # None
      <4>1. e \in 1..Len(entry') /\ Len(entry') \in Nat
        BY DEF Shape
      <4> QED BY <4>1, ServerAssumption
    <3> QED BY <3>1, <3>2, HoldersHaveEntries DEF Owned
  <2> QED BY <2>1, <2>2
<1>3. ASSUME NEW r \in Requests, Starts(r) PROVE Owned'
  BY <1>3, BeginKeepsHolders DEF Owned
<1>4. CASE UNCHANGED vars
  BY <1>4 DEF vars, Owned, Holds
<1> QED BY <1>1, <1>2, <1>3, <1>4, StepsAreOwn DEF Next, Owned

\* The steps that change an entry.
LEMMA EntriesChangeIn ==
  ASSUME NEW r \in Requests, Step(r), Own(r)
  PROVE  \/ entry' = entry \/ Build(r) \/ RebuildModel(r) \/ UseScope(r)
         \/ SetTrace(r) \/ SetLast(r) \/ SetMode(r) \/ SetPersona(r) \/ SetProfile(r)
<1>1. ~Starts(r)
  BY DEF Starts, Begin, At, Own
<1>2. CASE \/ TestProfile(r) \/ ChooseText(r) \/ TruncatePersona(r) \/ WritePersona(r) \/ Found(r)
           \/ Install(r) \/ Search(r) \/ (\E calls \in BOOLEAN : Complete(r, calls)) \/ Check(r)
  BY <1>2 DEF TestProfile, ChooseText, TruncatePersona, WritePersona, Found, Install, Search, Complete, Check
<1>3. CASE \/ Remember(r) \/ Fail(r) \/ Lookup(r) \/ LoadPersona(r) \/ CostScope(r) \/ CostSpent(r)
           \/ ReadEnv(r) \/ TruncateEnv(r) \/ WriteEnv(r) \/ ApplyKey(r) \/ AnswerKey(r)
  BY <1>3 DEF Remember, Fail, Lookup, LoadPersona, CostScope, CostSpent, ReadEnv, TruncateEnv, WriteEnv,
       ApplyKey, AnswerKey
<1> QED BY <1>1, <1>2, <1>3 DEF Step, Starts

\* Scopes are set by UseScope alone.
LEMMA ScopesStay ==
  ASSUME Shape, NEW r \in Requests, Step(r), Own(r), ~UseScope(r), NEW e \in DOMAIN entry
  PROVE  entry'[e].scope = entry[e].scope
<1>1. entry \in Seq(Entry) /\ entry[e] \in Entry
  BY DEF Shape
<1>2. CASE entry' = entry
  BY <1>2
<1>3. CASE Build(r)
  BY <1>3, BuildIs
<1>4. CASE SetTrace(r) \/ SetLast(r) \/ SetMode(r) \/ SetPersona(r) \/ SetProfile(r)
  <2>1. request[r].pc \in Holding
    BY <1>4 DEF SetTrace, SetLast, SetMode, SetPersona, SetProfile, At, Holding
  <2>2. Loop(r) \in Entry /\ Loop(r) = entry[request[r].obj]
    BY <2>1, InUse
  <2>3. PICK x : Update(r, x) /\ x.scope = Loop(r).scope
    BY <1>4, <2>2 DEF SetTrace, SetLast, SetMode, SetPersona, SetProfile, Entry
  <2>4. entry' = [entry EXCEPT ![request[r].obj] = x]
    BY <2>3 DEF Update
  <2> QED BY <1>1, <2>2, <2>3, <2>4
<1>5. CASE RebuildModel(r)
  <2> DEFINE o == sessions[request[r].id]
  <2>1. entry' = entry \/ entry' = [entry EXCEPT ![o].model = provider]
    BY <1>5 DEF RebuildModel
  <2> QED BY <1>1, <2>1 DEF Entry
<1> QED BY <1>2, <1>3, <1>4, <1>5, EntriesChangeIn

\* How a request comes to have a loop, or keeps it.
LEMMA HavingALoop ==
  ASSUME Shape, Shape', NEW r \in Requests, Step(r), Own(r), HasLoop(r)'
  PROVE  \/ UseScope(r)
         \/ /\ HasLoop(r) /\ request'[r].obj = request[r].obj /\ request'[r].id = request[r].id
            /\ request'[r].arg = request[r].arg /\ request'[r].alone = request[r].alone
            /\ request'[r].searched \in {request[r].searched, Loop(r).scope}
            /\ request'[r].remembered \in {request[r].remembered, Loop(r).scope, None}
<1> DEFINE d == request[r]
<1>1. d \in Doing /\ (d.pc \in Holding => d.obj \in DOMAIN entry) /\ Phase(d, Len(entry))
  BY Here
<1>2. CASE Search(r)
  <2>1. request'[r] = [d EXCEPT !.pc = "model", !.searched = Loop(r).scope] /\ HasLoop(r)
    BY <1>2, OneMoves DEF Search, HasLoop, At
  <2> QED BY <1>1, <2>1 DEF Doing
<1>3. CASE \E calls \in BOOLEAN : Complete(r, calls)
  <2>1. PICK pc, iter, told :
          request'[r] = [d EXCEPT !.pc = pc, !.iter = iter, !.personas = told] /\ HasLoop(r)
    <3>1. PICK calls \in BOOLEAN : Complete(r, calls)
      BY <1>3
    <3> DEFINE pc == IF calls THEN "check" ELSE "remember"
               iter == d.iter + 1
               told == d.personas \cup {Loop(r).persona}
    <3>2. Set(r, [d EXCEPT !.pc = pc, !.iter = iter, !.personas = told]) /\ HasLoop(r)
      BY <3>1 DEF Complete, HasLoop, At
    <3> HIDE DEF pc, iter, told
    <3>3. request'[r] = [d EXCEPT !.pc = pc, !.iter = iter, !.personas = told]
      BY <3>2, OneMoves
    <3> WITNESS pc, iter, told
    <3> QED BY <3>2, <3>3
  <2> QED BY <1>1, <2>1 DEF Doing
<1>4. CASE Check(r) \/ SetTrace(r)
  <2>1. PICK pc : request'[r] = [d EXCEPT !.pc = pc]
    BY <1>4, OneMoves DEF Check, SetTrace, Goto
  <2>2. HasLoop(r)
    BY <1>4 DEF Check, SetTrace, HasLoop, At
  <2> QED BY <1>1, <2>1, <2>2 DEF Doing
<1>5. CASE Remember(r)
  <2>1. PICK text \in BOOLEAN :
          Set(r, [d EXCEPT !.pc = "trace", !.remembered = IF text THEN Loop(r).scope ELSE None])
    BY <1>5 DEF Remember
  <2> DEFINE scope == IF text THEN Loop(r).scope ELSE None
  <2>2. request'[r] = [d EXCEPT !.pc = "trace", !.remembered = scope] /\ scope \in {Loop(r).scope, None}
    BY <2>1, OneMoves
  <2>3. HasLoop(r)
    BY <1>5 DEF Remember, HasLoop, At
  <2> HIDE DEF scope
  <2> QED BY <1>1, <2>2, <2>3 DEF Doing
<1>6. UseScope(r) \/ Search(r) \/ (\E calls \in BOOLEAN : Complete(r, calls)) \/ Check(r) \/ SetTrace(r) \/ Remember(r)
  <2>1. ~Starts(r)
    BY DEF Starts, Begin, At, Own
  <2>2. request'[r] # Idle /\ ~Set(r, Idle)
    BY IdleIs, OneMoves DEF HasLoop
  <2>3. request'[r].kind = "turn" /\ request[r].kind = "turn"
    <3>1. request'[r].kind = "turn"
      <4>1. Phase(request'[r], Len(entry'))
        BY DEF Shape
      <4> QED BY <4>1, KindOf DEF HasLoop
    <3> QED BY <2>2, <3>1 DEF Own
  <2>4. d.pc \in {"session", "install", "scope", "search", "model", "check", "remember", "trace", "last"}
    BY <1>1, <2>3, KindsAre DEF Phase, Own
  <2>5. ~Found(r) /\ ~Install(r) /\ ~Build(r)
    <3>1. ASSUME NEW e, Entered(r, e) PROVE FALSE
      <4>1. request'[r] = [d EXCEPT !.pc = "scope", !.obj = e]
        BY <2>3, <3>1, OneMoves DEF Entered
      <4>2. request'[r].pc = "scope"
        BY <1>1, <4>1 DEF Doing
      <4> QED BY <4>2 DEF HasLoop
    <3>2. ASSUME Build(r) PROVE FALSE
      <4>1. request'[r] = [d EXCEPT !.pc = "install", !.obj = Len(entry) + 1]
        BY <3>2, OneMoves DEF Build
      <4>2. request'[r].pc = "install"
        BY <1>1, <4>1 DEF Doing
      <4> QED BY <4>2 DEF HasLoop
    <3> QED BY <3>1, <3>2 DEF Found, Install
  <2>6. /\ ~TestProfile(r) /\ ~ChooseText(r) /\ ~TruncatePersona(r) /\ ~WritePersona(r) /\ ~Lookup(r)
        /\ ~SetMode(r) /\ ~LoadPersona(r) /\ ~SetPersona(r) /\ ~SetProfile(r)
    BY <2>4 DEF TestProfile, ChooseText, TruncatePersona, WritePersona, Lookup, SetMode, LoadPersona, SetPersona,
         SetProfile, At
  <2>7. /\ ~CostScope(r) /\ ~CostSpent(r) /\ ~ReadEnv(r) /\ ~TruncateEnv(r) /\ ~WriteEnv(r) /\ ~ApplyKey(r)
        /\ ~RebuildModel(r) /\ ~AnswerKey(r)
    BY <2>4 DEF CostScope, CostSpent, ReadEnv, TruncateEnv, WriteEnv, ApplyKey, RebuildModel, AnswerKey, At
  <2>8. ~SetLast(r) /\ ~Fail(r)
    BY <2>2 DEF SetLast, Fail
  <2> QED BY <2>1, <2>5, <2>6, <2>7, <2>8 DEF Step, Starts
<1> QED BY <1>2, <1>3, <1>4, <1>5, <1>6

\* UseScope sets the scope of its own entry, which no other turn then has alone.
LEMMA UseScopeSets ==
  ASSUME Shape, NEW r \in Requests, UseScope(r)
  PROVE  /\ HasLoop(r)' /\ ~HasLoop(r) /\ request[r].pc = "scope" /\ request'[r].id = request[r].id
         /\ request'[r].arg = request[r].arg /\ request'[r].obj = request[r].obj
         /\ request'[r].searched = None /\ request'[r].remembered = None
         /\ entry'[request[r].obj].scope = request[r].arg
         /\ request[r].arg \in asked'[request[r].id]
         /\ \A e \in DOMAIN entry : e # request[r].obj => entry'[e] = entry[e]
         /\ \A q \in Requests : q # r /\ HasLoop(q) /\ request[q].obj = request[r].obj => ~request'[q].alone
<1>1. /\ request[r].pc = "scope" /\ request'[r].pc = "search"
      /\ entry' = [entry EXCEPT ![request[r].obj] = Scoped(Loop(r), request[r].arg)]
      /\ asked' = [asked EXCEPT ![request[r].id] = @ \cup {request[r].arg}]
      /\ request'[r].id = request[r].id /\ request'[r].arg = request[r].arg /\ request'[r].obj = request[r].obj
      /\ request'[r].searched = request[r].searched /\ request'[r].remembered = request[r].remembered
      /\ \A q \in Requests : q # r /\ HasLoop(q) /\ request[q].obj = request[r].obj => ~request'[q].alone
  BY UseScopeIs
<1>2. request[r].searched = None /\ request[r].remembered = None
  BY <1>1, Here DEF Phase
<1>3. /\ entry \in Seq(Entry) /\ request[r].obj \in DOMAIN entry /\ Loop(r) \in Entry
      /\ request[r].id \in SessionIds
  BY <1>1, InUse DEF Holding
<1>4. asked \in [SessionIds -> SUBSET Asking]
  BY DEF Shape
<1>5. Scoped(Loop(r), request[r].arg).scope = request[r].arg
  BY <1>3 DEF Scoped, Entry
<1>6. request[r].arg \in asked'[request[r].id]
  BY <1>1, <1>3, <1>4
<1>7. /\ entry'[request[r].obj].scope = request[r].arg
      /\ \A e \in DOMAIN entry : e # request[r].obj => entry'[e] = entry[e]
  BY <1>1, <1>3, <1>5
<1> QED BY <1>1, <1>2, <1>6, <1>7 DEF HasLoop

LEMMA EntriesKeepScoped ==
  ASSUME Shape, Shape', Owned, Scoping, NEW r \in Requests, Step(r), Own(r),
         NEW s \in SessionIds, NEW e \in DOMAIN entry', Holds(s, e)'
  PROVE  entry'[e].scope \in asked'[s] \cup {None}
<1> DEFINE d == request[r]
<1>1. CASE e = Len(entry) + 1
  <2>1. ~Holds(s, e)
    BY <1>1, NoneIsNoEntry, HoldersHaveEntries
  <2>2. Build(r)
    BY <2>1, HoldersStay
  <2>3. PICK p \in Profiles : entry'[Len(entry) + 1] = Made(p)
    BY <2>2, BuildIs
  <2> QED BY <1>1, <2>3 DEF Made
<1>2. CASE e # Len(entry) + 1
  <2>1. Holds(s, e) /\ e \in DOMAIN entry
    <3>1. Holds(s, e)
      BY <1>2, HoldersStay
    <3>2. e # None
      <4>1. e \in 1..Len(entry') /\ Len(entry') \in Nat
        BY DEF Shape
      <4> QED BY <4>1, ServerAssumption
    <3> QED BY <3>1, <3>2, HoldersHaveEntries
  <2>2. entry[e].scope \in asked[s] \cup {None}
    BY <2>1 DEF Scoping
  <2>3. asked[s] \subseteq asked'[s]
    BY DEF Own
  <2>4. CASE ~UseScope(r)
    BY <2>1, <2>2, <2>3, <2>4, ScopesStay
  <2>5. CASE UseScope(r) /\ e # d.obj
    BY <2>1, <2>2, <2>3, <2>5, UseScopeSets
  <2>6. CASE UseScope(r) /\ e = d.obj
    <3>1. Holds(d.id, e) /\ d.id \in SessionIds
      BY <2>6 DEF Holds, Own
    <3>2. s = d.id
      BY <2>1, <3>1 DEF Owned
    <3> QED BY <2>6, <3>2, UseScopeSets
  <2> QED BY <2>4, <2>5, <2>6
<1> QED BY <1>1, <1>2

LEMMA TurnsKeepScoped ==
  ASSUME Shape, Shape', Owned, Scoping, NEW r \in Requests, Step(r), Own(r),
         NEW q \in Requests, HasLoop(q)'
  PROVE  /\ {request'[q].searched, request'[q].remembered} \subseteq asked'[request'[q].id] \cup {None}
         /\ request'[q].alone =>
              /\ entry'[request'[q].obj].scope = request'[q].arg
              /\ {request'[q].searched, request'[q].remembered} \subseteq {request'[q].arg, None}
<1> DEFINE d == request[q]
<1>1. CASE q = r /\ UseScope(r)
  BY <1>1, UseScopeSets
<1>2. CASE q # r \/ ~UseScope(r)
  <2>1. /\ HasLoop(q) /\ request'[q].obj = d.obj /\ request'[q].id = d.id /\ request'[q].arg = d.arg
        /\ request'[q].alone => d.alone
        /\ request'[q].searched \in {d.searched, Loop(q).scope}
        /\ request'[q].remembered \in {d.remembered, Loop(q).scope, None}
    <3>1. CASE q = r
      BY <1>2, <3>1, HavingALoop
    <3>2. CASE q # r
      BY <3>2, OthersStay DEF Alike, HasLoop
    <3> QED BY <3>1, <3>2
  <2>2. d.pc \in Holding
    BY <2>1 DEF HasLoop, Holding
  <2>3. d.obj \in DOMAIN entry /\ Loop(q) = entry[d.obj] /\ d.id \in SessionIds /\ Holds(d.id, d.obj)
    BY <2>2, InUse DEF Holds
  <2>4. asked[d.id] \subseteq asked'[d.id]
    BY <2>3 DEF Own
  <2>5. Loop(q).scope \in asked[d.id] \cup {None}
    BY <2>3 DEF Scoping
  <2>6. {d.searched, d.remembered} \subseteq asked[d.id] \cup {None}
    BY <2>1 DEF Scoping
  <2>7. d.alone => /\ Loop(q).scope = d.arg
                   /\ {d.searched, d.remembered} \subseteq {d.arg, None}
    BY <2>1 DEF Scoping
  <2>8. request'[q].alone => entry'[d.obj].scope = d.arg
    <3>1. CASE ~UseScope(r)
      BY <2>1, <2>3, <2>7, <3>1, ScopesStay
    <3>2. CASE UseScope(r) /\ d.obj = request[r].obj
      BY <1>2, <2>1, <3>2, UseScopeSets
    <3>3. CASE UseScope(r) /\ d.obj # request[r].obj
      BY <2>1, <2>3, <2>7, <3>3, UseScopeSets
    <3> QED BY <3>1, <3>2, <3>3
  <2> QED BY <2>1, <2>4, <2>5, <2>6, <2>7, <2>8
<1> QED BY <1>1, <1>2

LEMMA ScopingKept ==
  ASSUME Shape, Shape', Owned, Scoping, [Next]_vars
  PROVE  Scoping'
<1>1. CASE Restart
  <2>1. entry' = <<>> /\ \A r \in Requests : request'[r].pc = "idle"
    BY <1>1, IdleIs DEF Restart
  <2>2. DOMAIN entry' = {}
    BY <2>1
  <2> QED BY <2>1, <2>2 DEF Scoping, HasLoop
<1>2. ASSUME NEW r \in Requests, Step(r), Own(r) PROVE Scoping'
  BY <1>2, EntriesKeepScoped, TurnsKeepScoped DEF Scoping, Loop
<1>3. ASSUME NEW r \in Requests, Starts(r) PROVE Scoping'
  <2>1. /\ request'[r].pc \in {"session", "exists", "readenv", "lookup"}
        /\ \A q \in Requests : q # r => request'[q] = request[q]
        /\ UNCHANGED <<entry, asked>>
    BY <1>3, BeginIs
  <2>2. \A q \in Requests : HasLoop(q)' => q # r /\ HasLoop(q)
    BY <2>1 DEF HasLoop
  <2>3. \A s \in SessionIds, e \in DOMAIN entry' : Holds(s, e)' => Holds(s, e) /\ e \in DOMAIN entry
    BY <1>3, BeginKeepsHolders
  <2> QED BY <2>1, <2>2, <2>3 DEF Scoping, Loop
<1>4. CASE UNCHANGED vars
  BY <1>4 DEF vars, Scoping, Holds, HasLoop, Loop
<1> QED BY <1>1, <1>2, <1>3, <1>4, StepsAreOwn DEF Next

LEMMA ScopingAlways == Spec => [](Owned /\ Scoping)
<1>1. Init => Owned /\ Scoping
  <2> SUFFICES ASSUME Init PROVE Owned /\ Scoping
    OBVIOUS
  <2>1. entry = <<>> /\ \A r \in Requests : request[r].pc = "idle"
    BY IdleIs DEF Init
  <2>2. DOMAIN entry = {}
    BY <2>1
  <2> QED BY <2>1, <2>2 DEF Owned, Scoping, HasLoop
<1> QED BY <1>1, OwnedKept, ScopingKept, ShapeAlways, PTL DEF Spec

\* SessionsDoNotMix, for any requests, sessions and scopes: a turn reads and writes under
\* scopes that turns of its own session were called with.
THEOREM SessionsAreSeparate == Spec => []SessionsDoNotMix
<1>1. Scoping => SessionsDoNotMix
  BY DEF Scoping, SessionsDoNotMix
<1> QED BY <1>1, ScopingAlways, PTL

\* AloneTurnsKeepTheirScope, for any requests, sessions and scopes: a turn no other joined
\* reads and writes under its caller's scope.
THEOREM AloneTurnsKeepScope == Spec => []AloneTurnsKeepTheirScope
<1>1. Scoping => AloneTurnsKeepTheirScope
  BY DEF Scoping, AloneTurnsKeepTheirScope
<1> QED BY <1>1, ScopingAlways, PTL

-----------------------------------------------------------------------------------
(* A session whose requests do not meet is as it left itself.              *)

\* An entry is as was wanted, and so is a session at rest; one without an entry has its mode
\* and scope to come.
Agrees(e, w) ==
  /\ e.mode = w.mode /\ e.persona = w.persona /\ e.profile = w.profile
  /\ e.trace = w.scope /\ e.last = w.scope

Resting(o, en, w) ==
  /\ o = None => w.mode = ServerMode /\ w.scope = None
  /\ o # None => Agrees(en[o], w)

\* What holds of the only request d of a session with entry o, of which w is wanted: it has
\* the session's entry, which agrees but for what the request has half set, and what it has
\* read is its own scope, the persona wanted and the scope of the trace.
Follows(d, o, en, w) ==
  /\ d.pc \notin Holding => Resting(o, en, w)
  /\ d.pc = "install" => o = None /\ Agrees(en[d.obj], w)
  /\ d.pc \in Holding \ {"install"} => o = d.obj
  /\ d.pc \in Holding \ {"install", "last", "name"} => Agrees(en[d.obj], w)
  /\ d.pc = "last" => /\ en[d.obj].mode = w.mode /\ en[d.obj].persona = w.persona
                      /\ en[d.obj].profile = w.profile /\ en[d.obj].trace = d.arg
  /\ d.pc = "name" => /\ en[d.obj].mode = w.mode /\ en[d.obj].persona = d.text
                      /\ en[d.obj].trace = w.scope /\ en[d.obj].last = w.scope
  /\ d.pc = "spent" => d.searched = w.scope
  /\ d.pc \in {"search", "model", "check", "remember", "trace", "last"} => en[d.obj].scope = d.arg
  /\ d.pc \in {"model", "check", "remember", "trace"} => d.searched = d.arg
  /\ d.personas \subseteq {w.persona}

Busy(r, s) == request[r].pc # "idle" /\ request[r].id = s

Single == \A s \in SessionIds \ met : \A r, q \in Requests : Busy(r, s) /\ Busy(q, s) => r = q

Tracked ==
  /\ \A s \in SessionIds \ met : \A r \in Requests :
       Busy(r, s) => Follows(request[r], sessions[s], entry, want[s])
  /\ \A s \in SessionIds \ met :
       (\A r \in Requests : ~Busy(r, s)) => Resting(sessions[s], entry, want[s])

\* Other entries do not matter.
LEMMA FollowsStill ==
  ASSUME NEW d, NEW f, Alike(f, d), NEW o, NEW en, NEW em, NEW w,
         d.pc \in Holding => em[d.obj] = en[d.obj], o # None => em[o] = en[o],
         Follows(d, o, en, w)
  PROVE  Follows(f, o, em, w)
<1>1. /\ f.pc = d.pc /\ f.obj = d.obj /\ f.arg = d.arg /\ f.text = d.text /\ f.searched = d.searched
      /\ f.personas = d.personas
  BY DEF Alike
<1>2. Resting(o, en, w) => Resting(o, em, w)
  BY DEF Resting
<1>3. CASE d.pc \in Holding
  <2>1. em[d.obj] = en[d.obj]
    BY <1>3
  <2> QED BY <1>1, <1>2, <1>3, <2>1 DEF Follows
<1>4. CASE d.pc \notin Holding
  BY <1>1, <1>2, <1>4 DEF Follows, Holding
<1> QED BY <1>3, <1>4

LEMMA IdleFollows ==
  ASSUME NEW o, NEW en, NEW w
  PROVE  Follows(Idle, o, en, w) <=> Resting(o, en, w)
BY IdleIs DEF Follows, Holding

\* A request that is at rest and goes on without an entry.
LEMMA FollowsAtRest ==
  ASSUME NEW d, NEW n, NEW o, NEW en, NEW w, Follows(d, o, en, w), d.pc \notin Holding,
         n.pc \notin Holding, n.personas = {}
  PROVE  Follows(n, o, en, w)
BY DEF Follows, Holding

\* A request whose entry is as wanted may be over.
LEMMA FollowsToRest ==
  ASSUME NEW d, NEW o, NEW en, NEW w, Follows(d, o, en, w), d.obj # None,
         d.pc \notin {"install", "last", "name"}
  PROVE  Resting(o, en, w)
<1>1. CASE d.pc \in Holding
  BY <1>1 DEF Follows, Resting
<1>2. CASE d.pc \notin Holding
  BY <1>2 DEF Follows
<1> QED BY <1>1, <1>2

LEMMA NothingTold ==
  ASSUME NEW d, NEW n, Phase(d, n), d.pc \notin Holding
  PROVE  d.personas = {}
<1>1. CASE d.pc = "idle"
  BY <1>1, IdleIs DEF Phase
<1>2. CASE d.pc = "session" \/ d.kind # "turn"
  BY <1>2 DEF Phase
<1>3. CASE d.kind = "turn" /\ d.pc # "idle"
  BY <1>2, <1>3, KindsAre DEF Phase, Holding
<1> QED BY <1>1, <1>2, <1>3

\* A request that has no entry before and after, and leaves the session.
LEMMA RestingStepsFollow ==
  ASSUME Shape, Shape', NEW r \in Requests, request[r].id \in SessionIds,
         Follows(request[r], sessions[request[r].id], entry, want[request[r].id]),
         request[r].pc \notin Holding, request'[r].pc \notin Holding, UNCHANGED <<sessions, entry, want>>
  PROVE  Follows(request'[r], sessions'[request[r].id], entry', want'[request[r].id])
<1>1. request'[r].personas = {}
  <2>1. Phase(request'[r], Len(entry'))
    BY DEF Shape
  <2> QED BY <2>1, NothingTold
<1> QED BY <1>1, FollowsAtRest

\* A request that is over, and leaves the session.
LEMMA EndingStepsFollow ==
  ASSUME Shape, NEW r \in Requests, request[r].id \in SessionIds,
         Follows(request[r], sessions[request[r].id], entry, want[request[r].id]),
         request[r].pc \notin {"install", "last", "name"}, request'[r] = Idle,
         UNCHANGED <<sessions, entry, want>>
  PROVE  Follows(request'[r], sessions'[request[r].id], entry', want'[request[r].id])
<1>1. CASE request[r].pc \in Holding
  <2>1. request[r].obj # None
    BY <1>1, InUse, NoneIsNoEntry
  <2> QED BY <2>1, FollowsToRest, IdleFollows
<1>2. CASE request[r].pc \notin Holding
  BY <1>2, IdleFollows DEF Follows
<1> QED BY <1>1, <1>2

LEMMA CreatingStepsFollow ==
  ASSUME Shape, Shape', NEW r \in Requests, request[r].id \in SessionIds,
         Follows(request[r], sessions[request[r].id], entry, want[request[r].id]),
         Found(r) \/ Build(r) \/ Install(r)
  PROVE  Follows(request'[r], sessions'[request[r].id], entry', want'[request[r].id])
<1> DEFINE d == request[r]
           s == d.id
           o == sessions[s]
           w == want[s]
<1>1. d \in Doing /\ Phase(d, Len(entry)) /\ want \in [SessionIds -> Wish]
      /\ sessions \in [SessionIds -> 1..Len(entry) \cup {None}]
  BY Here DEF Shape
<1>2. d.personas = {}
  <2>1. d.pc \in {"session", "install"}
    BY DEF Found, Build, Install, At
  <2> QED BY <1>1, <2>1 DEF Phase
<1>3. ASSUME NEW e, Entered(r, e), request'[r].pc # "idle"
      PROVE  request'[r].pc = "scope" /\ request'[r].obj = e /\ request'[r].personas = {}
  <2>1. request'[r] = [d EXCEPT !.pc = "scope", !.obj = e]
    BY <1>3, OneMoves, IdleIs DEF Entered
  <2> QED BY <1>1, <1>2, <2>1 DEF Doing
<1>4. ASSUME NEW e, Entered(r, e), request'[r].pc = "idle"
      PROVE  request'[r] = Idle
  BY <1>4 DEF Shape, Phase
<1>5. CASE Found(r)
  <2>1. Entered(r, o) /\ o # None /\ d.pc = "session" /\ UNCHANGED <<sessions, entry, want>>
    BY <1>5 DEF Found, Known, At
  <2>2. Agrees(entry[o], w) /\ Resting(o, entry, w)
    BY <2>1 DEF Follows, Holding, Resting
  <2>3. CASE request'[r].pc = "idle"
    BY <1>4, <2>1, <2>2, <2>3, IdleFollows
  <2>4. CASE request'[r].pc # "idle"
    <3>1. request'[r].pc = "scope" /\ request'[r].obj = o /\ request'[r].personas = {}
      BY <1>3, <2>1, <2>4
    <3>2. Follows(request'[r], o, entry, w)
      BY <2>2, <3>1 DEF Follows, Holding
    <3> QED BY <2>1, <3>2
  <2> QED BY <2>3, <2>4
<1>6. CASE Build(r)
  <2>1. PICK p \in Profiles, n \in Doing :
           /\ request[r].pc = "session" /\ sessions[request[r].id] = None
           /\ entry'[Len(entry) + 1] = Made(p)
           /\ want' = [want EXCEPT ![request[r].id] = [@ EXCEPT !.profile = p, !.persona = Persona(p)]]
           /\ Set(r, n) /\ n = [request[r] EXCEPT !.pc = "install", !.obj = Len(entry) + 1]
           /\ UNCHANGED sessions
    BY <1>6, BuildIs
  <2>2. w.mode = ServerMode /\ w.scope = None
    BY <2>1 DEF Follows, Holding, Resting
  <2> DEFINE l == Len(entry) + 1
             v == [w EXCEPT !.profile = p, !.persona = Persona(p)]
             x == Made(p)
  <2>3. v.mode = ServerMode /\ v.scope = None /\ v.profile = p /\ v.persona = Persona(p)
    BY <1>1, <2>2 DEF Wish
  <2>4. Agrees(x, v)
    BY <2>3 DEF Agrees, Made
  <2>5. want'[s] = v
    BY <1>1, <2>1
  <2> HIDE DEF v, x, l
  <2>6. request'[r].pc = "install" /\ request'[r].obj = l /\ request'[r].personas = {}
    <3>1. request'[r] = [d EXCEPT !.pc = "install", !.obj = l]
      BY <2>1, OneMoves DEF l
    <3> QED BY <1>1, <1>2, <3>1 DEF Doing
  <2>7. entry'[l] = x /\ sessions'[s] = None
    BY <2>1 DEF l, x
  <2>8. Follows(request'[r], None, entry', v)
    BY <2>4, <2>6, <2>7 DEF Follows, Holding
  <2> QED BY <2>5, <2>7, <2>8
<1>7. CASE Install(r)
  <2>1. /\ d.pc = "install" /\ Entered(r, d.obj) /\ sessions' = [sessions EXCEPT ![s] = d.obj]
        /\ UNCHANGED <<entry, want>>
    BY <1>7 DEF Install, At
  <2>2. Agrees(entry[d.obj], w) /\ sessions'[s] = d.obj
    BY <1>1, <2>1 DEF Follows
  <2>3. CASE request'[r].pc = "idle"
    <3>1. d.obj # None
      BY <2>1, InUse, NoneIsNoEntry DEF Holding
    <3>2. Resting(d.obj, entry, w)
      BY <2>2, <3>1 DEF Resting
    <3> QED BY <1>4, <2>1, <2>2, <2>3, <3>2, IdleFollows
  <2>4. CASE request'[r].pc # "idle"
    <3>1. request'[r].pc = "scope" /\ request'[r].obj = d.obj /\ request'[r].personas = {}
      BY <1>3, <2>1, <2>4
    <3>2. Follows(request'[r], d.obj, entry, w)
      BY <2>2, <3>1 DEF Follows, Holding
    <3> QED BY <2>1, <2>2, <3>2
  <2> QED BY <2>3, <2>4
<1> QED BY <1>5, <1>6, <1>7

\* A turn goes on, its entry as wanted.
LEMMA TurnStepsFollow ==
  ASSUME Shape, Shape', NEW r \in Requests, request[r].id \in SessionIds,
         Follows(request[r], sessions[request[r].id], entry, want[request[r].id]),
         UseScope(r) \/ Search(r) \/ (\E calls \in BOOLEAN : Complete(r, calls)) \/ Check(r) \/ Remember(r)
  PROVE  Follows(request'[r], sessions'[request[r].id], entry', want'[request[r].id])
<1> DEFINE d == request[r]
           s == d.id
           o == sessions[s]
           w == want[s]
<1>1. /\ d.pc \in {"scope", "search", "model", "check", "remember"} /\ UNCHANGED <<sessions, want>>
  BY DEF UseScope, Search, Complete, Check, Remember, At
<1>2. /\ d \in Doing /\ Loop(r) \in Entry /\ Loop(r) = entry[d.obj] /\ d.obj \in DOMAIN entry
      /\ entry \in Seq(Entry)
  BY <1>1, InUse DEF Holding
<1>3. /\ o = d.obj /\ Agrees(entry[d.obj], w) /\ d.personas \subseteq {w.persona}
      /\ d.pc # "scope" => entry[d.obj].scope = d.arg
      /\ d.pc \notin {"scope", "search"} => d.searched = d.arg
  BY <1>1 DEF Follows, Holding
<1>4. ASSUME request'[r].pc \in {"search", "model", "check", "remember", "trace"},
             request'[r].obj = d.obj, Agrees(entry'[d.obj], w), entry'[d.obj].scope = request'[r].arg,
             request'[r].pc # "search" => request'[r].searched = request'[r].arg,
             request'[r].personas \subseteq {w.persona}
      PROVE  Follows(request'[r], sessions'[request[r].id], entry', want'[request[r].id])
  <2>1. Follows(request'[r], o, entry', w)
    BY <1>3, <1>4 DEF Follows, Holding
  <2> QED BY <1>1, <2>1
<1>5. CASE UseScope(r)
  <2>1. /\ request'[r].pc = "search" /\ request'[r].obj = d.obj /\ request'[r].personas = d.personas
        /\ request'[r].arg = d.arg /\ entry' = [entry EXCEPT ![d.obj] = Scoped(Loop(r), d.arg)]
    BY <1>5, UseScopeIs
  <2> DEFINE x == Scoped(Loop(r), d.arg)
  <2>2. /\ x.scope = d.arg /\ x.mode = Loop(r).mode /\ x.persona = Loop(r).persona
        /\ x.profile = Loop(r).profile /\ x.trace = Loop(r).trace /\ x.last = Loop(r).last
    BY <1>2 DEF Scoped, Entry
  <2> HIDE DEF x
  <2>3. entry'[d.obj] = x
    BY <1>2, <2>1 DEF x
  <2>4. Agrees(x, w)
    BY <1>2, <1>3, <2>2 DEF Agrees
  <2> QED BY <1>3, <1>4, <2>1, <2>2, <2>3, <2>4
<1>6. CASE Search(r)
  <2>1. request'[r] = [d EXCEPT !.pc = "model", !.searched = Loop(r).scope] /\ d.pc = "search" /\ entry' = entry
    BY <1>6, OneMoves DEF Search, At
  <2>2. /\ request'[r].pc = "model" /\ request'[r].obj = d.obj /\ request'[r].personas = d.personas
        /\ request'[r].arg = d.arg /\ request'[r].searched = Loop(r).scope
    BY <1>2, <2>1 DEF Doing
  <2> QED BY <1>2, <1>3, <1>4, <2>1, <2>2
<1>7. ASSUME NEW calls \in BOOLEAN, Complete(r, calls)
      PROVE  Follows(request'[r], sessions'[request[r].id], entry', want'[request[r].id])
  <2> DEFINE pc == IF calls THEN "check" ELSE "remember"
             iter == d.iter + 1
             told == d.personas \cup {Loop(r).persona}
  <2>1. request'[r] = [d EXCEPT !.pc = pc, !.iter = iter, !.personas = told] /\ d.pc = "model" /\ entry' = entry
    <3>1. Set(r, [d EXCEPT !.pc = pc, !.iter = iter, !.personas = told]) /\ d.pc = "model" /\ entry' = entry
      BY <1>7 DEF Complete, At
    <3> HIDE DEF pc, iter, told
    <3> QED BY <3>1, OneMoves
  <2>2. pc \in {"check", "remember"} /\ told \subseteq {w.persona}
    BY <1>2, <1>3 DEF Agrees
  <2> HIDE DEF pc, iter, told
  <2>3. /\ request'[r].pc = pc /\ request'[r].obj = d.obj /\ request'[r].personas = told
        /\ request'[r].arg = d.arg /\ request'[r].searched = d.searched
    BY <1>2, <2>1 DEF Doing
  <2> QED BY <1>3, <1>4, <2>1, <2>2, <2>3
<1>8. CASE Check(r)
  <2> DEFINE pc == IF LoopsOn(d.iter) THEN "model" ELSE "remember"
  <2>1. request'[r] = [d EXCEPT !.pc = pc] /\ d.pc = "check" /\ entry' = entry
    BY <1>8, OneMoves DEF Check, At, Goto
  <2>2. pc \in {"model", "remember"}
    OBVIOUS
  <2> HIDE DEF pc
  <2>3. /\ request'[r].pc = pc /\ request'[r].obj = d.obj /\ request'[r].personas = d.personas
        /\ request'[r].arg = d.arg /\ request'[r].searched = d.searched
    BY <1>2, <2>1 DEF Doing
  <2> QED BY <1>3, <1>4, <2>1, <2>2, <2>3
<1>9. CASE Remember(r)
  <2>1. PICK text \in BOOLEAN :
          Set(r, [d EXCEPT !.pc = "trace", !.remembered = IF text THEN Loop(r).scope ELSE None])
    BY <1>9 DEF Remember
  <2> DEFINE scope == IF text THEN Loop(r).scope ELSE None
  <2>2. request'[r] = [d EXCEPT !.pc = "trace", !.remembered = scope]
    BY <2>1, OneMoves
  <2> HIDE DEF scope
  <2>3. /\ request'[r].pc = "trace" /\ request'[r].obj = d.obj /\ request'[r].personas = d.personas
        /\ request'[r].arg = d.arg /\ request'[r].searched = d.searched
    BY <1>2, <2>2 DEF Doing
  <2>4. d.pc = "remember" /\ entry' = entry
    BY <1>9 DEF Remember, At
  <2> QED BY <1>3, <1>4, <2>3, <2>4
<1> QED BY <1>5, <1>6, <1>7, <1>8, <1>9

\* What is set on the entry is what is wanted next.
LEMMA UpdatesFollow ==
  ASSUME Shape, Shape', NEW r \in Requests, request[r].id \in SessionIds,
         Follows(request[r], sessions[request[r].id], entry, want[request[r].id]),
         SetTrace(r) \/ SetLast(r) \/ SetMode(r) \/ SetPersona(r) \/ SetProfile(r)
  PROVE  Follows(request'[r], sessions'[request[r].id], entry', want'[request[r].id])
<1> DEFINE d == request[r]
           s == d.id
           o == sessions[s]
           w == want[s]
           e == Loop(r)
<1>1. d.pc \in {"trace", "last", "mode", "system", "name"} /\ sessions' = sessions
  BY DEF SetTrace, SetLast, SetMode, SetPersona, SetProfile, At
<1>2. /\ d \in Doing /\ e \in Entry /\ e = entry[d.obj] /\ d.obj \in DOMAIN entry
      /\ entry \in Seq(Entry) /\ Phase(d, Len(entry))
  BY <1>1, InUse DEF Holding
<1>3. want \in [SessionIds -> Wish] /\ w \in Wish /\ d.obj # None
  BY <1>2, NoneIsNoEntry DEF Shape
<1>4. /\ o = d.obj /\ d.personas \subseteq {w.persona}
      /\ d.pc \in {"trace", "mode", "system"} => Agrees(e, w)
      /\ d.pc = "trace" => d.searched = d.arg /\ e.scope = d.arg
      /\ d.pc = "last" => /\ e.mode = w.mode /\ e.persona = w.persona /\ e.profile = w.profile
                          /\ e.trace = d.arg
      /\ d.pc = "name" => /\ e.mode = w.mode /\ e.persona = d.text /\ e.trace = w.scope /\ e.last = w.scope
  BY <1>1, <1>2 DEF Follows, Holding
<1>5. ASSUME NEW x, entry' = [entry EXCEPT ![d.obj] = x] PROVE entry'[d.obj] = x
  BY <1>2, <1>5
<1>6. ASSUME NEW x, entry' = [entry EXCEPT ![d.obj] = x], Set(r, Idle), Agrees(x, want'[s])
      PROVE  Follows(request'[r], sessions'[request[r].id], entry', want'[request[r].id])
  <2>1. Resting(d.obj, entry', want'[s])
    BY <1>3, <1>5, <1>6 DEF Resting
  <2>2. request'[r] = Idle
    BY <1>6, OneMoves
  <2> QED BY <1>1, <1>4, <2>1, <2>2, IdleFollows
<1>7. CASE SetTrace(r)
  <2> DEFINE x == [e EXCEPT !.trace = d.searched]
  <2>1. /\ request'[r] = [d EXCEPT !.pc = "last"] /\ d.pc = "trace" /\ entry' = [entry EXCEPT ![d.obj] = x]
        /\ want' = want
    BY <1>7, OneMoves DEF SetTrace, Goto, Update, At
  <2>2. /\ request'[r].pc = "last" /\ request'[r].obj = d.obj /\ request'[r].arg = d.arg
        /\ request'[r].personas = d.personas
    BY <1>2, <2>1 DEF Doing
  <2>3. /\ x.mode = e.mode /\ x.persona = e.persona /\ x.profile = e.profile /\ x.trace = d.searched
        /\ x.scope = e.scope
    BY <1>2 DEF Entry
  <2> HIDE DEF x
  <2>4. entry'[d.obj] = x
    BY <1>5, <2>1
  <2>5. Follows(request'[r], o, entry', w)
    BY <1>4, <2>1, <2>2, <2>3, <2>4 DEF Follows, Holding, Agrees
  <2> QED BY <1>1, <2>1, <2>5
<1>8. CASE SetLast(r)
  <2> DEFINE x == [e EXCEPT !.last = d.arg]
             v == [w EXCEPT !.scope = d.arg]
  <2>1. /\ Set(r, Idle) /\ d.pc = "last" /\ entry' = [entry EXCEPT ![d.obj] = x]
        /\ want' = [want EXCEPT ![s].scope = d.arg]
    BY <1>8 DEF SetLast, Update, At
  <2>2. want'[s] = v
    BY <1>3, <2>1
  <2>3. Agrees(x, v)
    BY <1>2, <1>3, <1>4, <2>1 DEF Entry, Wish, Agrees
  <2> HIDE DEF x, v
  <2> QED BY <1>6, <2>1, <2>2, <2>3
<1>9. CASE SetMode(r)
  <2> DEFINE x == [e EXCEPT !.mode = d.arg]
             v == [w EXCEPT !.mode = d.arg]
  <2>1. /\ Set(r, Idle) /\ d.pc = "mode" /\ entry' = [entry EXCEPT ![d.obj] = x]
        /\ want' = [want EXCEPT ![s].mode = d.arg]
    BY <1>9 DEF SetMode, Update, At
  <2>2. want'[s] = v
    BY <1>3, <2>1
  <2>3. Agrees(x, v)
    BY <1>2, <1>3, <1>4, <2>1 DEF Entry, Wish, Agrees
  <2> HIDE DEF x, v
  <2> QED BY <1>6, <2>1, <2>2, <2>3
<1>10. CASE SetPersona(r)
  <2> DEFINE x == [e EXCEPT !.persona = d.text]
  <2>1. /\ request'[r] = [d EXCEPT !.pc = "name"] /\ d.pc = "system" /\ entry' = [entry EXCEPT ![d.obj] = x]
        /\ want' = want
    BY <1>10, OneMoves DEF SetPersona, Goto, Update, At
  <2>2. /\ request'[r].pc = "name" /\ request'[r].obj = d.obj /\ request'[r].text = d.text
        /\ request'[r].personas = d.personas
    BY <1>2, <2>1 DEF Doing
  <2>3. /\ x.mode = e.mode /\ x.persona = d.text /\ x.trace = e.trace /\ x.last = e.last
    BY <1>2 DEF Entry
  <2> HIDE DEF x
  <2>4. entry'[d.obj] = x
    BY <1>5, <2>1
  <2>5. Follows(request'[r], o, entry', w)
    BY <1>4, <2>1, <2>2, <2>3, <2>4 DEF Follows, Holding, Agrees
  <2> QED BY <1>1, <2>1, <2>5
<1>11. CASE SetProfile(r)
  <2> DEFINE x == [e EXCEPT !.profile = d.arg]
             v == [w EXCEPT !.profile = d.arg, !.persona = d.text]
  <2>1. /\ Set(r, Idle) /\ d.pc = "name" /\ entry' = [entry EXCEPT ![d.obj] = x]
        /\ want' = [want EXCEPT ![s].profile = d.arg, ![s].persona = d.text]
    BY <1>11 DEF SetProfile, Update, At
  <2>2. want'[s] = v
    BY <1>3, <2>1
  <2>3. Agrees(x, v)
    BY <1>2, <1>3, <1>4, <2>1 DEF Entry, Wish, Agrees
  <2> HIDE DEF x, v
  <2> QED BY <1>6, <2>1, <2>2, <2>3
<1> QED BY <1>7, <1>8, <1>9, <1>10, <1>11

LEMMA SettingsFollow ==
  ASSUME Shape, Shape', NEW r \in Requests, request[r].id \in SessionIds,
         Follows(request[r], sessions[request[r].id], entry, want[request[r].id]),
         Lookup(r) \/ LoadPersona(r) \/ CostScope(r) \/ RebuildModel(r)
  PROVE  Follows(request'[r], sessions'[request[r].id], entry', want'[request[r].id])
<1> DEFINE d == request[r]
           s == d.id
           o == sessions[s]
           w == want[s]
<1>1. /\ d \in Doing /\ d.pc \in {"lookup", "profile", "cost", "rebuild"} /\ UNCHANGED <<sessions, want>>
      /\ entry \in Seq(Entry) /\ o \in 1..Len(entry) \cup {None} /\ Phase(d, Len(entry))
      /\ d.pc \in Holding => d.obj \in DOMAIN entry
  BY Here DEF Lookup, LoadPersona, CostScope, RebuildModel, At, Shape
<1>2. CASE request'[r] = Idle /\ entry' = entry
  BY <1>1, <1>2, EndingStepsFollow
<1>3. CASE Lookup(r) /\ request'[r] # Idle
  <2>1. PICK n \in Doing :
          /\ Set(r, n) /\ o # None /\ d.kind \in {"mode", "profile", "cost"}
          /\ n = [d EXCEPT !.pc = d.kind, !.obj = o]
    <3>1. PICK m \in Doing :
            /\ Set(r, m)
            /\ \/ m = Idle
               \/ /\ o # None /\ d.kind \in {"mode", "profile", "cost"}
                  /\ m = [d EXCEPT !.pc = d.kind, !.obj = o]
      BY <1>3, LookupIs
    <3>2. m # Idle
      BY <1>3, <3>1, OneMoves
    <3> QED BY <3>1, <3>2
  <2>2. d.pc = "lookup" /\ entry' = entry
    BY <1>3 DEF Lookup, At
  <2>3. d.personas = {}
    BY <1>1, <2>2, NothingTold DEF Holding
  <2> DEFINE pc == d.kind
  <2>4. pc \in {"mode", "profile", "cost"} /\ n = [d EXCEPT !.pc = pc, !.obj = o]
    BY <2>1
  <2> HIDE DEF pc
  <2>5. n.pc = pc /\ n.obj = o /\ n.personas = {}
    BY <1>1, <2>3, <2>4 DEF Doing
  <2>6. Agrees(entry[o], w)
    BY <2>1, <2>2 DEF Follows, Holding, Resting
  <2>7. Follows(n, o, entry, w)
    BY <2>4, <2>5, <2>6 DEF Follows, Holding
  <2> QED BY <1>1, <2>1, <2>2, <2>7, OneMoves
<1>4. CASE LoadPersona(r) /\ request'[r] # Idle
  <2> DEFINE text == Persona(d.arg)
  <2>1. request'[r] = [d EXCEPT !.pc = "system", !.text = text] /\ d.pc = "profile" /\ entry' = entry
    BY <1>4, OneMoves DEF LoadPersona, At
  <2> HIDE DEF text
  <2>2. request'[r].pc = "system" /\ request'[r].obj = d.obj /\ request'[r].personas = d.personas
    BY <1>1, <2>1 DEF Doing
  <2>3. o = d.obj /\ Agrees(entry[d.obj], w) /\ d.personas \subseteq {w.persona}
    BY <2>1 DEF Follows, Holding
  <2>4. Follows(request'[r], o, entry, w)
    BY <2>2, <2>3 DEF Follows, Holding
  <2> QED BY <1>1, <2>1, <2>4
<1>5. CASE CostScope(r)
  <2> DEFINE x == Loop(r).last
  <2>1. request'[r] = [d EXCEPT !.pc = "spent", !.searched = x] /\ d.pc = "cost" /\ entry' = entry
    BY <1>5, OneMoves DEF CostScope, At
  <2>2. o = d.obj /\ Agrees(entry[d.obj], w) /\ d.personas \subseteq {w.persona}
    BY <2>1 DEF Follows, Holding
  <2>3. x = w.scope
    BY <2>2 DEF Agrees, Loop
  <2> HIDE DEF x
  <2>4. request'[r].pc = "spent" /\ request'[r].obj = d.obj /\ request'[r].personas = d.personas
        /\ request'[r].searched = x
    BY <1>1, <2>1 DEF Doing
  <2>5. Follows(request'[r], o, entry, w)
    BY <2>2, <2>3, <2>4 DEF Follows, Holding
  <2> QED BY <1>1, <2>1, <2>5
<1>6. CASE RebuildModel(r)
  <2>1. /\ request'[r] = [d EXCEPT !.pc = "answer"] /\ d.pc = "rebuild"
        /\ entry' = IF o = None THEN entry ELSE [entry EXCEPT ![o].model = provider]
    BY <1>6, OneMoves DEF RebuildModel, Goto, At
  <2>2. request'[r].pc = "answer" /\ request'[r].personas = {}
    <3>1. d.personas = {}
      BY <1>1, <2>1, NothingTold DEF Holding
    <3> QED BY <1>1, <2>1, <3>1 DEF Doing
  <2>3. Resting(o, entry', w)
    <3>1. Resting(o, entry, w)
      BY <2>1 DEF Follows, Holding
    <3>2. CASE o = None
      BY <2>1, <3>1, <3>2
    <3>3. CASE o # None
      <4>1. o \in DOMAIN entry /\ entry[o] \in Entry
        BY <1>1, <3>3
      <4>2. entry'[o] = [entry[o] EXCEPT !.model = provider]
        BY <2>1, <3>3, <4>1
      <4>3. /\ entry'[o].mode = entry[o].mode /\ entry'[o].persona = entry[o].persona
            /\ entry'[o].profile = entry[o].profile /\ entry'[o].trace = entry[o].trace
            /\ entry'[o].last = entry[o].last
        BY <4>1, <4>2 DEF Entry
      <4> QED BY <3>1, <3>3, <4>3 DEF Resting, Agrees
    <3> QED BY <3>2, <3>3
  <2>4. Follows(request'[r], o, entry', w)
    BY <2>2, <2>3 DEF Follows, Holding
  <2> QED BY <1>1, <2>4
<1>7. CASE request'[r] = Idle /\ entry' # entry
  <2>1. RebuildModel(r)
    BY <1>7 DEF Lookup, LoadPersona, CostScope
  <2> QED BY <1>6, <2>1
<1> QED BY <1>2, <1>3, <1>4, <1>5, <1>6, <1>7

LEMMA OwnStepsFollow ==
  ASSUME Shape, Shape', NEW r \in Requests, Step(r), Own(r),
         Follows(request[r], sessions[request[r].id], entry, want[request[r].id])
  PROVE  Follows(request'[r], sessions'[request[r].id], entry', want'[request[r].id])
<1> DEFINE d == request[r]
<1>1. request[r].id \in SessionIds /\ d \in Doing
  BY Here DEF Own
<1>2. CASE Found(r) \/ Build(r) \/ Install(r)
  BY <1>1, <1>2, CreatingStepsFollow
<1>3. CASE UseScope(r) \/ Search(r) \/ (\E calls \in BOOLEAN : Complete(r, calls)) \/ Check(r) \/ Remember(r)
  BY <1>1, <1>3, TurnStepsFollow
<1>4. CASE SetTrace(r) \/ SetLast(r) \/ SetMode(r) \/ SetPersona(r) \/ SetProfile(r)
  BY <1>1, <1>4, UpdatesFollow
<1>5. CASE Lookup(r) \/ LoadPersona(r) \/ CostScope(r) \/ RebuildModel(r)
  BY <1>1, <1>5, SettingsFollow
<1>6. CASE Fail(r) \/ CostSpent(r)
  <2>1. d.pc \notin {"install", "last", "name"} /\ Set(r, Idle) /\ UNCHANGED <<sessions, entry, want>>
    BY <1>6 DEF Fail, CostSpent, At
  <2> QED BY <1>1, <2>1, OneMoves, EndingStepsFollow
<1>7. CASE \/ TestProfile(r) \/ ChooseText(r) \/ TruncatePersona(r) \/ WritePersona(r)
           \/ ReadEnv(r) \/ TruncateEnv(r) \/ WriteEnv(r) \/ ApplyKey(r) \/ AnswerKey(r)
  <2>1. d.pc \notin Holding
    BY <1>7 DEF TestProfile, ChooseText, TruncatePersona, WritePersona, ReadEnv, TruncateEnv, WriteEnv, ApplyKey,
         AnswerKey, At, Holding
  <2>2. UNCHANGED <<sessions, entry, want>>
    BY <1>7 DEF TestProfile, ChooseText, TruncatePersona, WritePersona, ReadEnv, TruncateEnv, WriteEnv, ApplyKey,
         AnswerKey
  <2>3. request'[r].pc \notin Holding
    <3>1. CASE request'[r] = Idle
      BY <3>1, IdleIs DEF Holding
    <3>2. CASE request'[r] # Idle
      <4>1. d.kind \in {"new", "key"}
        <5>1. d.pc \in {"exists", "text", "open", "persona"} \/ d.pc \in Saving
          BY <1>7 DEF TestProfile, ChooseText, TruncatePersona, WritePersona, ReadEnv, TruncateEnv, WriteEnv,
               ApplyKey, AnswerKey, At, Saving
        <5> QED BY <5>1, Here, KindOf DEF Saving
      <4>2. request'[r].kind = d.kind /\ request'[r].pc # "idle" /\ Phase(request'[r], Len(entry'))
        BY <3>2 DEF Own, Shape
      <4> QED BY <4>1, <4>2, KindsAre DEF Phase, Holding
    <3> QED BY <3>1, <3>2
  <2> QED BY <1>1, <2>1, <2>2, <2>3, RestingStepsFollow
<1>8. ~Starts(r)
  BY DEF Starts, Begin, At, Own
<1> QED BY <1>2, <1>3, <1>4, <1>5, <1>6, <1>7, <1>8 DEF Step, Starts

LEMMA SingleKept ==
  ASSUME Shape, Shape', Single, [Next]_vars
  PROVE  Single'
<1>1. CASE Restart
  <2>1. \A r \in Requests : request'[r].pc = "idle"
    BY <1>1, IdleIs DEF Restart
  <2> QED BY <2>1 DEF Single, Busy
<1>2. ASSUME NEW r \in Requests, Step(r), Own(r) PROVE Single'
  <2>1. ASSUME NEW q \in Requests, NEW s, Busy(q, s)' PROVE Busy(q, s)
    <3>1. CASE q = r
      <4>1. request'[q] # Idle
        BY <2>1, IdleIs DEF Busy
      <4> QED BY <1>2, <2>1, <3>1, <4>1 DEF Own, Busy
    <3>2. CASE q # r
      BY <1>2, <2>1, <3>2, OthersStay DEF Alike, Busy
    <3> QED BY <3>1, <3>2
  <2>2. met' = met
    BY <1>2 DEF Own
  <2> QED BY <2>1, <2>2 DEF Single
<1>3. ASSUME NEW r \in Requests, Starts(r) PROVE Single'
  <2>1. PICK kind \in Kinds, s \in SessionIds : \E arg \in Args(kind) :
          /\ Begin(r, kind, s, arg) /\ request[r].pc = "idle" /\ request'[r].id = s
          /\ \A q \in Requests : q # r => request'[q] = request[q]
    BY <1>3, BeginIs
  <2>2. /\ \A q \in Requests : q # r => request'[q] = request[q]
        /\ request[r].pc = "idle" /\ request'[r].id = s
        /\ met' = IF \E q \in Requests : ~At(q, "idle") /\ request[q].id = s THEN met \cup {s} ELSE met
    BY <2>1 DEF Begin
  <2>3. ASSUME NEW t \in SessionIds \ met', NEW p \in Requests, NEW q \in Requests, Busy(p, t)', Busy(q, t)'
        PROVE  p = q
    <3>1. t \notin met
      BY <2>2
    <3>2. CASE t # s
      <4>1. p # r /\ q # r
        BY <2>2, <2>3, <3>2 DEF Busy
      <4> QED BY <2>2, <2>3, <3>1, <4>1 DEF Single, Busy
    <3>3. CASE t = s
      <4>1. \A u \in Requests : ~Busy(u, s)
        BY <2>2, <2>3, <3>3 DEF At, Busy
      <4> QED BY <2>2, <2>3, <3>3, <4>1 DEF Busy
    <3> QED BY <3>2, <3>3
  <2> QED BY <2>3 DEF Single
<1>4. CASE UNCHANGED vars
  BY <1>4 DEF vars, Single, Busy
<1> QED BY <1>1, <1>2, <1>3, <1>4, StepsAreOwn DEF Next

\* A session that a step is not for stays as it is.
LEMMA OtherSessionsFollow ==
  ASSUME Shape, Owned, NEW r \in Requests, Step(r), Own(r), NEW s \in SessionIds, s # request[r].id
  PROVE  /\ \A q \in Requests : Busy(q, s) /\ Follows(request[q], sessions[s], entry, want[s]) =>
              Follows(request'[q], sessions'[s], entry', want'[s])
         /\ Resting(sessions[s], entry, want[s]) => Resting(sessions'[s], entry', want'[s])
<1>1. sessions'[s] = sessions[s] /\ want'[s] = want[s]
  BY DEF Own
<1>2. request[r].id \in SessionIds
  BY DEF Own
<1>3. ASSUME NEW e \in DOMAIN entry, Holds(s, e) PROVE entry'[e] = entry[e]
  BY <1>2, <1>3 DEF Own, Owned
<1>4. sessions[s] # None => entry'[sessions[s]] = entry[sessions[s]]
  <2>1. sessions[s] # None => sessions[s] \in DOMAIN entry
    BY NoneIsNoEntry DEF Shape
  <2> QED BY <1>3, <2>1 DEF Holds
<1>5. ASSUME NEW q \in Requests, Busy(q, s), Follows(request[q], sessions[s], entry, want[s])
      PROVE  Follows(request'[q], sessions'[s], entry', want'[s])
  <2>1. q # r /\ Alike(request'[q], request[q])
    BY <1>5, OthersStay DEF Busy
  <2>2. request[q].pc \in Holding => entry'[request[q].obj] = entry[request[q].obj]
    <3> SUFFICES ASSUME request[q].pc \in Holding PROVE entry'[request[q].obj] = entry[request[q].obj]
      OBVIOUS
    <3>1. request[q].obj \in DOMAIN entry /\ Holds(s, request[q].obj)
      BY <1>5, InUse DEF Busy, Holds
    <3> QED BY <1>3, <3>1
  <2> QED BY <1>1, <1>4, <1>5, <2>1, <2>2, FollowsStill
<1>6. Resting(sessions[s], entry, want[s]) => Resting(sessions'[s], entry', want'[s])
  BY <1>1, <1>4 DEF Resting
<1> QED BY <1>5, <1>6

LEMMA TrackedKept ==
  ASSUME Shape, Shape', Owned, Single, Tracked, [Next]_vars
  PROVE  Tracked'
<1>1. CASE Restart
  <2>1. /\ \A r \in Requests : request'[r].pc = "idle"
        /\ sessions' = [s \in SessionIds |-> None] /\ want' = [s \in SessionIds |-> Untouched]
    BY <1>1, IdleIs DEF Restart
  <2>2. \A s \in SessionIds : Resting(sessions'[s], entry', want'[s])
    BY <2>1 DEF Resting, Untouched
  <2> QED BY <2>1, <2>2 DEF Tracked, Busy
<1>2. ASSUME NEW r \in Requests, Step(r), Own(r), NEW s \in SessionIds \ met'
      PROVE  /\ \A q \in Requests : Busy(q, s)' => Follows(request'[q], sessions'[s], entry', want'[s])
             /\ (\A q \in Requests : ~Busy(q, s)') => Resting(sessions'[s], entry', want'[s])
  <2>1. s \notin met
    BY <1>2 DEF Own
  <2>2. CASE s # request[r].id
    <3>1. \A q \in Requests : Busy(q, s)' <=> Busy(q, s)
      <4> SUFFICES ASSUME NEW q \in Requests PROVE Busy(q, s)' <=> Busy(q, s)
        OBVIOUS
      <4>1. CASE q = r
        BY <1>2, <2>2, <4>1, IdleIs DEF Own, Busy
      <4>2. CASE q # r
        BY <1>2, <4>2, OthersStay DEF Alike, Busy
      <4> QED BY <4>1, <4>2
    <3>2. \A q \in Requests : Busy(q, s) => Follows(request[q], sessions[s], entry, want[s])
      BY <2>1 DEF Tracked
    <3>3. (\A q \in Requests : ~Busy(q, s)) => Resting(sessions[s], entry, want[s])
      BY <2>1 DEF Tracked
    <3> QED BY <1>2, <2>2, <3>1, <3>2, <3>3, OtherSessionsFollow
  <2>3. CASE s = request[r].id
    <3>1. Busy(r, s)
      BY <1>2, <2>3 DEF Own, Busy
    <3>2. Follows(request[r], sessions[s], entry, want[s])
      BY <2>1, <3>1 DEF Tracked
    <3>3. Follows(request'[r], sessions'[s], entry', want'[s])
      BY <1>2, <2>3, <3>2, OwnStepsFollow
    <3>4. ASSUME NEW q \in Requests, Busy(q, s)' PROVE q = r
      <4>1. q # r => Busy(q, s)
        BY <1>2, <3>4, OthersStay DEF Alike, Busy
      <4> QED BY <2>1, <3>1, <4>1 DEF Single
    <3>5. ~Busy(r, s)' => Resting(sessions'[s], entry', want'[s])
      <4>1. ~Busy(r, s)' => request'[r] = Idle
        BY <1>2, <2>3 DEF Own, Busy
      <4> QED BY <3>3, <4>1, IdleFollows
    <3> QED BY <3>3, <3>4, <3>5
  <2> QED BY <2>2, <2>3
<1>3. ASSUME NEW r \in Requests, Starts(r) PROVE Tracked'
  <2>1. PICK kind \in Kinds, s \in SessionIds : \E arg \in Args(kind) :
          /\ Begin(r, kind, s, arg) /\ request[r].pc = "idle" /\ request'[r].id = s
          /\ request'[r].personas = {} /\ request'[r].pc \in {"session", "exists", "readenv", "lookup"}
          /\ \A q \in Requests : q # r => request'[q] = request[q]
          /\ UNCHANGED <<sessions, entry, want>>
    BY <1>3, BeginIs
  <2>2. /\ \A q \in Requests : q # r => request'[q] = request[q]
        /\ request[r].pc = "idle" /\ request'[r].id = s
        /\ request'[r].personas = {} /\ request'[r].pc \in {"session", "exists", "readenv", "lookup"}
        /\ UNCHANGED <<sessions, entry, want>>
        /\ met' = IF \E q \in Requests : ~At(q, "idle") /\ request[q].id = s THEN met \cup {s} ELSE met
    BY <2>1 DEF Begin
  <2>3. ASSUME NEW t \in SessionIds \ met'
        PROVE  /\ \A q \in Requests : Busy(q, t)' => Follows(request'[q], sessions'[t], entry', want'[t])
               /\ (\A q \in Requests : ~Busy(q, t)') => Resting(sessions'[t], entry', want'[t])
    <3>1. t \notin met
      BY <2>2
    <3>2. CASE t # s
      <4>1. \A q \in Requests : Busy(q, t)' <=> Busy(q, t)
        BY <2>2, <3>2 DEF Busy
      <4>2. \A q \in Requests : Busy(q, t) => request'[q] = request[q]
        BY <2>2, <3>2 DEF Busy
      <4> QED BY <2>2, <3>1, <4>1, <4>2 DEF Tracked
    <3>3. CASE t = s
      <4>1. \A q \in Requests : ~Busy(q, s)
        BY <2>2, <2>3, <3>3 DEF At, Busy
      <4>2. Resting(sessions[s], entry, want[s])
        BY <3>1, <3>3, <4>1 DEF Tracked
      <4>3. Follows(request'[r], sessions[s], entry, want[s])
        BY <2>2, <4>2 DEF Follows, Holding
      <4>4. \A q \in Requests : Busy(q, s)' => q = r
        BY <2>2, <4>1 DEF Busy
      <4> QED BY <2>2, <3>3, <4>2, <4>3, <4>4
    <3> QED BY <3>2, <3>3
  <2> QED BY <2>3 DEF Tracked
<1>4. CASE UNCHANGED vars
  BY <1>4 DEF vars, Tracked, Busy
<1> QED BY <1>1, <1>2, <1>3, <1>4, StepsAreOwn DEF Next, Tracked

LEMMA TrackedAlways == Spec => [](Single /\ Tracked)
<1>1. Init => Single /\ Tracked
  <2> SUFFICES ASSUME Init PROVE Single /\ Tracked
    OBVIOUS
  <2>1. /\ \A r \in Requests : request[r].pc = "idle"
        /\ sessions = [s \in SessionIds |-> None] /\ want = [s \in SessionIds |-> Untouched]
    BY IdleIs DEF Init
  <2>2. \A s \in SessionIds : Resting(sessions[s], entry, want[s])
    BY <2>1 DEF Resting, Untouched
  <2> QED BY <2>1, <2>2 DEF Single, Tracked, Busy
<1> QED BY <1>1, SingleKept, TrackedKept, ShapeAlways, ScopingAlways, PTL DEF Spec

\* SessionsAreIndependent, for any requests, sessions, profiles and modes: a session whose own
\* requests never met is as they left it, and within a request is told one persona and shows
\* one scope's trace, whatever the requests of other sessions do.
THEOREM SessionsStandAlone == Spec => []SessionsAreIndependent
<1>1. Shape /\ Tracked => SessionsAreIndependent
  <2> SUFFICES ASSUME Shape, Tracked PROVE SessionsAreIndependent
    OBVIOUS
  <2>1. ASSUME NEW s \in SessionIds \ met, Quiet(s) PROVE Agrees(entry[sessions[s]], want[s])
    <3>1. sessions[s] # None /\ \A r \in Requests : ~Busy(r, s)
      BY <2>1 DEF Quiet, Busy
    <3> QED BY <3>1 DEF Tracked, Resting
  <2>2. ASSUME NEW r \in Requests, request[r].id \in SessionIds \ met
        PROVE  /\ request[r].personas \subseteq {want[request[r].id].persona}
               /\ At(r, "spent") => Loop(r).trace = request[r].searched
    <3>1. CASE request[r].pc = "idle"
      <4>1. request[r] = Idle
        BY <3>1, Here DEF Phase
      <4> QED BY <3>1, <4>1, IdleIs DEF At
    <3>2. CASE request[r].pc # "idle"
      <4>1. Follows(request[r], sessions[request[r].id], entry, want[request[r].id])
        BY <2>2, <3>2 DEF Tracked, Busy
      <4> QED BY <4>1 DEF Follows, At, Loop, Agrees, Holding
    <3> QED BY <3>1, <3>2
  <2> QED BY <2>1, <2>2 DEF SessionsAreIndependent, Agrees
<1> QED BY <1>1, ShapeAlways, TrackedAlways, PTL

-----------------------------------------------------------------------------------
(* Profiles keep the persona their creator was told of.                    *)

\* The requests that are making a profile, having found its name free.
Makers(p) == {r \in Requests : request[r].pc \in {"text", "open", "persona"} /\ request[r].arg.name = p}

\* A request on a profile that another is making has spoiled it.
Apart == \A r, q \in Requests : r # q /\ request[r].pc # "idle" /\ request[q].pc # "idle" =>
           Makes(request[r].kind, request[r].arg) \cap Uses(request[q].kind, request[q].arg) \subseteq spoiled

\* Nobody has set a persona of the session and not yet its profile.
Settled(s) == \A r \in Requests : Busy(r, s) => request[r].pc # "name"

\* An unspoiled profile that was created has its text, and nobody is making it; the requests
\* that are setting it have that text, and so has an entry under it, between the two halves
\* of a change.
Profiled ==
  /\ \A p \in Profiles \ spoiled : created[p] # {} =>
       created[p] = {disk[p]} /\ disk[p] # None /\ Makers(p) = {}
  /\ \A p \in Profiles \ spoiled, r \in Requests :
       p # Default /\ request[r].pc \in {"system", "name"} /\ request[r].arg = p => request[r].text = disk[p]
  /\ \A p \in Profiles \ spoiled, s \in SessionIds \ met, e \in DOMAIN entry :
       p # Default /\ Holds(s, e) /\ entry[e].profile = p /\ Settled(s) =>
         entry[e].persona = disk[p] /\ Makers(p) = {}

LEMMA UsesAre ==
  ASSUME NEW a
  PROVE  /\ Makes("new", a) = {a.name}
         /\ Uses("turn", a) = {Default} /\ Uses("create", a) = {a} /\ Uses("profile", a) = {a}
         /\ Uses("new", a) = {a.name, a.source} \cap Profiles
BY DEF Makes, Uses

LEMMA MakersAre ==
  ASSUME Shape, NEW p, NEW r \in Makers(p)
  PROVE  /\ r \in Requests /\ request[r].pc \in {"text", "open", "persona"} /\ request[r].arg.name = p
         /\ request[r].kind = "new" /\ p \in Profiles
         /\ Makes(request[r].kind, request[r].arg) = {p} /\ p \in Uses(request[r].kind, request[r].arg)
<1>1. r \in Requests /\ request[r].pc \in {"text", "open", "persona"} /\ request[r].arg.name = p
  BY DEF Makers
<1>2. request[r].kind = "new" /\ request[r].arg \in [name : Profiles, source : Personas \cup Profiles]
  BY <1>1, Here, KindOf
<1> QED BY <1>1, <1>2, UsesAre

\* While a profile is unspoiled, no other request is on one that is being made.
LEMMA MakersAreApart ==
  ASSUME Shape, Apart, NEW p, p \notin spoiled, NEW r \in Makers(p),
         NEW q \in Requests, request[q].pc # "idle", p \in Uses(request[q].kind, request[q].arg)
  PROVE  q = r
BY MakersAre DEF Apart

\* What is on disk and was created changes by the steps of those who make the profile.
LEMMA DiskStays ==
  ASSUME Shape, NEW r \in Requests, Step(r), Own(r), NEW p \in Profiles
  PROVE  /\ spoiled' = spoiled
         /\ \/ disk'[p] = disk[p] /\ created'[p] = created[p]
            \/ r \in Makers(p) /\ TruncatePersona(r) /\ created'[p] = created[p]
            \/ /\ r \in Makers(p) /\ WritePersona(r) /\ disk'[p] = request[r].text
               /\ created'[p] = created[p] \cup {request[r].text} /\ request[r].text # None
               /\ request'[r] = Idle
<1>1. disk \in [Profiles -> Texts \cup {None}] /\ created \in [Profiles -> SUBSET Texts]
  BY DEF Shape
<1>2. CASE TruncatePersona(r)
  <2>1. /\ request[r].pc = "open" /\ disk' = [disk EXCEPT ![request[r].arg.name] = Blank]
        /\ UNCHANGED <<created, spoiled>>
    BY <1>2 DEF TruncatePersona, At
  <2> QED BY <1>1, <1>2, <2>1 DEF Makers
<1>3. CASE WritePersona(r)
  <2>1. /\ request[r].pc = "persona" /\ disk' = [disk EXCEPT ![request[r].arg.name] = request[r].text]
        /\ created' = [created EXCEPT ![request[r].arg.name] = @ \cup {request[r].text}]
        /\ spoiled' = spoiled /\ request'[r] = Idle
    BY <1>3, OneMoves DEF WritePersona, At
  <2>2. request[r].text # None
    BY <2>1, Here DEF Phase
  <2> QED BY <1>1, <1>3, <2>1, <2>2 DEF Makers
<1>4. CASE ~TruncatePersona(r) /\ ~WritePersona(r)
  <2>1. ~Starts(r)
    BY DEF Starts, Begin, At, Own
  <2>2. CASE \/ TestProfile(r) \/ ChooseText(r) \/ Found(r) \/ Build(r) \/ Install(r) \/ UseScope(r)
             \/ Search(r) \/ (\E calls \in BOOLEAN : Complete(r, calls)) \/ Check(r)
    BY <2>2 DEF TestProfile, ChooseText, Found, Build, Install, UseScope, Search, Complete, Check, profiles
  <2>3. CASE \/ Remember(r) \/ SetTrace(r) \/ SetLast(r) \/ Fail(r) \/ Lookup(r) \/ SetMode(r)
             \/ LoadPersona(r) \/ SetPersona(r) \/ SetProfile(r) \/ CostScope(r) \/ CostSpent(r)
    BY <2>3 DEF Remember, SetTrace, SetLast, Fail, Lookup, SetMode, LoadPersona, SetPersona, SetProfile, CostScope,
         CostSpent, profiles
  <2>4. CASE \/ ReadEnv(r) \/ TruncateEnv(r) \/ WriteEnv(r) \/ ApplyKey(r) \/ RebuildModel(r) \/ AnswerKey(r)
    BY <2>4 DEF ReadEnv, TruncateEnv, WriteEnv, ApplyKey, RebuildModel, AnswerKey, profiles
  <2> QED BY <1>4, <2>1, <2>2, <2>3, <2>4 DEF Step, Starts
<1> QED BY <1>2, <1>3, <1>4

\* A request comes to make a profile by finding that there is none of its name.
LEMMA MakersStay ==
  ASSUME Shape, Shape', NEW r \in Requests, Step(r), Own(r), NEW p \in Profiles,
         NEW q \in Requests, request'[q].pc \in {"text", "open", "persona"}, request'[q].arg.name = p
  PROVE  q \in Makers(p) \/ (q = r /\ disk[p] = None /\ UNCHANGED <<disk, created, entry>> /\ ~SetProfile(r))
<1>1. CASE q # r
  BY <1>1, OthersStay DEF Alike, Makers
<1>2. CASE q = r /\ request[r].pc \in {"text", "open", "persona"}
  <2>1. request[r].arg = request'[r].arg
    BY <1>2, IdleIs DEF Own
  <2> QED BY <1>2, <2>1 DEF Makers
<1>3. CASE q = r /\ request[r].pc \notin {"text", "open", "persona"}
  <2>1. request'[r] # Idle
    BY <1>3, IdleIs
  <2>2. /\ request[r].kind = request'[r].kind /\ request[r].arg = request'[r].arg /\ request[r].pc # "idle"
        /\ request'[r].kind = "new"
    <3>1. Phase(request'[r], Len(entry'))
      BY DEF Shape
    <3>2. request'[r].kind = "new"
      BY <1>3, <3>1, KindOf
    <3> QED BY <2>1, <3>2 DEF Own
  <2>3. request[r].pc = "exists"
    <3>1. Phase(request[r], Len(entry))
      BY Here
    <3>2. request[r].pc \in PhasesOf("new")
      BY <2>2, <3>1 DEF Phase
    <3> QED BY <1>3, <3>2, KindsAre
  <2>4. TestProfile(r)
    <3>1. ~Starts(r)
      BY DEF Starts, Begin, At, Own
    <3>2. /\ ~ChooseText(r) /\ ~TruncatePersona(r) /\ ~WritePersona(r) /\ ~Found(r) /\ ~Build(r) /\ ~Install(r)
          /\ ~UseScope(r) /\ ~Search(r) /\ ~(\E calls \in BOOLEAN : Complete(r, calls)) /\ ~Check(r)
      BY <2>3 DEF ChooseText, TruncatePersona, WritePersona, Found, Build, Install, UseScope, Search, Complete,
           Check, At
    <3>3. /\ ~Remember(r) /\ ~SetTrace(r) /\ ~SetLast(r) /\ ~Fail(r) /\ ~Lookup(r) /\ ~SetMode(r)
          /\ ~LoadPersona(r) /\ ~SetPersona(r) /\ ~SetProfile(r) /\ ~CostScope(r) /\ ~CostSpent(r)
      BY <2>3 DEF Remember, SetTrace, SetLast, Fail, Lookup, SetMode, LoadPersona, SetPersona, SetProfile,
           CostScope, CostSpent, At
    <3>4. /\ ~ReadEnv(r) /\ ~TruncateEnv(r) /\ ~WriteEnv(r) /\ ~ApplyKey(r) /\ ~RebuildModel(r)
          /\ ~AnswerKey(r)
      BY <2>3 DEF ReadEnv, TruncateEnv, WriteEnv, ApplyKey, RebuildModel, AnswerKey, At
    <3> QED BY <3>1, <3>2, <3>3, <3>4 DEF Step, Starts
  <2>5. disk[p] = None /\ UNCHANGED <<disk, created, entry>>
    <3>1. ~Set(r, Idle)
      BY <2>1, OneMoves
    <3>2. ~Exists(request[r].arg.name) /\ UNCHANGED <<disk, created, entry>>
      BY <2>4, <3>1 DEF TestProfile, profiles
    <3> QED BY <1>3, <2>2, <3>2 DEF Exists
  <2>6. ~SetProfile(r)
    BY <2>3 DEF SetProfile, At
  <2> QED BY <1>3, <2>5, <2>6
<1> QED BY <1>1, <1>2, <1>3

LEMMA ApartKept ==
  ASSUME Shape, Shape', Apart, [Next]_vars
  PROVE  Apart'
<1>1. CASE Restart
  <2>1. \A r \in Requests : request'[r].pc = "idle"
    BY <1>1, IdleIs DEF Restart
  <2> QED BY <2>1 DEF Apart
<1>2. ASSUME NEW r \in Requests, Step(r), Own(r) PROVE Apart'
  <2>1. ASSUME NEW q \in Requests, request'[q].pc # "idle"
        PROVE  request[q].pc # "idle" /\ request'[q].kind = request[q].kind /\ request'[q].arg = request[q].arg
    <3>1. CASE q = r
      BY <1>2, <2>1, <3>1, IdleIs DEF Own
    <3>2. CASE q # r
      BY <1>2, <2>1, <3>2, OthersStay DEF Alike
    <3> QED BY <3>1, <3>2
  <2>2. spoiled' = spoiled
    <3>1. Default \in Profiles
      BY ServerAssumption
    <3> QED BY <1>2, <3>1, DiskStays
  <2> QED BY <2>1, <2>2 DEF Apart
<1>3. ASSUME NEW r \in Requests, Starts(r) PROVE Apart'
  <2>1. PICK kind \in Kinds, s \in SessionIds : \E arg \in Args(kind) :
          /\ Begin(r, kind, s, arg) /\ request[r].pc = "idle"
          /\ request'[r].kind = kind /\ request'[r].arg = arg
          /\ \A q \in Requests : q # r => request'[q] = request[q]
    BY <1>3, BeginIs
  <2>2. PICK arg \in Args(kind) :
          /\ Begin(r, kind, s, arg) /\ request[r].pc = "idle"
          /\ request'[r].kind = kind /\ request'[r].arg = arg
          /\ \A q \in Requests : q # r => request'[q] = request[q]
    BY <2>1
  <2> DEFINE Clash(q) == (Makes(kind, arg) \cap Uses(request[q].kind, request[q].arg))
                          \cup (Uses(kind, arg) \cap Makes(request[q].kind, request[q].arg))
  <2>3. /\ spoiled \subseteq spoiled'
        /\ \A q \in Requests : request[q].pc # "idle" => Clash(q) \subseteq spoiled'
    <3>1. spoiled' = spoiled \cup UNION {Clash(q) : q \in {q \in Requests : ~At(q, "idle")}}
      BY <2>2 DEF Begin
    <3> QED BY <3>1 DEF At
  <2> HIDE DEF Clash
  <2>4. ASSUME NEW p \in Requests, NEW q \in Requests, p # q, request'[p].pc # "idle", request'[q].pc # "idle"
        PROVE  Makes(request'[p].kind, request'[p].arg) \cap Uses(request'[q].kind, request'[q].arg) \subseteq spoiled'
    <3>1. CASE p = r
      <4>1. request'[q] = request[q] /\ Clash(q) \subseteq spoiled'
        BY <2>2, <2>3, <2>4, <3>1
      <4> QED BY <2>2, <3>1, <4>1 DEF Clash
    <3>2. CASE q = r
      <4>1. request'[p] = request[p] /\ Clash(p) \subseteq spoiled'
        BY <2>2, <2>3, <2>4, <3>2
      <4> QED BY <2>2, <3>2, <4>1 DEF Clash
    <3>3. CASE p # r /\ q # r
      BY <2>2, <2>3, <2>4, <3>3 DEF Apart
    <3> QED BY <3>1, <3>2, <3>3
  <2> QED BY <2>4 DEF Apart
<1>4. CASE UNCHANGED vars
  BY <1>4 DEF vars, profiles, Apart
<1> QED BY <1>1, <1>2, <1>3, <1>4, StepsAreOwn DEF Next

LEMMA CreatedKept ==
  ASSUME Shape, Shape', Apart, Profiled, NEW r \in Requests, Step(r), Own(r),
         NEW p \in Profiles \ spoiled, created'[p] # {}
  PROVE  created'[p] = {disk'[p]} /\ disk'[p] # None /\ Makers(p)' = {}
<1>1. created[p] # {} => created[p] = {disk[p]} /\ disk[p] # None /\ Makers(p) = {}
  BY DEF Profiled
<1>2. SUFFICES ASSUME TRUE
               PROVE  /\ created'[p] = {disk'[p]} /\ disk'[p] # None
                      /\ \A q \in Requests : request'[q].pc \in {"text", "open", "persona"} => request'[q].arg.name # p
  BY DEF Makers
<1>3. CASE disk'[p] = disk[p] /\ created'[p] = created[p]
  <2>1. created[p] = {disk[p]} /\ disk[p] # None /\ Makers(p) = {}
    BY <1>1, <1>3
  <2>2. ASSUME NEW q \in Requests, request'[q].pc \in {"text", "open", "persona"} PROVE request'[q].arg.name # p
    BY <2>1, <2>2, MakersStay
  <2> QED BY <1>3, <2>1, <2>2
<1>4. CASE r \in Makers(p) /\ created'[p] = created[p]
  BY <1>1, <1>4
<1>5. CASE /\ r \in Makers(p) /\ WritePersona(r) /\ disk'[p] = request[r].text
           /\ created'[p] = created[p] \cup {request[r].text} /\ request[r].text # None
           /\ request'[r] = Idle
  <2>1. created[p] = {}
    BY <1>1, <1>5
  <2>2. ASSUME NEW q \in Requests, request'[q].pc \in {"text", "open", "persona"} PROVE request'[q].arg.name # p
    <3> SUFFICES ASSUME request'[q].arg.name = p PROVE FALSE
      OBVIOUS
    <3>1. q # r
      BY <1>5, <2>2, IdleIs
    <3>2. q \in Makers(p)
      BY <2>2, <3>1, MakersStay
    <3>3. request[q].pc # "idle" /\ p \in Uses(request[q].kind, request[q].arg)
      BY <3>2, MakersAre
    <3> QED BY <1>5, <3>1, <3>3, MakersAreApart
  <2> QED BY <1>5, <2>1, <2>2
<1> QED BY <1>3, <1>4, <1>5, DiskStays

\* A request that is setting a profile has read its text.
LEMMA SettersAre ==
  ASSUME Shape, NEW q \in Requests, request[q].pc \in {"profile", "system", "name"}
  PROVE  /\ request[q].arg \in Profiles /\ request[q].kind = "profile" /\ request[q].pc # "idle"
         /\ request[q].arg \in Uses(request[q].kind, request[q].arg) /\ q \notin Makers(request[q].arg)
<1>1. request[q].arg \in Profiles /\ request[q].kind = "profile"
  BY Here, KindOf
<1> QED BY <1>1, UsesAre DEF Makers

LEMMA Setting ==
  ASSUME Shape, Shape', NEW r \in Requests, Step(r), Own(r), request'[r].pc \in {"system", "name"}
  PROVE  /\ request[r].pc \in {"profile", "system"} /\ request'[r].arg = request[r].arg /\ UNCHANGED <<disk, created>>
         /\ \/ request'[r].text = Persona(request[r].arg)
            \/ request[r].pc = "system" /\ request'[r].text = request[r].text
<1> DEFINE d == request[r]
<1>1. request'[r] # Idle
  BY IdleIs
<1>2. d.kind = "profile" /\ request'[r].arg = d.arg /\ d.pc # "idle" /\ d \in Doing /\ Phase(d, Len(entry))
  <2>1. Phase(request'[r], Len(entry'))
    BY DEF Shape
  <2>2. request'[r].kind = "profile"
    BY <2>1, KindOf
  <2> QED BY <1>1, <2>2, Here DEF Own
<1>3. d.pc \in {"lookup", "profile", "system", "name"}
  BY <1>2, KindsAre DEF Phase
<1>4. Lookup(r) \/ LoadPersona(r) \/ SetPersona(r) \/ SetProfile(r)
  <2>1. ~Starts(r)
    BY DEF Starts, Begin, At, Own
  <2>2. /\ ~TestProfile(r) /\ ~ChooseText(r) /\ ~TruncatePersona(r) /\ ~WritePersona(r) /\ ~Found(r) /\ ~Build(r)
        /\ ~Install(r) /\ ~UseScope(r) /\ ~Search(r) /\ ~(\E calls \in BOOLEAN : Complete(r, calls)) /\ ~Check(r)
    BY <1>3 DEF TestProfile, ChooseText, TruncatePersona, WritePersona, Found, Build, Install, UseScope, Search,
         Complete, Check, At
  <2>3. /\ ~Remember(r) /\ ~SetTrace(r) /\ ~SetLast(r) /\ ~Fail(r) /\ ~SetMode(r) /\ ~CostScope(r) /\ ~CostSpent(r)
    BY <1>3 DEF Remember, SetTrace, SetLast, Fail, SetMode, CostScope, CostSpent, At
  <2>4. /\ ~ReadEnv(r) /\ ~TruncateEnv(r) /\ ~WriteEnv(r) /\ ~ApplyKey(r) /\ ~RebuildModel(r) /\ ~AnswerKey(r)
    BY <1>3 DEF ReadEnv, TruncateEnv, WriteEnv, ApplyKey, RebuildModel, AnswerKey, At
  <2> QED BY <2>1, <2>2, <2>3, <2>4 DEF Step, Starts
<1>5. ~Set(r, Idle)
  BY <1>1, OneMoves
<1>6. ~SetProfile(r)
  BY <1>5 DEF SetProfile
<1>7. CASE Lookup(r)
  <2>1. PICK n \in Doing : Set(r, n) /\ (n = Idle \/ n = [d EXCEPT !.pc = d.kind, !.obj = sessions[d.id]])
    BY <1>7, LookupIs
  <2>2. request'[r] = [d EXCEPT !.pc = d.kind, !.obj = sessions[d.id]]
    BY <1>5, <2>1, OneMoves
  <2> DEFINE pc == d.kind
             e == sessions[d.id]
  <2>3. request'[r] = [d EXCEPT !.pc = pc, !.obj = e] /\ pc = "profile"
    BY <1>2, <2>2
  <2> HIDE DEF pc, e
  <2>4. request'[r].pc = "profile"
    BY <1>2, <2>3 DEF Doing
  <2> QED BY <2>4
<1>8. CASE LoadPersona(r)
  <2> DEFINE text == Persona(d.arg)
  <2>1. request'[r] = [d EXCEPT !.pc = "system", !.text = text] /\ d.pc = "profile" /\ UNCHANGED <<disk, created>>
    BY <1>5, <1>8, OneMoves DEF LoadPersona, At, profiles
  <2> HIDE DEF text
  <2>2. request'[r].text = text
    BY <1>2, <2>1 DEF Doing
  <2> QED BY <1>2, <2>1, <2>2 DEF text
<1>9. CASE SetPersona(r)
  <2>1. request'[r] = [d EXCEPT !.pc = "name"] /\ d.pc = "system" /\ UNCHANGED <<disk, created>>
    BY <1>9, OneMoves DEF SetPersona, Goto, At, profiles
  <2>2. request'[r].text = d.text
    BY <1>2, <2>1 DEF Doing
  <2> QED BY <1>2, <2>1, <2>2
<1> QED BY <1>4, <1>6, <1>7, <1>8, <1>9

LEMMA SettersKept ==
  ASSUME Shape, Shape', Apart, Profiled, NEW r \in Requests, Step(r), Own(r),
         NEW p \in Profiles \ spoiled, NEW q \in Requests, p # Default,
         request'[q].pc \in {"system", "name"}, request'[q].arg = p
  PROVE  request'[q].text = disk'[p]
<1>1. CASE q = r
  <2>1. disk'[p] = disk[p] /\ request[r].arg = p
    BY <1>1, Setting
  <2>2. Persona(p) = disk[p]
    BY DEF Persona
  <2>3. request[r].pc = "system" => request[r].text = disk[p]
    BY <2>1 DEF Profiled
  <2> QED BY <1>1, <2>1, <2>2, <2>3, Setting
<1>2. CASE q # r
  <2>1. request[q].pc \in {"system", "name"} /\ request[q].arg = p /\ request'[q].text = request[q].text
    BY <1>2, OthersStay DEF Alike
  <2>2. request[q].text = disk[p]
    BY <2>1 DEF Profiled
  <2>3. r \notin Makers(p)
    <3>1. request[q].pc # "idle" /\ p \in Uses(request[q].kind, request[q].arg)
      BY <2>1, SettersAre
    <3> QED BY <1>2, <3>1, MakersAreApart
  <2>4. disk'[p] = disk[p]
    BY <2>3, DiskStays
  <2> QED BY <2>1, <2>2, <2>4
<1> QED BY <1>1, <1>2

\* Personas and profiles are set by SetPersona and SetProfile alone.
LEMMA PersonasStay ==
  ASSUME Shape, NEW r \in Requests, Step(r), Own(r), ~SetPersona(r), ~SetProfile(r), NEW e \in DOMAIN entry
  PROVE  entry'[e].persona = entry[e].persona /\ entry'[e].profile = entry[e].profile
<1>1. entry \in Seq(Entry) /\ entry[e] \in Entry
  BY DEF Shape
<1>2. CASE entry' = entry
  BY <1>2
<1>3. CASE Build(r)
  BY <1>3, BuildIs
<1>4. CASE UseScope(r) \/ SetTrace(r) \/ SetLast(r) \/ SetMode(r)
  <2>1. request[r].pc \in Holding
    BY <1>4 DEF UseScope, SetTrace, SetLast, SetMode, At, Holding
  <2>2. Loop(r) \in Entry /\ Loop(r) = entry[request[r].obj]
    BY <2>1, InUse
  <2>3. PICK x : Update(r, x) /\ x.persona = Loop(r).persona /\ x.profile = Loop(r).profile
    <3>1. CASE UseScope(r)
      <4> DEFINE x == Scoped(Loop(r), request[r].arg)
      <4>1. Update(r, x)
        BY <3>1 DEF UseScope
      <4>2. x.persona = Loop(r).persona /\ x.profile = Loop(r).profile
        BY <2>2 DEF Scoped, Entry
      <4> HIDE DEF x
      <4> QED BY <4>1, <4>2
    <3>2. CASE SetTrace(r) \/ SetLast(r) \/ SetMode(r)
      BY <2>2, <3>2 DEF SetTrace, SetLast, SetMode, Entry
    <3> QED BY <1>4, <3>1, <3>2
  <2>4. entry' = [entry EXCEPT ![request[r].obj] = x]
    BY <2>3 DEF Update
  <2> QED BY <1>1, <2>2, <2>3, <2>4
<1>5. CASE RebuildModel(r)
  <2> DEFINE o == sessions[request[r].id]
  <2>1. entry' = entry \/ entry' = [entry EXCEPT ![o].model = provider]
    BY <1>5 DEF RebuildModel
  <2> QED BY <1>1, <2>1 DEF Entry
<1> QED BY <1>2, <1>3, <1>4, <1>5, EntriesChangeIn

\* An entry under a profile that is not being set.
LEMMA EntriesKeepProfiled ==
  ASSUME Shape, Shape', Owned, Single, Tracked, Apart, Profiled, NEW r \in Requests, Step(r), Own(r),
         NEW p \in Profiles \ spoiled, NEW s \in SessionIds \ met, NEW e \in DOMAIN entry,
         e \in DOMAIN entry', p # Default, Holds(s, e), entry'[e].profile = p, Settled(s)',
         ~(SetProfile(r) /\ s = request[r].id)
  PROVE  entry'[e].persona = disk'[p] /\ Makers(p)' = {}
<1> DEFINE d == request[r]
<1>1. Settled(s)
  <2> SUFFICES ASSUME NEW q \in Requests, Busy(q, s), request[q].pc = "name" PROVE FALSE
    BY DEF Settled
  <2>1. CASE q # r
    <3>1. Busy(q, s)' /\ request'[q].pc = "name"
      BY <2>1, OthersStay DEF Alike, Busy
    <3> QED BY <3>1 DEF Settled
  <2>2. CASE q = r
    <3>1. ~SetProfile(r) /\ d.pc = "name"
      BY <2>2 DEF Busy
    <3>2. ~Starts(r)
      BY DEF Starts, Begin, At, Own
    <3>3. /\ ~TestProfile(r) /\ ~ChooseText(r) /\ ~TruncatePersona(r) /\ ~WritePersona(r) /\ ~Found(r)
          /\ ~Build(r) /\ ~Install(r) /\ ~UseScope(r) /\ ~Search(r) /\ ~(\E calls \in BOOLEAN : Complete(r, calls))
          /\ ~Check(r)
      BY <3>1 DEF TestProfile, ChooseText, TruncatePersona, WritePersona, Found, Build, Install, UseScope, Search,
           Complete, Check, At
    <3>4. /\ ~Remember(r) /\ ~SetTrace(r) /\ ~SetLast(r) /\ ~Fail(r) /\ ~SetMode(r) /\ ~CostScope(r) /\ ~CostSpent(r)
          /\ ~Lookup(r) /\ ~LoadPersona(r) /\ ~SetPersona(r)
      BY <3>1 DEF Remember, SetTrace, SetLast, Fail, SetMode, CostScope, CostSpent, Lookup, LoadPersona, SetPersona, At
    <3>5. /\ ~ReadEnv(r) /\ ~TruncateEnv(r) /\ ~WriteEnv(r) /\ ~ApplyKey(r) /\ ~RebuildModel(r) /\ ~AnswerKey(r)
      BY <3>1 DEF ReadEnv, TruncateEnv, WriteEnv, ApplyKey, RebuildModel, AnswerKey, At
    <3> QED BY <3>1, <3>2, <3>3, <3>4, <3>5 DEF Step, Starts
  <2> QED BY <2>1, <2>2
<1>2. entry'[e].persona = entry[e].persona /\ entry'[e].profile = entry[e].profile
  <2>1. CASE s # d.id
    <3>1. ~Holds(d.id, e) /\ d.id \in SessionIds
      BY <2>1 DEF Owned, Own
    <3> QED BY <3>1 DEF Own
  <2>2. CASE s = d.id
    <3>1. ~SetPersona(r)
      <4> SUFFICES ASSUME SetPersona(r) PROVE FALSE
        OBVIOUS
      <4>1. request'[r] = [d EXCEPT !.pc = "name"] /\ d \in Doing
        BY OneMoves, Here DEF SetPersona, Goto
      <4>2. request'[r].pc = "name" /\ request'[r].id = s
        BY <2>2, <4>1 DEF Doing
      <4> QED BY <4>2 DEF Settled, Busy
    <3> QED BY <2>2, <3>1, PersonasStay
  <2> QED BY <2>1, <2>2
<1>3. entry[e].persona = disk[p] /\ Makers(p) = {}
  BY <1>1, <1>2 DEF Profiled
<1>4. disk'[p] = disk[p]
  BY <1>3, DiskStays
<1>5. disk[p] # None
  <2>1. entry[e] \in Entry
    BY DEF Shape
  <2>2. entry[e].persona \in Texts
    BY <2>1 DEF Entry
  <2> QED BY <1>3, <2>2, ServerAssumption DEF Texts
<1>6. Makers(p)' = {}
  <2> SUFFICES ASSUME NEW q \in Requests, request'[q].pc \in {"text", "open", "persona"}, request'[q].arg.name = p
               PROVE  FALSE
    BY DEF Makers
  <2> QED BY <1>3, <1>5, MakersStay
<1> QED BY <1>2, <1>3, <1>4, <1>6

\* The entry whose profile is set.
LEMMA SetProfileKeepsProfiled ==
  ASSUME Shape, Shape', Owned, Single, Tracked, Apart, Profiled, NEW r \in Requests, Step(r), Own(r),
         SetProfile(r), request[r].id \notin met, NEW p \in Profiles \ spoiled, NEW e \in DOMAIN entry,
         p # Default, Holds(request[r].id, e), entry'[e].profile = p
  PROVE  entry'[e].persona = disk'[p] /\ Makers(p)' = {}
<1> DEFINE d == request[r]
           s == d.id
<1>1. /\ d.pc = "name" /\ entry' = [entry EXCEPT ![d.obj] = [Loop(r) EXCEPT !.profile = d.arg]]
      /\ UNCHANGED <<disk, created>>
  BY DEF SetProfile, Update, At, profiles
<1>2. s \in SessionIds /\ Busy(r, s) /\ d.obj \in DOMAIN entry /\ Loop(r) \in Entry /\ entry \in Seq(Entry)
  BY <1>1, InUse DEF Holding, Busy
<1>3. Follows(d, sessions[s], entry, want[s])
  BY <1>2 DEF Tracked
<1>4. sessions[s] = d.obj /\ Loop(r).persona = d.text
  BY <1>1, <1>3 DEF Follows, Holding, Loop
<1>5. e = d.obj
  <2>1. e # None
    BY NoneIsNoEntry
  <2>2. ASSUME NEW q \in Requests, request[q].id = s, request[q].obj = e PROVE q = r
    <3>1. request[q].pc # "idle"
      BY <2>1, <2>2, Here, IdleIs DEF Phase
    <3> QED BY <1>2, <2>2, <3>1 DEF Single, Busy
  <2> QED BY <1>4, <2>2 DEF Holds
<1>6. entry'[e].persona = d.text /\ d.arg = p
  <2> DEFINE x == [Loop(r) EXCEPT !.profile = d.arg]
  <2>1. x.persona = Loop(r).persona /\ x.profile = d.arg
    BY <1>2 DEF Entry
  <2> HIDE DEF x
  <2>2. entry'[e] = x
    BY <1>1, <1>2, <1>5 DEF x
  <2> QED BY <1>4, <2>1, <2>2
<1>7. d.text = disk[p]
  BY <1>1, <1>6 DEF Profiled
<1>8. Makers(p)' = {}
  <2> SUFFICES ASSUME NEW q \in Requests, request'[q].pc \in {"text", "open", "persona"}, request'[q].arg.name = p
               PROVE  FALSE
    BY DEF Makers
  <2>1. q \in Makers(p)
    BY MakersStay
  <2>2. p \in Uses(d.kind, d.arg) /\ d.pc # "idle" /\ r \notin Makers(p)
    BY <1>1, <1>6, SettersAre
  <2> QED BY <2>1, <2>2, MakersAreApart
<1> QED BY <1>1, <1>6, <1>7, <1>8

\* The entry a request makes.
LEMMA BuildKeepsProfiled ==
  ASSUME Shape, Shape', Apart, NEW r \in Requests, Step(r), Own(r), Build(r),
         NEW p \in Profiles \ spoiled, p # Default, entry'[Len(entry) + 1].profile = p
  PROVE  entry'[Len(entry) + 1].persona = disk'[p] /\ Makers(p)' = {}
<1> DEFINE d == request[r]
<1>1. PICK m \in Profiles, n \in Doing :
        /\ m = IF d.kind = "create" THEN d.arg ELSE Default
        /\ d.pc = "session" /\ entry'[Len(entry) + 1] = Made(m)
        /\ DOMAIN entry' = 1..Len(entry) + 1 /\ UNCHANGED <<disk, created>>
  BY BuildIs
<1>2. m = p /\ entry'[Len(entry) + 1].persona = Persona(p)
  BY <1>1 DEF Made
<1>3. d.kind = "create" /\ d.arg = p
  BY <1>1, <1>2
<1>4. p \in Uses(d.kind, d.arg) /\ r \notin Makers(p)
  BY <1>1, <1>3, UsesAre DEF Makers
<1>5. Makers(p)' = {}
  <2> SUFFICES ASSUME NEW q \in Requests, request'[q].pc \in {"text", "open", "persona"}, request'[q].arg.name = p
               PROVE  FALSE
    BY DEF Makers
  <2>1. entry' # entry
    <3>1. Len(entry) + 1 \in DOMAIN entry'
      BY <1>1, NoneIsNoEntry
    <3> QED BY <3>1, NoneIsNoEntry
  <2>2. q \in Makers(p)
    BY <2>1, MakersStay
  <2> QED BY <1>1, <1>4, <2>2, MakersAreApart
<1> QED BY <1>1, <1>2, <1>5 DEF Persona

LEMMA ProfiledKept ==
  ASSUME Shape, Shape', Owned, Single, Tracked, Apart, Profiled, [Next]_vars
  PROVE  Profiled'
<1>1. CASE Restart
  <2>1. /\ \A r \in Requests : request'[r].pc = "idle"
        /\ entry' = <<>> /\ UNCHANGED <<disk, created>> /\ spoiled \subseteq spoiled'
    BY <1>1, IdleIs DEF Restart
  <2>2. DOMAIN entry' = {} /\ \A p : Makers(p)' = {}
    BY <2>1 DEF Makers
  <2> QED BY <2>1, <2>2 DEF Profiled
<1>2. ASSUME NEW r \in Requests, Step(r), Own(r) PROVE Profiled'
  <2>1. met' = met /\ spoiled' = spoiled
    <3>1. Default \in Profiles
      BY ServerAssumption
    <3> QED BY <1>2, <3>1, DiskStays DEF Own
  <2>2. \A p \in Profiles \ spoiled : created'[p] # {} =>
          created'[p] = {disk'[p]} /\ disk'[p] # None /\ Makers(p)' = {}
    BY <1>2, CreatedKept
  <2>3. \A p \in Profiles \ spoiled, q \in Requests :
          p # Default /\ request'[q].pc \in {"system", "name"} /\ request'[q].arg = p =>
            request'[q].text = disk'[p]
    BY <1>2, SettersKept
  <2>4. ASSUME NEW p \in Profiles \ spoiled, NEW s \in SessionIds \ met, NEW e \in DOMAIN entry',
               p # Default, Holds(s, e)', entry'[e].profile = p, Settled(s)'
        PROVE  entry'[e].persona = disk'[p] /\ Makers(p)' = {}
    <3>1. CASE e = Len(entry) + 1
      <4>1. ~Holds(s, e)
        BY <3>1, NoneIsNoEntry, HoldersHaveEntries
      <4>2. Build(r)
        BY <1>2, <2>4, <4>1, HoldersStay
      <4> QED BY <1>2, <2>4, <3>1, <4>2, BuildKeepsProfiled
    <3>2. CASE e # Len(entry) + 1
      <4>1. Holds(s, e)
        BY <1>2, <2>4, <3>2, HoldersStay
      <4>2. e \in DOMAIN entry
        <5>1. e # None
          <6>1. e \in 1..Len(entry') /\ Len(entry') \in Nat
            BY DEF Shape
          <6> QED BY <6>1, ServerAssumption
        <5> QED BY <4>1, <5>1, HoldersHaveEntries
      <4>3. CASE SetProfile(r) /\ s = request[r].id
        BY <1>2, <2>4, <4>1, <4>2, <4>3, SetProfileKeepsProfiled
      <4>4. CASE ~(SetProfile(r) /\ s = request[r].id)
        BY <1>2, <2>4, <4>1, <4>2, <4>4, EntriesKeepProfiled
      <4> QED BY <4>3, <4>4
    <3> QED BY <3>1, <3>2
  <2> QED BY <2>1, <2>2, <2>3, <2>4 DEF Profiled
<1>3. ASSUME NEW r \in Requests, Starts(r) PROVE Profiled'
  <2>1. PICK kind \in Kinds, s \in SessionIds : \E arg \in Args(kind) :
          /\ Begin(r, kind, s, arg) /\ request[r].pc = "idle"
          /\ request'[r].pc \in {"session", "exists", "readenv", "lookup"}
          /\ \A q \in Requests : q # r => request'[q] = request[q]
          /\ UNCHANGED <<sessions, entry, disk, created>>
    BY <1>3, BeginIs
  <2>2. /\ request[r].pc = "idle" /\ request'[r].pc \in {"session", "exists", "readenv", "lookup"}
        /\ \A q \in Requests : q # r => request'[q] = request[q]
        /\ UNCHANGED <<sessions, entry, disk, created>> /\ met \subseteq met' /\ spoiled \subseteq spoiled'
    BY <2>1 DEF Begin
  <2>3. \A p : Makers(p)' = Makers(p)
    BY <2>2 DEF Makers
  <2>4. \A t \in SessionIds : Settled(t)' => Settled(t)
    BY <2>2 DEF Settled, Busy
  <2>5. \A t \in SessionIds, e \in DOMAIN entry : Holds(t, e)' => Holds(t, e)
    BY <1>3, <2>2, BeginKeepsHolders
  <2>6. \A q \in Requests : request'[q].pc \in {"system", "name"} => request'[q] = request[q]
    BY <2>2
  <2> QED BY <2>2, <2>3, <2>4, <2>5, <2>6 DEF Profiled
<1>4. CASE UNCHANGED vars
  BY <1>4 DEF vars, profiles, Profiled, Makers, Holds, Settled, Busy
<1> QED BY <1>1, <1>2, <1>3, <1>4, StepsAreOwn DEF Next

LEMMA ProfiledAlways == Spec => [](Apart /\ Profiled)
<1>1. Init => Apart /\ Profiled
  <2> SUFFICES ASSUME Init PROVE Apart /\ Profiled
    OBVIOUS
  <2>1. /\ \A r \in Requests : request[r].pc = "idle"
        /\ entry = <<>> /\ created = [p \in Profiles |-> {}]
    BY IdleIs DEF Init
  <2>2. DOMAIN entry = {} /\ \A p \in Profiles : created[p] = {}
    BY <2>1
  <2> QED BY <2>1, <2>2 DEF Apart, Profiled
<1> QED BY <1>1, ApartKept, ProfiledKept, ShapeAlways, ScopingAlways, TrackedAlways, PTL DEF Spec

\* ProfilesKeepTheirPersona, for any requests, sessions, profiles and texts: a profile that was
\* created keeps the text its creator was answered with, and the sessions under it are told it,
\* unless another request on it met its creation or the server stopped within it.
THEOREM CreatedProfilesKeepTheirText == Spec => []ProfilesKeepTheirPersona
<1>1. Shape /\ Profiled => ProfilesKeepTheirPersona
  <2> SUFFICES ASSUME Shape, Profiled PROVE ProfilesKeepTheirPersona
    OBVIOUS
  <2>1. \A p \in Profiles \ spoiled : created[p] # {} => created[p] = {disk[p]}
    BY DEF Profiled
  <2>2. ASSUME NEW p \in Profiles \ spoiled, p # Default, NEW s \in SessionIds \ met, Quiet(s),
               entry[sessions[s]].profile = p
        PROVE  entry[sessions[s]].persona = disk[p]
    <3>1. sessions[s] \in DOMAIN entry /\ Holds(s, sessions[s])
      BY <2>2, NoneIsNoEntry DEF Quiet, Shape, Holds
    <3>2. Settled(s)
      BY <2>2 DEF Quiet, Settled, Busy
    <3> QED BY <2>2, <3>1, <3>2 DEF Profiled
  <2> QED BY <2>1, <2>2 DEF ProfilesKeepTheirPersona
<1> QED BY <1>1, ShapeAlways, ProfiledAlways, PTL

===================================================================================
