-------------------------------- MODULE LuluServer --------------------------------
(***************************************************************************)
(* lulu-server (lulu/server.py): the requests of one server process, each  *)
(* on a thread of its own, over the sessions, loops, model clients, the    *)
(* profiles (lulu/profiles.py) and the .env file they share without a lock. *)
(*                                                                         *)
(* AgentTurn has what a turn does to its session's log and MemoryStore     *)
(* what a search does: here a turn is the attributes of the shared loop it *)
(* sets and reads, and a routing trace is the scope it was made under.     *)
(***************************************************************************)
EXTENDS Naturals, SequencesExt

CONSTANTS
  Requests,       \* the requests in flight at a time
  SessionIds,
  Scopes,
  Profiles, Default,   \* the names of profiles; DEFAULT_PROFILE_NAME, one of them
  Personas, DefaultPersona, Blank,   \* the texts; DEFAULT_PERSONA, and the empty one
  ModeChoices, ServerMode,   \* DEFAULT_SERVER_MODE, one of the modes
  Providers, Provider, \* the providers that take a key; lulu.toml's
  JudgeKey,       \* JEV_API_KEY
  Kinds,          \* the endpoints in use
  MaxRequests,    \* bound: the requests made
  MaxIterations,  \* max_iterations
  None

ASSUME ServerAssumption ==
  /\ Default \in Profiles /\ ServerMode \in ModeChoices /\ Provider \in Providers
  /\ DefaultPersona \in Personas /\ Blank \notin Personas
  /\ None \notin Personas \cup {Blank} /\ None \notin Nat
  /\ Profiles \cap Personas = {}
  /\ Kinds \subseteq {"turn", "create", "mode", "profile", "new", "key", "cost"}
  /\ MaxRequests \in Nat /\ MaxIterations \in Nat \ {0}

VARIABLES
  request,     \* what each request is doing
  sessions,    \* _sessions: session id -> its entry, or None
  entry,       \* the SessionEntry objects made, with their loops
  provider,    \* state.config.provider
  env,         \* the keys in .env
  disk,        \* the persona.md of each profile, or None
  made,        \* requests made so far
  asked,       \* history: session id -> the scopes of its turns
  want,        \* history: session id -> what its requests have set last
  met,         \* history: the sessions two requests were on at a time
  saved,       \* history: keys whose request was answered
  keysMet,     \* history: two such requests met, or the server stopped during one
  created,     \* history: profile -> the texts its creators were answered with
  spoiled      \* history: profiles whose creation another request on them met, or a stop

profiles == <<disk, created, spoiled>>

vars == <<request, sessions, entry, provider, env, made, asked, want, met, saved, keysMet, profiles>>

Keys == Providers \cup {JudgeKey}

\* What a session is before anybody has set anything.
Untouched == [mode |-> ServerMode, profile |-> Default, persona |-> DefaultPersona, scope |-> None]

\* What a thread can tell: its own arguments (arg is the scope, mode, profile, key, or the
\* name and source of a new profile),
\* what it has read, and what the turn used.
Idle == [pc |-> "idle", kind |-> None, id |-> None, arg |-> None, obj |-> None, iter |-> 0,
         buf |-> {}, text |-> None, searched |-> None, remembered |-> None, personas |-> {}, alone |-> TRUE]

At(r, pc) == request[r].pc = pc
Loop(r) == entry[request[r].obj]
Set(r, record) == request' = [request EXCEPT ![r] = record]
Goto(r, pc) == Set(r, [request[r] EXCEPT !.pc = pc])
Update(r, changed) == entry' = [entry EXCEPT ![request[r].obj] = changed]

\* A turn has the loop from the moment it sets its scope.
HasLoop(r) == request[r].pc \in {"search", "model", "check", "remember", "trace", "last"}

Init ==
  /\ request = [r \in Requests |-> Idle]
  /\ sessions = [s \in SessionIds |-> None]
  /\ entry = <<>>
  /\ provider = Provider
  /\ env = {}
  /\ made = 0
  /\ asked = [s \in SessionIds |-> {}]
  /\ want = [s \in SessionIds |-> Untouched]
  /\ met = {}
  /\ saved = {}
  /\ keysMet = FALSE
  /\ disk \in [Profiles -> Personas \cup {None}]   \* of earlier runs, or by hand
  /\ created = [p \in Profiles |-> {}]
  /\ spoiled = {}

Args(kind) == CASE kind = "turn"                 -> Scopes
                [] kind = "mode"                 -> ModeChoices
                [] kind \in {"create", "profile"} -> Profiles
                [] kind = "new"                  -> [name : Profiles, source : Personas \cup Profiles]
                [] kind = "key"                  -> Keys
                [] OTHER                         -> {None}

FirstStep(kind) == CASE kind \in {"turn", "create"} -> "session"
                     [] kind = "new"                -> "exists"
                     [] kind = "key"                -> "readenv"
                     [] OTHER                       -> "lookup"

\* The profile a request writes, and those it reads or writes.
Makes(kind, arg) == IF kind = "new" THEN {arg.name} ELSE {}
Uses(kind, arg) == CASE kind = "turn"                  -> {Default}
                     [] kind \in {"create", "profile"} -> {arg}
                     [] kind = "new"                   -> {arg.name, arg.source} \cap Profiles
                     [] OTHER                          -> {}

Begin(r, kind, s, arg) ==
  /\ At(r, "idle") /\ made < MaxRequests
  /\ made' = made + 1
  /\ Set(r, [Idle EXCEPT !.pc = FirstStep(kind), !.kind = kind, !.id = s, !.arg = arg])
  /\ met' = IF \E q \in Requests : ~At(q, "idle") /\ request[q].id = s THEN met \cup {s} ELSE met
  /\ keysMet' = (keysMet \/ (kind = "key" /\ \E q \in Requests : request[q].kind = "key"))
  /\ spoiled' = spoiled \cup UNION {(Makes(kind, arg) \cap Uses(request[q].kind, request[q].arg))
                                     \cup (Uses(kind, arg) \cap Makes(request[q].kind, request[q].arg)) :
                                   q \in {q \in Requests : ~At(q, "idle")}}
  /\ UNCHANGED <<sessions, entry, provider, env, asked, want, saved, disk, created>>

-----------------------------------------------------------------------------------
(* create_profile, load_profile (lulu/profiles.py)                         *)

\* load_profile: the text of the file, which the default profile can do without; None
\* for an unknown profile.
Persona(p) == IF disk[p] = None /\ p = Default THEN DefaultPersona ELSE disk[p]

\* Mutant of Exists: no name is ever taken.
ExistsNever(p) == FALSE

Exists(p) == disk[p] # None

\* A name that is taken is refused.
TestProfile(r) ==
  /\ At(r, "exists")
  /\ IF Exists(request[r].arg.name) THEN Set(r, Idle) ELSE Goto(r, "text")
  /\ UNCHANGED <<sessions, entry, provider, env, made, asked, want, met, saved, keysMet, profiles>>

\* The persona given, or that of the profile to clone, which has to exist.  (With neither,
\* the text is DEFAULT_PERSONA, one of the personas given here.)
ChooseText(r) ==
  LET source == request[r].arg.source
      text == IF source \in Profiles THEN Persona(source) ELSE source
  IN
  /\ At(r, "text")
  /\ Set(r, IF text = None THEN Idle ELSE [request[r] EXCEPT !.pc = "open", !.text = text])
  /\ UNCHANGED <<sessions, entry, provider, env, made, asked, want, met, saved, keysMet, profiles>>

\* open("w"), then the write and the answer
TruncatePersona(r) ==
  /\ At(r, "open")
  /\ disk' = [disk EXCEPT ![request[r].arg.name] = Blank]
  /\ Goto(r, "persona")
  /\ UNCHANGED <<sessions, entry, provider, env, made, asked, want, met, saved, keysMet, created, spoiled>>

WritePersona(r) ==
  LET name == request[r].arg.name IN
  /\ At(r, "persona")
  /\ disk' = [disk EXCEPT ![name] = request[r].text]
  /\ created' = [created EXCEPT ![name] = @ \cup {request[r].text}]
  /\ Set(r, Idle)
  /\ UNCHANGED <<sessions, entry, provider, env, made, asked, want, met, saved, keysMet, spoiled>>

-----------------------------------------------------------------------------------
(* get_or_create_session                                                   *)

\* What a request does once it has its entry: a turn runs, a creation answers.
Entered(r, e) ==
  IF request[r].kind = "turn" THEN Set(r, [request[r] EXCEPT !.pc = "scope", !.obj = e])
                              ELSE Set(r, Idle)

\* Mutant of Known: any session will do.
KnownAny(s) == IF \E t \in SessionIds : sessions[t] # None
                 THEN sessions[CHOOSE t \in SessionIds : sessions[t] # None] ELSE None

Known(s) == sessions[s]

Found(r) ==
  /\ At(r, "session") /\ Known(request[r].id) # None
  /\ Entered(r, Known(request[r].id))
  /\ UNCHANGED <<sessions, entry, provider, env, made, asked, want, met, saved, keysMet, profiles>>

\* _build_loop: a turn makes an entry of the default profile.  (Of an unknown one: Fail.)
Build(r) ==
  LET profile == IF request[r].kind = "create" THEN request[r].arg ELSE Default IN
  /\ At(r, "session") /\ Known(request[r].id) = None /\ Persona(profile) # None
  /\ entry' = Append(entry, [persona |-> Persona(profile), profile |-> profile, mode |-> ServerMode,
                             model |-> provider, scope |-> None, trace |-> None, last |-> None])
  /\ want' = [want EXCEPT ![request[r].id].profile = profile, ![request[r].id].persona = Persona(profile)]
  /\ Set(r, [request[r] EXCEPT !.pc = "install", !.obj = Len(entry) + 1])
  /\ UNCHANGED <<sessions, provider, env, made, asked, met, saved, keysMet, profiles>>

\* The entry goes into _sessions, over whatever another request has put there since.
Install(r) ==
  /\ At(r, "install")
  /\ sessions' = [sessions EXCEPT ![request[r].id] = request[r].obj]
  /\ Entered(r, request[r].obj)
  /\ UNCHANGED <<entry, provider, env, made, asked, want, met, saved, keysMet, profiles>>

-----------------------------------------------------------------------------------
(* run_turn, stream_turn                                                   *)

\* Mutant of Scoped: the scope is kept from the turn before, if there was one.
ScopedOnce(e, scope) == IF e.scope = None THEN [e EXCEPT !.scope = scope] ELSE e

\* loop.memory_scope = body.scope
Scoped(e, scope) == [e EXCEPT !.scope = scope]

UseScope(r) ==
  LET e == request[r].obj
      others == {q \in Requests \ {r} : HasLoop(q) /\ request[q].obj = e}
  IN
  /\ At(r, "scope")
  /\ Update(r, Scoped(Loop(r), request[r].arg))
  /\ request' = [q \in Requests |->
       IF q = r THEN [request[q] EXCEPT !.pc = "search", !.alone = others = {}]
       ELSE IF q \in others THEN [request[q] EXCEPT !.alone = FALSE]
       ELSE request[q]]
  /\ asked' = [asked EXCEPT ![request[r].id] = @ \cup {request[r].arg}]
  /\ UNCHANGED <<sessions, provider, env, made, want, met, saved, keysMet, profiles>>

\* AgentLoop.run_turn: the search is made under whatever scope the loop has now.
Search(r) ==
  /\ At(r, "search")
  /\ Set(r, [request[r] EXCEPT !.pc = "model", !.searched = Loop(r).scope])
  /\ UNCHANGED <<sessions, entry, provider, env, made, asked, want, met, saved, keysMet, profiles>>

\* One model call, with the loop's present persona and model.
Complete(r, calls) ==
  LET self == request[r] IN
  /\ At(r, "model")
  /\ Set(r, [self EXCEPT !.pc = IF calls THEN "check" ELSE "remember",
                         !.iter = @ + 1,
                         !.personas = @ \cup {Loop(r).persona}])
  /\ UNCHANGED <<sessions, entry, provider, env, made, asked, want, met, saved, keysMet, profiles>>

\* for i in range(self.max_iterations)
LoopsOn(iter) == iter < MaxIterations

\* The calls are checked against the loop's present mode.
Check(r) ==
  /\ At(r, "check")
  /\ Goto(r, IF LoopsOn(request[r].iter) THEN "model" ELSE "remember")
  /\ UNCHANGED <<sessions, entry, provider, env, made, asked, want, met, saved, keysMet, profiles>>

\* The memory is written under whatever scope the loop has now, if there is a text.
Remember(r) ==
  /\ At(r, "remember")
  /\ \E text \in BOOLEAN :
       Set(r, [request[r] EXCEPT !.pc = "trace", !.remembered = IF text THEN Loop(r).scope ELSE None])
  /\ UNCHANGED <<sessions, entry, provider, env, made, asked, want, met, saved, keysMet, profiles>>

\* entry.last_trace = result.trace
SetTrace(r) ==
  /\ At(r, "trace")
  /\ Update(r, [Loop(r) EXCEPT !.trace = request[r].searched])
  /\ Goto(r, "last")
  /\ UNCHANGED <<sessions, provider, env, made, asked, want, met, saved, keysMet, profiles>>

\* entry.last_scope = body.scope
SetLast(r) ==
  /\ At(r, "last")
  /\ Update(r, [Loop(r) EXCEPT !.last = request[r].arg])
  /\ Set(r, Idle)
  /\ want' = [want EXCEPT ![request[r].id].scope = request[r].arg]
  /\ UNCHANGED <<sessions, provider, env, made, asked, met, saved, keysMet, profiles>>

\* The model client, a tool, the memory or a write to disk raises, or a profile is unknown:
\* the request fails, and what it has set stays set.
Fail(r) ==
  /\ request[r].pc \in {"session", "search", "model", "remember", "persona"}
  /\ Set(r, Idle)
  /\ UNCHANGED <<sessions, entry, provider, env, made, asked, want, met, saved, keysMet, profiles>>

-----------------------------------------------------------------------------------
(* set_mode, set_profile, get_cost                                         *)

\* state._sessions.get(): the entry, or a 404; /cost needs a trace as well.
Lookup(r) ==
  LET e == sessions[request[r].id] IN
  /\ At(r, "lookup")
  /\ IF e = None \/ (request[r].kind = "cost" /\ entry[e].trace = None) THEN Set(r, Idle)
     ELSE Set(r, [request[r] EXCEPT !.pc = request[r].kind, !.obj = e])
  /\ UNCHANGED <<sessions, entry, provider, env, made, asked, want, met, saved, keysMet, profiles>>

SetMode(r) ==
  /\ At(r, "mode")
  /\ Update(r, [Loop(r) EXCEPT !.mode = request[r].arg])
  /\ want' = [want EXCEPT ![request[r].id].mode = request[r].arg]
  /\ Set(r, Idle)
  /\ UNCHANGED <<sessions, provider, env, made, asked, met, saved, keysMet, profiles>>

\* load_profile, with an error for an unknown one; entry.loop.system, then entry.profile
LoadPersona(r) ==
  LET text == Persona(request[r].arg) IN
  /\ At(r, "profile")
  /\ Set(r, IF text = None THEN Idle ELSE [request[r] EXCEPT !.pc = "system", !.text = text])
  /\ UNCHANGED <<sessions, entry, provider, env, made, asked, want, met, saved, keysMet, profiles>>

SetPersona(r) ==
  /\ At(r, "system")
  /\ Update(r, [Loop(r) EXCEPT !.persona = request[r].text])
  /\ Goto(r, "name")
  /\ UNCHANGED <<sessions, provider, env, made, asked, want, met, saved, keysMet, profiles>>

SetProfile(r) ==
  LET self == request[r] IN
  /\ At(r, "name")
  /\ Update(r, [Loop(r) EXCEPT !.profile = self.arg])
  /\ Set(r, Idle)
  /\ want' = [want EXCEPT ![self.id].profile = self.arg, ![self.id].persona = self.text]
  /\ UNCHANGED <<sessions, provider, env, made, asked, met, saved, keysMet, profiles>>

\* The counterfactual is computed for last_scope's shards, then last_trace is read.
CostScope(r) ==
  /\ At(r, "cost")
  /\ Set(r, [request[r] EXCEPT !.pc = "spent", !.searched = Loop(r).last])
  /\ UNCHANGED <<sessions, entry, provider, env, made, asked, want, met, saved, keysMet, profiles>>

CostSpent(r) ==
  /\ At(r, "spent")
  /\ Set(r, Idle)
  /\ UNCHANGED <<sessions, entry, provider, env, made, asked, want, met, saved, keysMet, profiles>>

-----------------------------------------------------------------------------------
(* set_api_key, set_jev_api_key: write_env_var (lulu/config.py), then this process. *)

ReadEnv(r) ==
  /\ At(r, "readenv")
  /\ Set(r, [request[r] EXCEPT !.pc = "truncate", !.buf = env])
  /\ UNCHANGED <<sessions, entry, provider, env, made, asked, want, met, saved, keysMet, profiles>>

\* open("w"), and the write
TruncateEnv(r) ==
  /\ At(r, "truncate")
  /\ env' = {}
  /\ Goto(r, "writeenv")
  /\ UNCHANGED <<sessions, entry, provider, made, asked, want, met, saved, keysMet, profiles>>

\* Mutant of WriteEnv: the file is written anew.
WriteEnvAnew(r) ==
  /\ At(r, "writeenv")
  /\ env' = {request[r].arg}
  /\ Goto(r, "apply")
  /\ UNCHANGED <<sessions, entry, provider, made, asked, want, met, saved, keysMet, profiles>>

WriteEnv(r) ==
  /\ At(r, "writeenv")
  /\ env' = request[r].buf \cup {request[r].arg}
  /\ Goto(r, "apply")
  /\ UNCHANGED <<sessions, entry, provider, made, asked, want, met, saved, keysMet, profiles>>

\* The key of a provider makes it the provider; a session's client is then rebuilt.  The
\* judge's key replaces the judge and that is all.
ApplyKey(r) ==
  /\ At(r, "apply")
  /\ provider' = IF request[r].arg \in Providers THEN request[r].arg ELSE provider
  /\ Goto(r, IF request[r].arg \in Providers THEN "rebuild" ELSE "answer")
  /\ UNCHANGED <<sessions, entry, env, made, asked, want, met, saved, keysMet, profiles>>

RebuildModel(r) ==
  LET e == sessions[request[r].id] IN
  /\ At(r, "rebuild")
  /\ entry' = IF e = None THEN entry ELSE [entry EXCEPT ![e].model = provider]
  /\ Goto(r, "answer")
  /\ UNCHANGED <<sessions, provider, env, made, asked, want, met, saved, keysMet, profiles>>

AnswerKey(r) ==
  /\ At(r, "answer")
  /\ saved' = saved \cup {request[r].arg}
  /\ Set(r, Idle)
  /\ UNCHANGED <<sessions, entry, provider, env, made, asked, want, met, keysMet, profiles>>

-----------------------------------------------------------------------------------
\* The server is stopped and started: .env, lulu.toml and the profiles are all it has.
Restart ==
  /\ request' = [r \in Requests |-> Idle]
  /\ sessions' = [s \in SessionIds |-> None]
  /\ provider' = Provider
  /\ want' = [s \in SessionIds |-> Untouched]
  /\ keysMet' = (keysMet \/ \E r \in Requests : At(r, "writeenv"))
  /\ spoiled' = spoiled \cup UNION {Makes(request[r].kind, request[r].arg) : r \in Requests}
  /\ entry' = <<>>
  /\ UNCHANGED <<env, made, asked, met, saved, disk, created>>

Step(r) ==
  \/ \E kind \in Kinds, s \in SessionIds : \E arg \in Args(kind) : Begin(r, kind, s, arg)
  \/ TestProfile(r) \/ ChooseText(r) \/ TruncatePersona(r) \/ WritePersona(r)
  \/ Found(r) \/ Build(r) \/ Install(r)
  \/ UseScope(r) \/ Search(r) \/ (\E calls \in BOOLEAN : Complete(r, calls)) \/ Check(r)
  \/ Remember(r) \/ SetTrace(r) \/ SetLast(r) \/ Fail(r)
  \/ Lookup(r) \/ SetMode(r) \/ LoadPersona(r) \/ SetPersona(r) \/ SetProfile(r) \/ CostScope(r) \/ CostSpent(r)
  \/ ReadEnv(r) \/ TruncateEnv(r) \/ WriteEnv(r) \/ ApplyKey(r)
  \/ RebuildModel(r) \/ AnswerKey(r)

Next == Restart \/ \E r \in Requests : Step(r)

Spec == Init /\ [][Next]_vars

-----------------------------------------------------------------------------------
(* Properties.                                                             *)

\* A turn that no other turn joined on its loop was searched for and is remembered under
\* the scope of its caller, whatever turns ran on the loop before.
AloneTurnsKeepTheirScope ==
  \A r \in Requests : (HasLoop(r) /\ request[r].alone) =>
    {request[r].searched, request[r].remembered} \subseteq {request[r].arg, None}

\* However they interleave, the turns of a session read and write under scopes that turns
\* of this session were called with: loops are not shared between sessions.
SessionsDoNotMix ==
  \A r \in Requests : HasLoop(r) =>
    {request[r].searched, request[r].remembered} \subseteq asked[request[r].id] \cup {None}

\* A session whose own requests never met is as if the server had no other.  Between its
\* requests the mode and persona are those last set and the trace is the last turn's, with
\* that turn's scope; within one, the model is called with one persona, the one last set,
\* and /cost reads a trace with the scope it was made under.
Quiet(s) == sessions[s] # None /\ \A r \in Requests : request[r].id # s
SessionsAreIndependent ==
  /\ \A s \in SessionIds \ met : Quiet(s) =>
       LET e == entry[sessions[s]] IN
       /\ e.mode = want[s].mode
       /\ e.persona = want[s].persona /\ e.profile = want[s].profile
       /\ e.trace = want[s].scope /\ e.last = want[s].scope
  /\ \A r \in {q \in Requests : request[q].id \in SessionIds \ met} :
       /\ request[r].personas \subseteq {want[request[r].id].persona}
       /\ At(r, "spent") => Loop(r).trace = request[r].searched

\* A key that was saved stays in .env while others are saved, unless two requests to save
\* one meet or the server is stopped within one.
KeysPersistUnlessMet ==
  keysMet \/ saved \subseteq env \cup UNION {request[r].buf : r \in {q \in Requests : At(q, "writeenv")}}

\* A profile that was created keeps the text its creator was answered with, and is what
\* the model of a session under that profile is told, unless another request that reads or
\* makes the profile met its creation or the server was stopped within it.  (A session
\* under the default profile may be older than that profile's file.)
ProfilesKeepTheirPersona ==
  \A p \in Profiles \ spoiled : created[p] # {} =>
    /\ created[p] = {disk[p]}
    /\ p # Default => \A s \in SessionIds \ met :
         (Quiet(s) /\ entry[sessions[s]].profile = p) => entry[sessions[s]].persona = disk[p]

-----------------------------------------------------------------------------------
(* What the documentation says and the code does not do.                   *)

\* memory.py: a search sees the shards of its own scope and no others.
TurnsKeepTheirScope ==
  \A r \in Requests : HasLoop(r) => request[r].searched \in {request[r].arg, None}

==================================================================================
