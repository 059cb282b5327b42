# Lulu in TLA+

A verification development for the Lulu harness: an agent loop that asks before it acts, remembers
what was said, and routes each recall over *shards* of memory under a budget. The modules here model
the parts of it whose correctness depends on order, concurrency, failure or arithmetic; TLC checks
them on small instances and TLAPS proves the most important invariants for all.

Run inside this directory: `tlc -config <cfg> <module>` for a run of `PROJECT.json`,
`tlapm <module>_proofs.tla` for the proofs.

## 1. Inventory

Paths are relative to `src/packages/lulu-core/src/lulu` and
`src/packages/lulu-router/src/lulu_router`.

| component | state it keeps | operations | talks to |
|---|---|---|---|
| Router: `strategies.py`, `router.py`, `cost.py`, `trace.py`, `shard.py` | the trace of one call (considered shards, rounds, cost, confidence) | `route` with six strategies | calls shards and a judge |
| Judges: `judges/` | `available` flag of a remote judge | `judge` | called by the router, shared by threads |
| Memory: `memory.py`, `backends/sqlite.py` | registry of shards, SQLite connections, read caches, the database files | `_shard`, `write`, `search`, `shards_for_scope` | called by the loop; shares files with other processes |
| Agent loop: `loop.py`, `tools/registry.py` | the messages of a turn | `run_turn`, `_execute` | model client, permissions, human, tools, memory |
| Session log: `session.py` | one JSONL file per session | `load_history`, `append_turn_result` | loop, CLI, server |
| Permissions: `permissions.py`, `attention.py`, `blast_radius.py` | the mode, `permissions.jsonl` | `check`, `log`, `suggest_promotions` | reads the file locks |
| File locks and file tools: `locks.py`, `tools/file_tools.py`, `tools/sandbox.py` | one lock file per path string, the project's files | `check_lock`, `claim_lock`, `write_file`, `edit_file`, `glob`, `grep` | other sessions, through the file system |
| Shell tool: `tools/bash_tool.py` | the processes it leaves | run a command with a timeout | the loop |
| Server: `server.py` | session registry, one loop per session, provider, `.env` | turn, stream, mode, profiles, cost, keys | everything above, on several threads |
| CLI: `cli.py` | a REPL's history | one prompt, REPL, resume | loop, session |
| Model clients: `llm/` | none | `complete` with a chain of fallback models, `stream` | the providers |
| Profiles, configuration: `profiles.py`, `config.py` | persona files, `.env` | create, load, `write_env_var` | server |
| Without state: MCP connector, slash commands, counterfactuals, in-memory and partitioned stores | none | | |
| Inspector: `apps/inspector` | what is on display | fetches | server |

**What is hard here.** Nothing is locked: server threads share loops, registries, connections and
caches; processes share files through advisory claims with a time-out; crashes fall between file
accesses; a human may take minutes between a check and the act it allows; budgets are checked at
different moments of a loop by different strategies. `PROJECT.json` lists each hazard at its line.

**What makes each part correct.** Router: the budget is kept as the strategy promises, the trace says
what happened, denied shards stay out. Memory: scopes stay apart, acknowledged writes stay, searches
are up to date. Loop and log: what ran was allowed and is on record, the log is a conversation a
provider accepts, turns end. Locks: writes are claimed before they happen and other sessions are
warned, and a path let through denotes a file of the project. Server: sessions and scopes do not mix, what was set is what is
used, a profile is what it was made to be.

## 2. Modules and how they correspond to the code

`PROJECT.json` maps each definition to its lines.

**RouterCost, MemoryRouter** — one call of `MemoryRouter.route`. `RouterCost` has `cost.py` and the
counterfactual as operators; whole units replace floats. In `MemoryRouter` a step is one iteration
of a strategy's loop (`ContactFreely`, `ContactUnderCap`, `ContactAdaptively`, `SkipOverCap`, ...)
and the judge's verdict on a round a step of its own (`JudgeRound`), since what is spent, asked and
listed between the two is what the strategies differ in. The ranking is any order of the permitted
shards, a search returns any number of results up to `K` or raises, a judge answers anything; the
confidence is a level and `Tau` the level that is enough. `searched` and `incurred` are history:
what was really asked and really cost, against which the trace is judged.

**Permissions** — `PermissionChecker.check` and the mode presets as operators: the escalation of
flagged commands and contested files comes before the preset. Which calls may be flagged or contested
at all is `Flags` and `Contests`; inside them it is any Boolean. Used by FileLocks, AgentTurn and Promotions.

**Promotions** — `suggest_promotions` as a fold over the records of `permissions.jsonl`, beside `Earned`, what
its docstring promises of a tool. No behaviour, so no run of its own: the assumption
`PromotionsAreEarned` of `MCAgentTurn` compares the two.

**FileLocks** — processes on one project. A process goes through check, ask, read, truncate the lock
file, write the lock file, write the file (`Check`, `Approve`, `Open`, `ClaimTruncate`, `ClaimWrite`,
`Write`), may die at each (`Crash`) and come back under its session id (`Resume`). Two overlapping
claims may leave an unreadable mixture; a crash may leave a truncated lock or file. `Tick` lets a second pass; ages
saturate one past the TTL, where `check_lock` tells no more apart. `lastWrite` and `disturbed` are history.

**Sandbox** — `resolve_within_root`, `glob` and `grep` as operators over paths as sequences of segments, links included.
The assumptions of `MCFileLocks` compare them, for every path of up to four segments, with a file system drawn as a graph that is walked
the way an operating system does: the path checked is the file opened, and two spellings of a file come out as one. `FileLocks` gets its `FileOf`
from it, while its locks go by the spelling, as in the code.

**AgentTurn** — turns of one session: `run_turn` from the history it starts with to the last line of
`append_turn_result`, by several workers (a prompt, a REPL, server requests). `Start`, `Complete`,
`Check`, `Approve`/`Refuse`, `Dispatch`, `Remember`, `AppendMessage`, and `Die` anywhere. A message
is its turn, iteration, kind and number of calls. Appending one line is one step, except that a death may tear it
(`Torn`), after which the next line runs into it (`Merged`) and the session cannot be loaded. A shell command
(`tools/bash_tool.py`) runs on its own: it comes to an end (`Exit`), or the timeout gives it up (`Expire`) and only the
shell dies; what it started stays in `commands` until it ends by itself (`EndCommand`), after the turn and the harness if need be.
That is `subprocess.run` on POSIX; on Windows it goes on waiting for the pipes.
`Said` and `LastText` say which response the memory gets the text of.

**AuditedCalls** — what the permissions log promises, in two actions: a call gets one record or none, and is run once at
most, after a record that permits it. `AgentTurn` implements it (`ImplementsAuditedCalls`) whatever dies where.

**MemoryStore**, abstract **ScopedMemory** — the memory over SQLite. A step is one statement: the registry's
test and its installation are apart (`Lookup`, `Build`, `Install`), so are `COUNT`, `INSERT`,
`COMMIT` and the cache's reset (`Count`, `Insert`, `Commit`, `Invalidate`), and `_load`'s test,
`SELECT`, store and return. Building a store and its first load are one step, as nobody sees the object before.
A connection's transaction is `none`, `open` (begun, nothing read), `read` (a snapshot) or
`write` (the lock): Python's `sqlite3` begins one at the first INSERT and leaves it open if the
INSERT fails, which is where `InsertClashes` and `InsertBusy` come from; SQLite's part (external) is
its WAL mode. Which shards a search contacts is any subset. `ScopedMemory` says what the memory
promises (ask, keep, acknowledge, tell); `MemoryStore` implements it under the mapping at its end.

**LuluServer** — requests on threads. `get_or_create_session` is a test, a construction and an
installation (`Found`, `Build`, `Install`); a turn sets the shared loop's scope and reads scope,
persona and mode whenever the code does; `/cost`, `/mode`, `/profile` and the key endpoints are one
read or assignment a step; `.env` is read, truncated and written. `create_profile` tests that the name is free, chooses the
text, truncates the file and writes it (`TestProfile`, `ChooseText`, `TruncatePersona`, `WritePersona`), and a session that is
made or switched reads whatever is there (`LoadPersona`); a write may fail and the server stop at each of these. A trace is the scope it was made under.
The inside of a turn and of a search are AgentTurn's and MemoryStore's.

**Judges** — `FallbackJudge` over Jev and the geometric judge, one object for all threads that search. The call, the
assignment of Jev's `available` and the question for it are three steps (`CallApi`, `Mark`, `AskAvailable`), as another
thread's call on the same object can come between them; `set_jev_api_key` installs another
judge (`SetKey`) while running searches keep theirs. `CallRaises` is a network error that `_call_api` does not catch. This is
the inside of MemoryRouter's `JudgeRound`, where a judge answers anything.

**ModelChain** — one `complete()` or `stream()` of either client over the model and its fallbacks. The Anthropic
stream yields deltas as they come (`Accept`, `Delta`, `Final`), the OpenAI one when the answer is complete (`Respond`);
`Fail` is a provider's failure wherever the code meets one and `AfterFailure` what the `except` clauses make of it; `Drop`
is a consumer who closes the generator. This is the inside of AgentTurn's `Complete` and `Die`.

**Inspector** — the window: the loading screen fades once a session is there (`Fade`), clicks (`Select`, `Retry`, `Send`, `ChangeMode`) send requests, which the server handles
and the network answers in any order (`Handle`, `Resend`, `Fail`), and `EnterSession`, `ShowTurn`, `ShowHistory`, `ModeIsSet`
are the callbacks of the answers. react-query is external: a fetch joins one under way, an invalidation replaces
it, a session request is sent again as it was. A pending mutation may have the callbacks of a later render, so `Invalidated` has
the session it was sent for and the one on display. `switched` and `excused` are history: which turns saw a switch, and whether what
a property needs was lost or overtaken.

**MC\*** — instances for TLC. **\*_proofs** — theorems.

Each mutant operator (`...Once`, `...Anyone`, ...) stands before the definition it spoils: a bug one
could make there, with which TLC finds the property violated.

## 3. Runs

| run | instance and bounds | what it shows |
|---|---|---|
| `router` | 4 shards (3 admitted; local, dearer, remote), 5 budgets (roomy, short of each attribute, zero), `K`=2, 3 confidence levels | all six strategies: budget, trace, reasons, rounds, savings, access |
| `locks` | 2 sessions, one path, TTL 2, three modes; Sandbox on all paths of 4 of 8 segments | claims precede writes, others' checks warn, dead sessions' claims expire; `SandboxIsSound`, `SandboxIsCanonical`, `GlobStaysInside`, `GrepStopsAtTheLimit` |
| `locks_overwrite` | same, TTL 1, the path under two spellings | a lost update nobody was warned of |
| `turn` | 1 worker, 1 turn, 2 iterations, up to 2 calls, all modes and tool classes, crashes, a command that never ends | refinement of AuditedCalls, escalation, usage, termination; and `PromotionsAreEarned` for all permissions logs of up to 4 records of 2 tools, streaks of 1 to 3, every mode |
| `turns` | 2 workers, 3 turns, 1 iteration, 1 call | the log under interleaving, REPLs and crashes; the memory has each turn's own answer |
| `memory_threads` | 2 threads of a server, 2 scopes, 2 writes, 4 store objects | scopes stay apart while shards are built twice; refinement of ScopedMemory |
| `memory_processes` | 2 processes, 1 scope, 3 writes | own writes are read, acknowledged writes stay, through id clashes, kept locks, old snapshots and crashes |
| `server` | 2 threads, 4 requests of every kind, 2 sessions, 2 scopes, 2 profiles, 2 modes, 2 keys, in three mixes: turns with modes, profiles and costs; sessions, modes, profiles, costs and keys without turns; all that makes, loads or switches profiles | scopes of turns that have their loop alone and of those that do not; sessions are independent; saved keys stay; a profile keeps the persona its maker was told of, unless its making was met or cut off |
| `server_scope` | 1 session, 2 scopes, 3 turns | a turn that searches under another's scope |
| `judges` | 2 threads, 2 judges made, 2 rounds a search, 2 confidence levels | the geometric judge steps in when and only when Jev could not answer this thread, or another thread's call came between; nothing unreal ends a search |
| `models` | a model and 2 fallbacks, up to 2 deltas and 2 calls | who is asked after which failure, what a caller has got at the end |
| `inspector` | 2 sessions, 4 clicks, 2 modes | trace, history and mode on display are of the session on display once nothing is in flight |

**Where the documentation and the code part.** Each of the two runs that end in a violation checks one sentence of the
repository against the code; `PROJECT.json` quotes the sentence, and TLC's trace is the shortest way there.

- *Overlapping turns of a session share one loop*: the scope of one is used by the other (`server_scope`).
- *Two agents can overwrite each other silently*: the claim is checked before and put after the human or
  the scheduler lets the other session in (`locks_overwrite`).

Six more the models allow and no run singles out; the properties that are checked are stated so as to hold beside them:

- a crash between two appends leaves a tool call without its result (`session.py:97`, one message a line, where
  `session.py:4` speaks of resuming), hence `PairedUnlessMixed` speaks of appends that nobody meets and
  nobody dies in;
- a turn that ends without a text is remembered with an earlier turn's answer (`loop.py:128`, the last text of *all* messages),
  as `RemembersTheAnswer` has it;
- a torn line makes `load_history` raise (`session.py:99`), and with one such log `GET /api/sessions` has no list at all
  (`server.py:322` loads every session for its preview);
- once the loading screen has faded it stays `exiting` (`App.tsx:248`, `fading` is never reset), which `styles.css:820` makes transparent and
  deaf to clicks: a session request that fails later shows a blank window whose Retry button the mouse cannot reach;
- between the threads of a server a shard's cache may be stale (`backends/sqlite.py:88`), hence `ReadYourWrites` is about a process that
  writes and searches one after the other;
- a connection error in Jev's call is not among those `_call_api` catches (`jev.py:105`), and ends the search
  where a time-out would fall back.

One sentence of the code is out of date without a run of its own: `server.py:14` says that memory does not survive a restart, while
`MemoryStore` keeps it in SQLite files under the data directory, which is what is modelled.

**Why the bounds are enough.** Every hazard named needs two actors and at most three operations: one that
has read, one that changes, one that shows the effect; the runs have one more than that where they finish in
minutes. TTL 2 separates fresh, boundary and expired ages. Two iterations and two calls per
response reach "between two calls", "between two rounds" and the iteration limit. Three shards with
pairwise different prices let every attribute be the one that runs out, at the first shard, in the middle and at the last. Three
writes are needed for a clash, a busy failure and an outdated snapshot in a row. The mixes of `server` leave out no
pair that meets in the code: a turn gets its session as a `create` does, and what a key
replaces, a loop's client, is not read by the model of a turn. Symmetry is used over
interchangeable threads, scopes, sessions and workers, only in runs without liveness. Four clicks make a
turn, a switch, a switch back and one thing more; two judges are one in use and its replacement.

**Deadlock.** Checked except in the `AgentTurn` runs, where the bound on turns, or a torn log that cannot be loaded, rightly
stops the system; `MemoryRouter` and `ModelChain` have an explicit step for a call that is over, `Inspector` for a user who is
done.

**Fairness.** `FileLocks` assumes `WF(Tick)`: time passes. Nothing is promised of processes, and
`DeadSessionsBlockNothing` needs nothing of them. `AgentTurn` assumes `WF(Proceed(w))` for each
worker: a model, a human or a file tool that is asked answers at some time or the process dies. The clients
have time-outs, the loop has `max_iterations`; that a human answers is an assumption. Nothing is assumed of a shell
command: `Exit` and `EndCommand` are not fair, a command may run for ever, and `TurnsEnd` rests on the timeout (`Expire`, which is
fair because `subprocess.run` waits no longer). No other
module states fairness or a liveness property: a request that never comes, a write that is never retried break
nothing. `Inspector`'s properties speak of states where nothing is in flight instead.

**Type invariants.** A run has its module's where the shape takes thought. `LuluServer`, `Judges`, `ModelChain` and
`Inspector` have none there, as their other invariants already look at every field that matters. The proofs need one for every
module: those of `Judges`, `ModelChain` and `Inspector` are theorems stated beside them, that of `LuluServer` is part of its
invariant (`Shape`).

## 4. Proofs

Every safety invariant, action property and refinement that a passing run checks is a theorem of its module's specification, for
every value of the constants. TLAPS takes nothing for granted but the named `ASSUME`s of the modules (shapes of the constants,
which TLC evaluates on every run) and, in one theorem, a hypothesis it states. No theorem rests on fairness. For each module the properties are not inductive as they stand;
what is added to them, and why, is the argument.

**MemoryRouter_proofs**, for any shards, profiles, budgets, `K`, `TopN` and judges. The invariant adds to
the properties: the ranking is a permutation of the permitted shards (`RankedInv`), the trace
is a prefix of it (`PrefixInv`), what is charged is what was incurred except on a refused round (`ChargedInv`), and
what each stage of an adaptive loop has established (`AdaptiveInv`, `DoneInv`). It is needed because e.g. completeness
of the trace is only visible when the call is done, while each step must keep the part built so far in ranking order.
`HardCeiling` rests on the lemma that a cost within the budget at `K` results is within it at fewer
(`WorstCase`), a nonlinear fact proved in steps. Three more invariants stand on this one. `TraceIsExact`: until a round is refused the trace charges every search that was
made (`TraceIsCharged`). `RoundsMatch` ties the rounds written so far to the shards contacted so far, one by one, with the
confidence after each (`RoundsReplayExpansion`), and from it `OmissionIsTrue` has the reason of each shard left out
(`SkipReasonsAreTrue`). `SpentInv` bounds what is spent by the sum of the first shards' worst cases; the
counterfactual is that sum over the whole ranking, a recursive function, so that `SavingsAreReal` takes an induction (below).

**FileLocks_proofs**, for any processes, sessions, names and TTL. `RecentWriteIsClaimed` is not
inductive alone: a claim about to be written must be the youngest of its name (`ClaimIsYoungest`), the
lock must stay at least as young as the claim of whoever is about to write, be it its own or
another's (`WriterIsClaimed`), and only so it is at least as young as that of the last write
(`WriteIsClaimed`). `OthersWritesAreWarnedOf` is an action property from the same invariant.

**AgentTurn_proofs**, for any number of workers, turns, calls and iterations, any tools and modes. `Shape` says what a turn looks
like in each of its phases: its messages follow one another (`Follows`), its last one is what the phase works on (`Phase`), and the usages
not yet written are those of its unwritten responses (`Owes`), whence `UsageIsItsOwn`. `Audit` relates the permissions log to the
workers: no call belongs to two (`Apart`), none is logged before its time (`Behind`) or twice (`Once`), what ran was permitted by its record (`Allowed`), and
a call past its check has the record for it (`Cleared`); `EscalationsNeedAHuman` and the refinement of `AuditedCalls`, step by step, follow.
`Pairing` is about appends nobody meets: either the log is mixed, or every call in it is followed by its result, the last line of
the log fits what its only writer is about to append, and nobody else is about to (`Conversations`, `Writings`, `Alone`). `Recording` follows a turn from the log into
the messages and back: while the log can be loaded, it has nothing of turns to come (`Begun`), of a turn under way it has what the worker has
appended, in order and once (`UnderWay`), and of one that is over and not lost it has the whole, and the memory the text it should (`Done`), which gives
`TurnsAreRecordedWhole` and `RemembersTheAnswer`.

**MemoryStore_proofs**, for any threads and processes, types, scopes and numbers of writes and stores. `Good` says of each thread which store it refers to
and how far its write has got: nowhere, waiting in a connection, or on record (`Refers`, `Found`, `Stage`). Threads write different
things (`Own`), rows of a file and of a transaction are of their key and each of a write of its own (`Filed`, `Waiting`), a
cache, a snapshot and the registry are of their store's key (`Cached`, `Snapshots`, `Registered`), and what was acknowledged or told was on record and of its
scope (`Recalled`). From this the scopes stay apart, acknowledged writes persist, and `ScopedMemory` is implemented step by step.
`OwnWritesAreRead` has the hypothesis that every process has one thread (`Single`), as a prompt or a REPL has and as
`memory_processes` checks it: among a server's threads it fails, see section 3. Its invariant, `Readers`, says that no two threads have a store in common (`Sole`), that a thread uses what
its process has registered (`Using`), and that what the process was told it had written is in the cache if there is one, in the snapshot if there
is one, and in what the thread has just read (`Fresh`, `Reading`).

**LuluServer_proofs**, for any threads, sessions, scopes, profiles, modes and keys. On the shape of requests, loops and files (`Shape`) rest: who is in the middle of saving
which key (`Saves`), for `KeysPersistUnlessMet`; that a loop belongs to one session (`Owned`) and what the turns that use it have set and read
of its scope (`Scoping`), for `SessionsDoNotMix` and `AloneTurnsKeepTheirScope`; that a session whose requests have not met has one
at a time, and a loop that is as it was last asked to be, but for what that one has half done (`Single`, `Tracked`), for `SessionsAreIndependent`; and that no two
requests make one profile unmet (`Apart`, `Profiled`), for `ProfilesKeepTheirPersona`.

**Judges_proofs**, for any threads and any judges. A search is under way with a judge that was made (`Underway`); undisturbed, it finds
the flag as its own call has left it (`FlagIsOwn`), and its verdict is what Jev's answer to it says or the geometric judge's on
its results (`VerdictIsOwn`). **ModelChain_proofs**, for any chain of models: the events received of a model are together,
in the order of the chain and text first, and only text of a stream outlives a model that has failed (`Received`); an answer ends
with the usage, after all its calls (`Phases`).

**Inspector_proofs**, for any sessions, modes and number of clicks. `TraceIsOfTheSession` holds with the mark of the turns that saw a switch (`Marked`). `HistoryCatchesUp` speaks of
states with nothing in flight; in every other one something in flight will make the display catch up (`CatchesUp`), for which a history
has at most one fetch (`OneFetch`) and requests are about sessions on record, of which one is on display unless it is still awaited or has failed to come (`Named`, `Mounted`), and
a session on its way is another than the one on display (`Elsewhere`). `ModeIsInForce`: a click on a mode is, in each phase of its request, going to be what is displayed and what is in force (`OneSetting`,
`ModeSent`, `ModeHolds`, `ModeAnswered`).

**Induction.** Where a fact is about a sum or a scan of a sequence, the proof takes the least number that breaks it, which the
well-foundedness of the naturals provides (`LeastNatural`, `Induction` in `AgentTurn_proofs`, and the same for the sums of `MemoryRouter_proofs`).
`LinesOf` and the counterfactual are recursive functions for that reason.

**Only model-checked.** The liveness properties `TurnsEnd` and `DeadSessionsBlockNothing`: fairness and ENABLED are beyond the prover.
`PromotionsAreEarned`, `SandboxIsSound`, `SandboxIsCanonical`, `GlobStaysInside` and `GrepStopsAtTheLimit`: comparisons of folds with what they
should compute, which TLC evaluates on bounded inputs.

## 5. Not modelled

- *Vectors, similarity, k-means and embeddings; the in-memory and partitioned stores*: floating point, which TLC does not have, and
  no state beyond a call. Whole numbers in their place would say nothing of the rounding that such code can get wrong. Which shards
  and results a search gets is any choice in MemoryRouter and MemoryStore.
- *The MCP connector*: one awaited call and a median; nothing in the harness builds such a shard, so there is no caller to model it from.
- *`ClaudeCLIJudge`*: nothing installs it; a judge answers anything in MemoryRouter.
- *The blast-radius patterns*: regular expressions over shell text. A command is flagged or not, freely.
- *Slash commands, rendering, parsing, the translation of messages to a provider's format, the cut of a command's output*: no
  state, and properties that a unit test settles.
- *The inspector's profile, scope, key and cost requests*: they behave as those that are modelled.
- *`read_file`*: one read.
- *Evals, Tauri, CI*: scripts run by hand, and a shell that starts and stops the server.

**Not checked.** That the inspector's error screen can be seen, which it cannot (section 3); that a search survives a
lost connection to Jev, which it does not. The models have both, and a property would only restate them.

## 6. Plan

Done, in this order: the router and its proofs, permissions, the locks and their proofs, the turn, the memory with its
abstract specification, the server, the judges, the model chain, promotions, the inspector; then profiles in the server, shell
commands, the remembered answer and the audit refinement in the turn, the sandbox, the fading of the loading screen.

Then the proofs: type correctness of every module, all safety properties, and both refinements.

Left, the most important first:

1. `PromotionsAreEarned` and `SandboxIsCanonical` for every input: inductions over the folds, for which these would have to become
   recursive functions.
2. A composition of `LuluServer`'s turns with `AgentTurn`'s session log, for two requests on one session.
3. What a server's threads do read of their own writes: a bound on how stale a shard's cache can be, in place of `Single`.
