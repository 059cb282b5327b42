------------------------------- MODULE MemoryStore --------------------------------
(***************************************************************************)
(* lulu's memory: MemoryStore (lulu/memory.py) over one SQLite file per    *)
(* shard type and scope (lulu_router/backends/sqlite.py), used by the      *)
(* threads of one lulu-server and by other lulu processes of the project.  *)
(*                                                                         *)
(* Between two statements of Python any other thread may run; a statement  *)
(* of SQL is one step.  A table is the sequence of its committed rows, so  *)
(* a snapshot is how many of them a connection sees.  Which shards a       *)
(* search contacts is MemoryRouter's business: here, any.                  *)
(***************************************************************************)
EXTENDS Naturals, SequencesExt

CONSTANTS
  Threads,
  ProcOf,     \* thread -> the process it belongs to
  Types,      \* the shard types, keys of shard_costs
  Scopes,     \* the scopes callers pass, None among them
  MaxWrites,  \* bound: the writes asked for
  MaxStores,  \* bound: the SQLiteShardStore objects alive at a time
  NoStore

ASSUME MemoryAssumption ==
  /\ MaxWrites \in Nat /\ MaxStores \in Nat
  /\ NoStore \notin 1..MaxStores

Procs == {ProcOf[t] : t \in Threads}
Keys == Types \X Scopes
Writes == 1..MaxWrites
Stores == 1..MaxStores

\* A cache is the set of the writes loaded, or this: no write is numbered 0.
NoCache == {0}

VARIABLES
  op,      \* what each thread is doing
  shards,  \* process -> _shards: key -> the store of its Shard object, or NoStore
  store,   \* the SQLiteShardStore objects: their connection and their cache
  table,   \* database file -> its committed rows, oldest first
  files,   \* the database files that exist
  asked,   \* history: the writes asked for, numbered; their process and key
  acked,   \* history: those that returned
  told     \* history: scope -> the writes its searches were answered with

vars == <<op, shards, store, table, files, asked, acked, told>>

\* Rows are named after the write that made them.  "open": a transaction has begun and
\* has read nothing; "read": it has a snapshot; "write": it has the write lock.
Row == [id : 0..MaxWrites, write : Writes]
Unused == [key |-> NoStore, tx |-> "none", seen |-> 0, pending |-> <<>>, cache |-> NoCache]

\* obj: the store in use.  left: for a search, the shards to touch and then the stores to
\* contact.  due: what had been written, and the
\* writers told so, when the search began.
Idle == [pc |-> "idle", kind |-> "search", key |-> NoStore, obj |-> NoStore, id |-> 0,
         write |-> 0, rows |-> {}, touch |-> {}, left |-> {}, got |-> {}, due |-> {}]

At(t, pc) == op[t].pc = pc
Set(t, record) == op' = [op EXCEPT ![t] = record]
Goto(t, pc) == Set(t, [op[t] EXCEPT !.pc = pc])

\* An exception leaves the call; the store stays as it is.
Fail(t) == Set(t, Idle)

\* Mutant of DbOf: the scope is not part of the file name.
DbOfType(key) == <<key[1], CHOOSE s \in Scopes : TRUE>>

\* _shard_db_path: a file per type and scope.
DbOf(key) == key

Db(o) == DbOf(store[o].key)
Conn(t) == store[op[t].obj]

\* Nobody refers to the object any more: its connection is closed, its transaction undone.
Live(o) == \/ \E p \in Procs, k \in Keys : shards[p][k] = o
           \/ \E t \in Threads : op[t].obj = o \/ o \in op[t].left

-----------------------------------------------------------------------------------
(* sqlite.py: a connection and its transaction.                            *)

\* The rows a statement of this connection sees, and the writes in them.
Visible(o) ==
  CASE store[o].tx = "read"  -> SubSeq(table[Db(o)], 1, store[o].seen)
    [] store[o].tx = "write" -> table[Db(o)] \o store[o].pending
    [] OTHER                 -> table[Db(o)]
Seen(o) == {row.write : row \in Range(Visible(o))}

\* A SELECT: inside an open transaction it takes the snapshot.
Selected(o) ==
  IF store[o].tx = "open"
    THEN store' = [store EXCEPT ![o].tx = "read", ![o].seen = Len(table[Db(o)])]
    ELSE UNCHANGED store

\* An INSERT needs the write lock, and a snapshot that is not out of date.
Locked(o) == \E q \in Stores \ {o} : Live(q) /\ store[q].tx = "write" /\ Db(q) = Db(o)
Outdated(o) == store[o].tx = "read" /\ store[o].seen < Len(table[Db(o)])
Busy(o) == store[o].tx # "write" /\ (Locked(o) \/ Outdated(o))

-----------------------------------------------------------------------------------
(* memory.py                                                               *)

Init ==
  /\ op = [t \in Threads |-> Idle]
  /\ shards = [p \in Procs |-> [k \in Keys |-> NoStore]]
  /\ store = [o \in Stores |-> Unused]
  /\ table = [k \in Keys |-> <<>>]
  /\ files = {}
  /\ asked = <<>>
  /\ acked = {}
  /\ told = [s \in Scopes |-> {}]

BeginWrite(t, key) ==
  /\ At(t, "idle")
  /\ Len(asked) < MaxWrites
  /\ asked' = Append(asked, [proc |-> ProcOf[t], key |-> key])
  /\ Set(t, [Idle EXCEPT !.pc = "shard", !.kind = "write", !.key = key, !.write = Len(asked) + 1])
  /\ UNCHANGED <<shards, store, table, files, acked, told>>

\* shards_for_scope: first the shards of this scope that have a file, one by one.
BeginSearch(t, scope) ==
  /\ At(t, "idle")
  /\ Set(t, [Idle EXCEPT !.pc = "touch", !.key = <<NoStore, scope>>, !.touch = Types, !.due = acked])
  /\ UNCHANGED <<shards, store, table, files, asked, acked, told>>

Touch(t, type) ==
  LET key == <<type, op[t].key[2]>> IN
  /\ At(t, "touch") /\ type \in op[t].touch
  /\ Set(t, [op[t] EXCEPT !.pc = IF DbOf(key) \in files THEN "shard" ELSE "touch",
                          !.key = key,
                          !.touch = @ \ {type}])
  /\ UNCHANGED <<shards, store, table, files, asked, acked, told>>

\* _shard(): the key is looked up, and returned or built.
Lookup(t) ==
  LET found == shards[ProcOf[t]][op[t].key] IN
  /\ At(t, "shard")
  /\ IF found = NoStore THEN Goto(t, "build")
     ELSE IF op[t].kind = "write" THEN Set(t, [op[t] EXCEPT !.pc = "count", !.obj = found])
     ELSE Set(t, [op[t] EXCEPT !.pc = "touch", !.obj = NoStore])
  /\ UNCHANGED <<shards, store, table, files, asked, acked, told>>

\* _build_store and the centroid: the file is made, the table read into the new cache.
Build(t) ==
  LET key == op[t].key
      o   == CHOOSE o \in Stores : ~Live(o)
  IN
  /\ At(t, "build")
  /\ \E q \in Stores : ~Live(q)
  /\ files' = files \cup {DbOf(key)}
  /\ store' = [store EXCEPT ![o] =
                 [Unused EXCEPT !.key = key,
                                !.cache = {row.write : row \in Range(table[DbOf(key)])}]]
  /\ Set(t, [op[t] EXCEPT !.pc = "install", !.obj = o])
  /\ UNCHANGED <<shards, table, asked, acked, told>>

\* self._shards[key] = Shard(...), whatever another thread put there meanwhile.
Install(t) ==
  /\ At(t, "install")
  /\ shards' = [shards EXCEPT ![ProcOf[t]][op[t].key] = op[t].obj]
  /\ Set(t, [op[t] EXCEPT !.pc = "shard", !.obj = NoStore])
  /\ UNCHANGED <<store, table, files, asked, acked, told>>

\* The list of the scope's shards.
Collect(t) ==
  LET scope == op[t].key[2] IN
  /\ At(t, "touch") /\ op[t].touch = {}
  /\ Set(t, [op[t] EXCEPT !.pc = "contact",
                          !.left = {shards[ProcOf[t]][<<y, scope>>] : y \in Types} \ {NoStore}])
  /\ UNCHANGED <<shards, store, table, files, asked, acked, told>>

\* "dictionary changed size during iteration": another thread installs a new key.
CollectRaises(t) ==
  /\ At(t, "touch") /\ op[t].touch = {}
  /\ \E u \in Threads : /\ ProcOf[u] = ProcOf[t] /\ At(u, "install")
                        /\ shards[ProcOf[u]][op[u].key] = NoStore
  /\ Fail(t)
  /\ UNCHANGED <<shards, store, table, files, asked, acked, told>>

\* write(): the new id is the number of rows.
Count(t) ==
  /\ At(t, "count")
  /\ Set(t, [op[t] EXCEPT !.pc = "insert", !.id = Len(Visible(op[t].obj))])
  /\ Selected(op[t].obj)
  /\ UNCHANGED <<shards, table, files, asked, acked, told>>

Clash(t) == \E row \in Range(Visible(op[t].obj)) : row.id = op[t].id

\* add(): the INSERT.  A transaction is begun if there is none.
Insert(t) ==
  /\ At(t, "insert") /\ ~Busy(op[t].obj) /\ ~Clash(t)
  /\ store' = [store EXCEPT ![op[t].obj] =
                 [Conn(t) EXCEPT !.tx = "write", !.seen = 0,
                                 !.pending = Append(@, [id |-> op[t].id, write |-> op[t].write])]]
  /\ Goto(t, "commit")
  /\ UNCHANGED <<shards, table, files, asked, acked, told>>

\* The id is taken: IntegrityError.  The transaction stays open, with the write lock.
InsertClashes(t) ==
  /\ At(t, "insert") /\ ~Busy(op[t].obj) /\ Clash(t)
  /\ store' = [store EXCEPT ![op[t].obj].tx = "write", ![op[t].obj].seen = 0]
  /\ Fail(t)
  /\ UNCHANGED <<shards, table, files, asked, acked, told>>

\* The lock is not to be had, in five seconds or, with an old snapshot, ever:
\* OperationalError.  The transaction stays open.
InsertBusy(t) ==
  /\ At(t, "insert") /\ Busy(op[t].obj)
  /\ store' = [store EXCEPT ![op[t].obj].tx = IF @ = "none" THEN "open" ELSE @]
  /\ Fail(t)
  /\ UNCHANGED <<shards, table, files, asked, acked, told>>

\* Mutant of Commit: the rows are not made durable.
CommitNothing(t) ==
  /\ At(t, "commit")
  /\ store' = [store EXCEPT ![op[t].obj] = [@ EXCEPT !.tx = "none", !.seen = 0, !.pending = <<>>]]
  /\ Goto(t, "invalidate")
  /\ UNCHANGED <<shards, table, files, asked, acked, told>>

\* add(): the commit, of all that the threads of the process have inserted.
Commit(t) ==
  /\ At(t, "commit")
  /\ table' = [table EXCEPT ![Db(op[t].obj)] = @ \o Conn(t).pending]
  /\ store' = [store EXCEPT ![op[t].obj] = [@ EXCEPT !.tx = "none", !.seen = 0, !.pending = <<>>]]
  /\ Goto(t, "invalidate")
  /\ UNCHANGED <<shards, files, asked, acked, told>>

\* Mutant of Invalidate: the cache is kept.
InvalidateNothing(t) ==
  /\ At(t, "invalidate")
  /\ Goto(t, "load")
  /\ UNCHANGED <<shards, store, table, files, asked, acked, told>>

\* add(): self._cache = None.  The centroid comes next, from _load().
Invalidate(t) ==
  /\ At(t, "invalidate")
  /\ store' = [store EXCEPT ![op[t].obj].cache = NoCache]
  /\ Goto(t, "load")
  /\ UNCHANGED <<shards, table, files, asked, acked, told>>

\* search(): the router asks one of the shards for its nearest rows.
Contact(t, o) ==
  /\ At(t, "contact") /\ o \in op[t].left
  /\ Set(t, [op[t] EXCEPT !.pc = "load", !.obj = o, !.left = @ \ {o}])
  /\ UNCHANGED <<shards, store, table, files, asked, acked, told>>

\* _load(): is there a cache?
Load(t) ==
  /\ At(t, "load")
  /\ Goto(t, IF Conn(t).cache # NoCache THEN "return" ELSE "select")
  /\ UNCHANGED <<shards, store, table, files, asked, acked, told>>

Select(t) ==
  /\ At(t, "select")
  /\ Set(t, [op[t] EXCEPT !.pc = "store", !.rows = Seen(op[t].obj)])
  /\ Selected(op[t].obj)
  /\ UNCHANGED <<shards, table, files, asked, acked, told>>

Store(t) ==
  /\ At(t, "store")
  /\ store' = [store EXCEPT ![op[t].obj].cache = op[t].rows]
  /\ Set(t, [op[t] EXCEPT !.pc = "return", !.rows = {}])
  /\ UNCHANGED <<shards, table, files, asked, acked, told>>

\* A write has its centroid, and returns; a search goes on to the next shard.
Proceed(t) ==
  \/ /\ op[t].kind = "write"
     /\ Set(t, Idle)
     /\ acked' = acked \cup {op[t].write}
  \/ /\ op[t].kind = "search"
     /\ Set(t, [op[t] EXCEPT !.pc = "contact", !.obj = NoStore, !.got = @ \cup Conn(t).cache])
     /\ UNCHANGED acked

\* Mutant of Return: a None is unpacked.
ReturnUnchecked(t) ==
  /\ At(t, "return")
  /\ Proceed(t)
  /\ UNCHANGED <<shards, store, table, files, asked, told>>

\* return self._cache: a None that another thread has put there meanwhile cannot be
\* unpacked.
Return(t) ==
  /\ At(t, "return")
  /\ IF Conn(t).cache = NoCache THEN Fail(t) /\ UNCHANGED acked ELSE Proceed(t)
  /\ UNCHANGED <<shards, store, table, files, asked, told>>

\* The router has asked all it wanted to ask.
Answer(t) ==
  /\ At(t, "contact")
  /\ told' = [told EXCEPT ![op[t].key[2]] = @ \cup op[t].got]
  /\ Set(t, Idle)
  /\ UNCHANGED <<shards, store, table, files, asked, acked>>

\* A process dies, and with it its objects and what they had not committed.
Crash(p) ==
  /\ op' = [t \in Threads |-> IF ProcOf[t] = p THEN Idle ELSE op[t]]
  /\ shards' = [shards EXCEPT ![p] = [k \in Keys |-> NoStore]]
  /\ store' = [o \in Stores |-> IF Live(o)' THEN store[o] ELSE Unused]
  /\ UNCHANGED <<table, files, asked, acked, told>>

Step(t) ==
  \/ \E key \in Keys : BeginWrite(t, key)
  \/ \E scope \in Scopes : BeginSearch(t, scope)
  \/ \E type \in Types : Touch(t, type)
  \/ Lookup(t)
  \/ Build(t)
  \/ Install(t)
  \/ Collect(t)
  \/ CollectRaises(t)
  \/ Count(t)
  \/ Insert(t)
  \/ InsertClashes(t)
  \/ InsertBusy(t)
  \/ Commit(t)
  \/ Invalidate(t)
  \/ \E o \in Stores : Contact(t, o)
  \/ Load(t)
  \/ Select(t)
  \/ Store(t)
  \/ Return(t)
  \/ Answer(t)

Next == (\E t \in Threads : Step(t)) \/ (\E p \in Procs : Crash(p))

Spec == Init /\ [][Next]_vars

-----------------------------------------------------------------------------------
(* Properties.                                                             *)

\* The calls, the registry, the connections and the tables have their shapes.
TypeOK ==
  /\ \A t \in Threads :
       /\ op[t].obj \in Stores \cup {NoStore} /\ op[t].left \subseteq Stores
       /\ op[t].id \in 0..MaxWrites /\ op[t].write \in 0..MaxWrites
       /\ op[t].rows \subseteq Writes /\ op[t].got \subseteq Writes
  /\ shards \in [Procs -> [Keys -> Stores \cup {NoStore}]]
  /\ store \in [Stores -> [key : Keys \cup {NoStore}, tx : {"none", "open", "read", "write"},
                           seen : 0..MaxWrites, pending : Seq(Row),
                           cache : (SUBSET Writes) \cup {NoCache}]]
  /\ table \in [Keys -> Seq(Row)] /\ files \subseteq Keys
  /\ asked \in Seq([proc : Procs, key : Keys]) /\ acked \subseteq DOMAIN asked
  /\ told \in [Scopes -> SUBSET Writes]

\* What was written under a scope, on record and at all.
AskedIn(s) == {w \in DOMAIN asked : asked[w].key[2] = s}
Recorded == {row.write : row \in UNION {Range(table[k]) : k \in Keys}}
KeptIn(s) == Recorded \cap AskedIn(s)

\* Every scope has shards of its own: nothing reaches a search, a cache or a file of one
\* scope that was written under another, whatever threads race to build the shards.
ScopesStayApart ==
  /\ \A s \in Scopes : told[s] \subseteq AskedIn(s)
  /\ \A t \in Threads : (At(t, "contact") \/ op[t].got # {}) => op[t].got \subseteq AskedIn(op[t].key[2])
  /\ \A k \in Keys : \A i \in DOMAIN table[k] : asked[table[k][i].write].key = k

\* write() returned: the row is in the file, once, whichever thread committed it and
\* whichever process dies.
AckedWritesPersist ==
  /\ acked \subseteq Recorded
  /\ \A k \in Keys : \A i, j \in DOMAIN table[k] : table[k][i].write = table[k][j].write => i = j

\* The cache is dropped by each write: a shard's answer has every write of its process that
\* had returned before the search began.  So it is in a process of one thread, which this is
\* checked for; a second thread may put back what it read before the write.
Answering(t) == At(t, "return") /\ op[t].kind = "search" /\ Conn(t).cache # NoCache
Due(t) == {w \in op[t].due : asked[w].key = Conn(t).key}
ReadYourWrites ==
  \A t \in Threads : Answering(t) =>
    {w \in Due(t) : asked[w].proc = ProcOf[t]} \subseteq Conn(t).cache

\* MemoryStore implements ScopedMemory.
Scoped == INSTANCE ScopedMemory WITH
  asked <- [s \in Scopes |-> AskedIn(s)],
  kept  <- [s \in Scopes |-> KeptIn(s)]
ImplementsScopedMemory == Scoped!Spec

==================================================================================
