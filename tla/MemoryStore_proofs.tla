---------------------------- MODULE MemoryStore_proofs ----------------------------
(***************************************************************************)
(* Theorems about MemoryStore, for any threads and processes, shard types, *)
(* scopes, writes and stores: scopes stay apart, an acknowledged write is  *)
(* on record for good and once, the whole keeps ScopedMemory's promises,   *)
(* and a process of one thread reads its own writes.                       *)
(***************************************************************************)
EXTENDS MemoryStore, FiniteSetTheorems, SequenceTheorems, TLAPS

-----------------------------------------------------------------------------------
(* The inductive invariant.                                                *)

Pcs == {"idle", "touch", "shard", "build", "install", "contact", "count", "insert", "commit",
        "invalidate", "load", "select", "store", "return"}

\* Where a call has a store in use, where a write has no row yet, and where it is on record.
Holding == {"install", "count", "insert", "commit", "invalidate", "load", "select", "store", "return"}
Before == {"shard", "build", "install", "count", "insert"}
After == {"invalidate", "load", "select", "store", "return"}

Named == Keys \cup ({NoStore} \X Scopes)

Doing == [pc : Pcs, kind : {"search", "write"}, key : Named \cup {NoStore},
          obj : Stores \cup {NoStore}, id : 0..MaxWrites, write : 0..MaxWrites,
          rows : SUBSET Writes, touch : SUBSET Types, left : SUBSET Stores,
          got : SUBSET Writes, due : SUBSET Writes]

Object == [key : Keys \cup {NoStore}, tx : {"none", "open", "read", "write"},
           seen : 0..MaxWrites, pending : Seq(Row), cache : (SUBSET Writes) \cup {NoCache}]

Typed ==
  /\ op \in [Threads -> Doing]
  /\ shards \in [Procs -> [Keys -> Stores \cup {NoStore}]]
  /\ store \in [Stores -> Object]
  /\ table \in [Keys -> Seq(Row)] /\ files \subseteq Keys
  /\ asked \in Seq([proc : Procs, key : Keys]) /\ Len(asked) <= MaxWrites
  /\ acked \subseteq DOMAIN asked
  /\ told \in [Scopes -> SUBSET Writes]

\* In what follows, st, tb and as are the stores, the tables and the writes asked for.

\* The write was asked for under the key.
Of(w, key, as) == w \in DOMAIN as /\ as[w].key = key

\* It is on record; it waits in a store for a commit.
InTable(w, tb) == \E k \in Keys : \E i \in DOMAIN tb[k] : tb[k][i].write = w
InStore(w, st, o) == \E i \in DOMAIN st[o].pending : st[o].pending[i].write = w

\* The stores a call refers to are of its scope, and of its key if it is about one.
Refers(d, st) ==
  /\ d.obj # NoStore => /\ st[d.obj].key \in Keys /\ st[d.obj].key[2] = d.key[2]
                        /\ d.kind = "write" \/ d.pc = "install" => st[d.obj].key = d.key
  /\ \A o \in d.left : st[o].key \in Keys /\ st[o].key[2] = d.key[2]

\* What a search has so far is of its scope, what it has just read of its store.
Found(d, st, as) ==
  /\ \A w \in d.got : w \in DOMAIN as /\ as[w].key[2] = d.key[2]
  /\ d.rows # {} => d.pc = "store" /\ \A w \in d.rows : Of(w, st[d.obj].key, as)

\* How far a write has got.
Stage(d, st, tb, as) ==
  d.kind = "write" =>
    /\ Of(d.write, d.key, as)
    /\ d.pc \in Before => ~InTable(d.write, tb) /\ \A o \in Stores : ~InStore(d.write, st, o)
    /\ d.pc = "commit" => InTable(d.write, tb) \/ InStore(d.write, st, d.obj)
    /\ d.pc \in After => InTable(d.write, tb)

\* What a call needs in each of its phases.
Phase(d) ==
  /\ d.pc = "idle" => d = Idle
  /\ d.pc # "idle" => d.key \in Named
  /\ d.pc \in {"shard", "build", "install"} => d.key \in Keys
  /\ d.pc \in Holding <=> d.obj # NoStore
  /\ d.pc \in {"touch", "contact"} => d.kind = "search"
  /\ d.pc \in {"count", "insert", "commit", "invalidate"} => d.kind = "write"

Good(d, st, tb, as) == Phase(d) /\ Refers(d, st) /\ Found(d, st, as) /\ Stage(d, st, tb, as)

\* Threads write different things.
Own ==
  \A t, u \in Threads :
    op[t].kind = "write" /\ op[u].kind = "write" /\ op[t].write = op[u].write => t = u

Registered == \A p \in Procs, k \in Keys : shards[p][k] # NoStore => store[shards[p][k]].key = k

\* The rows of a file are of its key, each is of a write of its own.
Filed ==
  \A k \in Keys : /\ \A i \in DOMAIN table[k] : Of(table[k][i].write, k, asked)
                  /\ \A i, j \in DOMAIN table[k] : table[k][i].write = table[k][j].write => i = j

\* So are those that wait, and they are not on record.
Waiting ==
  \A o \in Stores :
    /\ \A i \in DOMAIN store[o].pending : Of(store[o].pending[i].write, store[o].key, asked)
    /\ \A i, j \in DOMAIN store[o].pending :
         store[o].pending[i].write = store[o].pending[j].write => i = j
    /\ \A w \in Writes : InStore(w, store, o) =>
         ~InTable(w, table) /\ \A q \in Stores : InStore(w, store, q) => q = o

Cached ==
  \A o \in Stores : store[o].cache # NoCache => \A w \in store[o].cache : Of(w, store[o].key, asked)

Snapshots ==
  \A o \in Stores :
    store[o].tx = "read" => store[o].key \in Keys /\ store[o].seen <= Len(table[store[o].key])

Recalled == /\ \A w \in acked : InTable(w, table)
            /\ \A s \in Scopes : \A w \in told[s] : w \in DOMAIN asked /\ asked[w].key[2] = s

Inv == /\ Typed /\ (\A t \in Threads : Good(op[t], store, table, asked))
       /\ Own /\ Registered /\ Filed /\ Waiting /\ Cached /\ Snapshots /\ Recalled

-----------------------------------------------------------------------------------
(* Facts.                                                                  *)

LEMMA Elements ==
  ASSUME NEW S, NEW s \in Seq(S)
  PROVE  /\ Len(s) \in Nat /\ DOMAIN s = 1..Len(s)
         /\ \A i \in 1..Len(s) : s[i] \in S
BY ElementOfSeq

\* Appending, element by element.
LEMMA Added ==
  ASSUME NEW S, NEW s \in Seq(S), NEW e \in S
  PROVE  /\ Append(s, e) \in Seq(S)
         /\ Len(Append(s, e)) = Len(s) + 1 /\ DOMAIN Append(s, e) = 1..Len(s) + 1
         /\ \A i \in 1..Len(s) : Append(s, e)[i] = s[i]
         /\ Append(s, e)[Len(s) + 1] = e
OBVIOUS

\* Rows of different writes are not more than the writes.
LEMMA RowsAreFew ==
  ASSUME NEW s \in Seq(Row), \A i, j \in DOMAIN s : s[i].write = s[j].write => i = j
  PROVE  Len(s) <= MaxWrites
<1> DEFINE n == Len(s)
           f == [i \in 1..n |-> s[i].write]
<1>1. n \in Nat /\ DOMAIN s = 1..n /\ \A i \in 1..n : s[i] \in Row
  BY Elements
<1>2. MaxWrites \in Nat
  BY MemoryAssumption
<1>3. \A i \in 1..n : s[i].write \in 1..MaxWrites
  BY <1>1 DEF Row, Writes
<1>4. f \in [1..n -> 1..MaxWrites] /\ \A i \in 1..n : f[i] = s[i].write
  BY <1>3
<1>5. \A i, j \in 1..n : f[i] = f[j] => i = j
  BY <1>1, <1>4
<1>6. /\ IsFiniteSet(1..n) /\ IsFiniteSet(1..MaxWrites)
      /\ Cardinality(1..n) = (IF 1 > n THEN 0 ELSE n - 1 + 1)
      /\ Cardinality(1..MaxWrites) = (IF 1 > MaxWrites THEN 0 ELSE MaxWrites - 1 + 1)
  BY <1>1, <1>2, FS_Interval
<1> HIDE DEF n, f
<1>7. SUFFICES ASSUME n > MaxWrites PROVE FALSE
  BY <1>1, <1>2 DEF n
<1>8. Cardinality(1..MaxWrites) < Cardinality(1..n)
  BY <1>1, <1>2, <1>6, <1>7
<1>9. \E i, j \in 1..n : i # j /\ f[i] = f[j]
  <2> DEFINE S == 1..n
             T == 1..MaxWrites
  <2>1. IsFiniteSet(S) /\ IsFiniteSet(T) /\ Cardinality(T) < Cardinality(S) /\ f \in [S -> T]
    BY <1>4, <1>6, <1>8
  <2> HIDE DEF S, T
  <2>2. \E i, j \in S : i # j /\ f[i] = f[j]
    BY <2>1, FS_PigeonHole
  <2> QED BY <2>2 DEF S
<1> QED BY <1>5, <1>9

\* What a thread is doing, field by field.
LEMMA Fields ==
  ASSUME NEW d \in Doing
  PROVE  /\ d.pc \in Pcs /\ d.kind \in {"search", "write"} /\ d.key \in Named \cup {NoStore}
         /\ d.obj \in Stores \cup {NoStore} /\ d.id \in 0..MaxWrites /\ d.write \in 0..MaxWrites
         /\ d.rows \subseteq Writes /\ d.touch \subseteq Types /\ d.left \subseteq Stores
         /\ d.got \subseteq Writes /\ d.due \subseteq Writes
BY DEF Doing

LEMMA ObjectFields ==
  ASSUME NEW b \in Object
  PROVE  /\ b.key \in Keys \cup {NoStore} /\ b.tx \in {"none", "open", "read", "write"}
         /\ b.seen \in 0..MaxWrites /\ b.pending \in Seq(Row)
         /\ b.cache \in (SUBSET Writes) \cup {NoCache}
BY DEF Object

\* A thread between two calls.
LEMMA IdleIsGood ==
  ASSUME NEW st, NEW tb, NEW as
  PROVE  Idle \in Doing /\ Idle.pc = "idle" /\ Idle.kind = "search" /\ Good(Idle, st, tb, as)
<1>1. /\ Idle.pc = "idle" /\ Idle.kind = "search" /\ Idle.obj = NoStore /\ Idle.left = {}
      /\ Idle.got = {} /\ Idle.rows = {}
  BY DEF Idle
<1>2. Idle \in Doing
  BY MemoryAssumption DEF Idle, Doing, Pcs
<1> QED BY <1>1, <1>2 DEF Good, Phase, Refers, Found, Stage, Holding

\* A new object.
LEMMA UnusedIs ==
  /\ Unused \in Object /\ Unused.key = NoStore /\ Unused.tx = "none" /\ Unused.pending = <<>>
  /\ Unused.cache = NoCache
BY MemoryAssumption DEF Unused, Object

\* Something is as good as before for a thread that does not move, if its stores keep their keys,
\* nothing asked for or on record is gone, and its write stays where it is, or gets on record.
LEMMA GoodKept ==
  ASSUME NEW d \in Doing, NEW st, NEW tb, NEW as, Good(d, st, tb, as), NEW st2, NEW tb2, NEW as2,
         \A o \in Stores : o = d.obj \/ o \in d.left => st2[o].key = st[o].key,
         \A w \in DOMAIN as : w \in DOMAIN as2 /\ as2[w] = as[w],
         \A w : InTable(w, tb) => InTable(w, tb2),
         d.kind = "write" /\ d.pc \in Before =>
           ~InTable(d.write, tb2) /\ \A o \in Stores : ~InStore(d.write, st2, o),
         d.kind = "write" /\ d.pc = "commit" /\ InStore(d.write, st, d.obj) =>
           InTable(d.write, tb2) \/ InStore(d.write, st2, d.obj)
  PROVE  Good(d, st2, tb2, as2)
<1>1. Phase(d) /\ d.obj \in Stores \cup {NoStore} /\ d.left \subseteq Stores
  BY Fields DEF Good
<1>2. Refers(d, st2)
  BY <1>1 DEF Good, Refers
<1>3. \A w, k : Of(w, k, as) => Of(w, k, as2)
  BY DEF Of
<1>4. Found(d, st2, as2)
  <2>1. Found(d, st, as)
    BY DEF Good
  <2>2. \A w \in d.got : w \in DOMAIN as2 /\ as2[w].key[2] = d.key[2]
    BY <2>1 DEF Found
  <2>3. d.rows # {} => d.pc = "store" /\ \A w \in d.rows : Of(w, st2[d.obj].key, as2)
    <3>1. d.pc = "store" => d.obj \in Stores
      BY <1>1 DEF Phase, Holding
    <3> QED BY <1>3, <2>1, <3>1 DEF Found
  <2> QED BY <2>2, <2>3 DEF Found
<1>5. Stage(d, st2, tb2, as2)
  BY <1>3 DEF Good, Stage, Before, After
<1> QED BY <1>1, <1>2, <1>4, <1>5 DEF Good

-----------------------------------------------------------------------------------
(* Each step keeps the invariant.                                          *)

LEMMA OneThread ==
  ASSUME Typed, NEW t \in Threads, NEW n \in Doing, Set(t, n)
  PROVE  /\ op' \in [Threads -> Doing] /\ op'[t] = n
         /\ \A u \in Threads : u # t => op'[u] = op[u]
BY DEF Typed, Set

\* The stores keep their keys and the rows that wait: the other threads see no difference.
LEMMA Quiet ==
  ASSUME Inv, NEW t \in Threads, NEW n \in Doing, Set(t, n),
         n.kind = "write" => op[t].kind = "write" /\ n.write = op[t].write,
         UNCHANGED <<shards, table, asked>>,
         files' \subseteq Keys, acked' \subseteq DOMAIN asked, told' \in [Scopes -> SUBSET Writes],
         Recalled',
         store' \in [Stores -> Object],
         \A o \in Stores : store'[o].key = store[o].key /\ store'[o].pending = store[o].pending,
         Cached', Snapshots', Good(n, store', table, asked)
  PROVE  Inv'
<1>1. Typed'
  BY OneThread DEF Inv, Typed
<1>2. op'[t] = n /\ \A u \in Threads : u # t => op'[u] = op[u]
  BY OneThread DEF Inv
<1>3. \A w : \A o \in Stores : InStore(w, store', o) <=> InStore(w, store, o)
  BY DEF InStore
<1>4. \A u \in Threads : Good(op'[u], store', table', asked')
  <2> SUFFICES ASSUME NEW u \in Threads, u # t PROVE Good(op[u], store', table, asked)
    BY <1>2
  <2>1. op[u] \in Doing /\ Good(op[u], store, table, asked) /\ op[u].obj \in Stores \cup {NoStore}
    BY Fields DEF Inv, Typed
  <2>2. op[u].kind = "write" /\ op[u].pc \in Before =>
          ~InTable(op[u].write, table) /\ \A o \in Stores : ~InStore(op[u].write, store', o)
    BY <1>3, <2>1 DEF Good, Stage
  <2>3. op[u].pc = "commit" => op[u].obj \in Stores
    BY <2>1 DEF Good, Phase, Holding
  <2> QED BY <1>3, <2>1, <2>2, <2>3, GoodKept
<1>5. Own'
  BY <1>2 DEF Inv, Own
<1>6. Registered'
  BY DEF Inv, Typed, Registered
<1>7. Filed'
  BY DEF Inv, Filed
<1>8. Waiting'
  <2>1. Waiting
    BY DEF Inv
  <2> QED BY <1>3, <2>1 DEF Waiting
<1> QED BY <1>1, <1>4, <1>5, <1>6, <1>7, <1>8 DEF Inv

\* Only the thread moves.
LEMMA Steady ==
  ASSUME Inv, NEW t \in Threads, NEW n \in Doing, Set(t, n),
         n.kind = "write" => op[t].kind = "write" /\ n.write = op[t].write,
         UNCHANGED <<shards, store, table, files, asked, acked, told>>,
         Good(n, store, table, asked)
  PROVE  Inv'
<1>1. /\ files' \subseteq Keys /\ acked' \subseteq DOMAIN asked /\ told' \in [Scopes -> SUBSET Writes]
      /\ store' \in [Stores -> Object]
  BY DEF Inv, Typed
<1>2. Recalled' /\ Cached' /\ Snapshots'
  BY DEF Inv, Recalled, Cached, Snapshots
<1> QED BY <1>1, <1>2, Quiet

\* The rows a connection sees are few, and of its key.
LEMMA VisibleIs ==
  ASSUME Inv, NEW o \in Stores, store[o].key \in Keys
  PROVE  /\ Visible(o) \in Seq(Row) /\ Len(Visible(o)) \in 0..MaxWrites
         /\ \A w \in Seen(o) : w \in Writes /\ Of(w, store[o].key, asked)
<1> DEFINE s == table[store[o].key]
           p == store[o].pending
           n == store[o].seen
           Fine(r) == /\ r \in Seq(Row) /\ Len(r) <= MaxWrites
                      /\ \A i \in 1..Len(r) : Of(r[i].write, store[o].key, asked)
<1>1. /\ s \in Seq(Row) /\ p \in Seq(Row) /\ n \in 0..MaxWrites /\ MaxWrites \in Nat
      /\ store[o].tx \in {"none", "open", "read", "write"} /\ Db(o) = store[o].key
  BY ObjectFields, MemoryAssumption DEF Inv, Typed, Db, DbOf
<1>2. /\ \A i \in DOMAIN s : Of(s[i].write, store[o].key, asked)
      /\ \A i, j \in DOMAIN s : s[i].write = s[j].write => i = j
  BY DEF Inv, Filed
<1>3. /\ \A i \in DOMAIN p : Of(p[i].write, store[o].key, asked)
      /\ \A i, j \in DOMAIN p : p[i].write = p[j].write => i = j
  BY DEF Inv, Waiting
<1>4. /\ Len(s) \in Nat /\ DOMAIN s = 1..Len(s) /\ \A i \in 1..Len(s) : s[i] \in Row
      /\ Len(p) \in Nat /\ DOMAIN p = 1..Len(p) /\ \A i \in 1..Len(p) : p[i] \in Row
  BY <1>1, Elements
<1>5. \A i \in DOMAIN s, j \in DOMAIN p : s[i].write # p[j].write
  <2> SUFFICES ASSUME NEW i \in DOMAIN s, NEW j \in DOMAIN p, s[i].write = p[j].write PROVE FALSE
    OBVIOUS
  <2>1. p[j].write \in Writes
    BY <1>4 DEF Row
  <2>2. InStore(p[j].write, store, o)
    BY DEF InStore
  <2>3. InTable(p[j].write, table)
    BY DEF InTable
  <2> QED BY <2>1, <2>2, <2>3 DEF Inv, Waiting
<1>6. Fine(s)
  BY <1>1, <1>2, <1>4, RowsAreFew
<1>7. ASSUME store[o].tx = "read" PROVE Fine(SubSeq(s, 1, n))
  <2>1. n \in Nat /\ n <= Len(s)
    BY <1>1, <1>7 DEF Inv, Snapshots
  <2>2. \A i \in 1..n : i \in 1..Len(s) /\ s[i] \in Row
    BY <1>4, <2>1
  <2>3. /\ SubSeq(s, 1, n) \in Seq(Row) /\ Len(SubSeq(s, 1, n)) = n
        /\ \A i \in 1..n : SubSeq(s, 1, n)[i] = s[i]
    BY <1>1, <1>4, <2>1, <2>2, SubSeqProperties
  <2>4. n <= MaxWrites
    BY <1>1
  <2> HIDE DEF s, n
  <2> QED BY <1>2, <1>4, <2>2, <2>3, <2>4
<1>8. Fine(s \o p)
  <2> DEFINE r == s \o p
             a == Len(s)
             b == Len(p)
  <2>1. r \in Seq(Row) /\ a \in Nat /\ b \in Nat /\ Len(r) = a + b /\ DOMAIN r = 1..a + b
    BY <1>1, <1>4, ConcatProperties
  <2>2. \A i \in 1..a + b : r[i] = IF i <= a THEN s[i] ELSE p[i - a]
    BY <1>1, <1>4, ConcatProperties
  <2>3. DOMAIN s = 1..a /\ DOMAIN p = 1..b
    BY <1>4
  <2> HIDE DEF s, p, r, a, b
  <2>4. \A i \in 1..a + b : IF i <= a THEN i \in 1..a /\ r[i] = s[i]
                                       ELSE i - a \in 1..b /\ r[i] = p[i - a]
    BY <2>1, <2>2
  <2>5. \A i \in 1..a + b : Of(r[i].write, store[o].key, asked)
    BY <1>2, <1>3, <2>3, <2>4
  <2>6. \A i, j \in DOMAIN r : r[i].write = r[j].write => i = j
    <3> SUFFICES ASSUME NEW i \in 1..a + b, NEW j \in 1..a + b, r[i].write = r[j].write
                 PROVE  i = j
      BY <2>1
    <3>1. CASE i <= a /\ j <= a
      BY <1>2, <2>3, <2>4, <3>1
    <3>2. CASE ~(i <= a) /\ ~(j <= a)
      <4>1. i - a = j - a
        BY <1>3, <2>3, <2>4, <3>2
      <4> QED BY <2>1, <4>1
    <3>3. CASE i <= a /\ ~(j <= a)
      BY <1>5, <2>3, <2>4, <3>3
    <3>4. CASE ~(i <= a) /\ j <= a
      BY <1>5, <2>3, <2>4, <3>4
    <3> QED BY <3>1, <3>2, <3>3, <3>4
  <2>7. Len(r) <= MaxWrites
    BY <2>1, <2>6, RowsAreFew
  <2>8. Len(r) = a + b
    BY <2>1
  <2>9. Fine(r)
    BY <2>1, <2>5, <2>7, <2>8
  <2> QED BY <2>9 DEF r
<1>9. Fine(Visible(o))
  <2>1. Visible(o) = CASE store[o].tx = "read" -> SubSeq(s, 1, n)
                       [] store[o].tx = "write" -> s \o p
                       [] OTHER -> s
    BY <1>1 DEF Visible
  <2>2. (Visible(o) = SubSeq(s, 1, n) /\ store[o].tx = "read") \/ Visible(o) = s \o p \/ Visible(o) = s
    BY <2>1
  <2> HIDE DEF Fine, s, p, n
  <2>3. CASE Visible(o) = SubSeq(s, 1, n) /\ store[o].tx = "read"
    BY <1>7, <2>3
  <2>4. CASE Visible(o) = s \o p
    BY <1>8, <2>4
  <2>5. CASE Visible(o) = s
    BY <1>6, <2>5
  <2> QED BY <2>2, <2>3, <2>4, <2>5
<1>10. Len(Visible(o)) \in Nat /\ DOMAIN Visible(o) = 1..Len(Visible(o))
       /\ \A i \in 1..Len(Visible(o)) : Visible(o)[i] \in Row
  BY <1>9, Elements
<1>11. \A w \in Seen(o) : \E i \in 1..Len(Visible(o)) : w = Visible(o)[i].write
  BY <1>10 DEF Seen, Range
<1>12. \A i \in 1..Len(Visible(o)) : Visible(o)[i].write \in Writes
  BY <1>10 DEF Row
<1>13. Len(Visible(o)) \in 0..MaxWrites
  BY <1>1, <1>9, <1>10
<1> QED BY <1>9, <1>11, <1>12, <1>13

\* What the invariant says of a thread.
LEMMA Here ==
  ASSUME Inv, NEW t \in Threads
  PROVE  /\ op[t] \in Doing /\ Phase(op[t]) /\ Refers(op[t], store)
         /\ Found(op[t], store, asked) /\ Stage(op[t], store, table, asked)
         /\ op[t].obj \in Stores \cup {NoStore} /\ op[t].left \subseteq Stores
         /\ op[t].key \in Named \cup {NoStore} /\ op[t].kind \in {"search", "write"}
BY Fields DEF Inv, Typed, Good

\* Keys and what a search has of one, its scope.
LEMMA KeysAre ==
  /\ \A y \in Types, s \in Scopes : <<y, s>> \in Keys /\ <<y, s>>[2] = s
  /\ \A k \in Named : k[2] \in Scopes
  /\ \A s \in Scopes : <<NoStore, s>> \in Named /\ <<NoStore, s>>[2] = s
  /\ Keys \subseteq Named
BY DEF Named, Keys

LEMMA NoStoreIsNone == NoStore \notin Stores
BY MemoryAssumption DEF Stores

LEMMA BeginSearchKeeps ==
  ASSUME Inv, NEW t \in Threads, NEW scope \in Scopes, BeginSearch(t, scope)
  PROVE  Inv'
<1> DEFINE n == [Idle EXCEPT !.pc = "touch", !.key = <<NoStore, scope>>, !.touch = Types,
                             !.due = acked]
<1>1. Set(t, n) /\ UNCHANGED <<shards, store, table, files, asked, acked, told>>
  BY DEF BeginSearch
<1>2. acked \subseteq Writes
  <2>1. asked \in Seq([proc : Procs, key : Keys]) /\ Len(asked) <= MaxWrites
        /\ acked \subseteq DOMAIN asked /\ MaxWrites \in Nat
    BY MemoryAssumption DEF Inv, Typed
  <2>2. DOMAIN asked = 1..Len(asked) /\ Len(asked) \in Nat
    BY <2>1, Elements
  <2> QED BY <2>1, <2>2 DEF Writes
<1>3. /\ n.pc = "touch" /\ n.kind = "search" /\ n.key = <<NoStore, scope>> /\ n.obj = NoStore
      /\ n.rows = {} /\ n.left = {} /\ n.got = {}
  BY DEF Idle
<1>4. n \in Doing
  BY <1>2, KeysAre, IdleIsGood DEF Doing, Pcs
<1> HIDE DEF n
<1>5. Good(n, store, table, asked)
  BY <1>3, KeysAre DEF Good, Phase, Refers, Found, Stage, Holding
<1> QED BY <1>1, <1>3, <1>4, <1>5, Steady

LEMMA TouchKeeps ==
  ASSUME Inv, NEW t \in Threads, NEW type \in Types, Touch(t, type)
  PROVE  Inv'
<1> DEFINE d == op[t]
           k == <<type, d.key[2]>>
           n == [d EXCEPT !.pc = IF DbOf(k) \in files THEN "shard" ELSE "touch",
                          !.key = k, !.touch = @ \ {type}]
<1>1. Set(t, n) /\ UNCHANGED <<shards, store, table, files, asked, acked, told>> /\ d.pc = "touch"
  BY DEF Touch, At
<1>2. /\ d \in Doing /\ Phase(d) /\ Refers(d, store) /\ Found(d, store, asked)
      /\ d.kind = "search" /\ d.obj = NoStore /\ d.rows = {} /\ d.key \in Named
  BY <1>1, Here DEF Phase, Found, Holding
<1>3. k \in Keys /\ k \in Named /\ k[2] = d.key[2]
  BY <1>2, KeysAre
<1>4. n \in Doing
  BY <1>2, <1>3 DEF Doing, Pcs
<1>5. /\ n.pc \in {"shard", "touch"} /\ n.kind = "search" /\ n.key = k /\ n.obj = NoStore
      /\ n.rows = {} /\ n.left = d.left /\ n.got = d.got
  BY <1>2 DEF Doing
<1> HIDE DEF n, k, d
<1>6. Good(n, store, table, asked)
  BY <1>2, <1>3, <1>5, KeysAre DEF Good, Phase, Refers, Found, Stage, Holding
<1> QED BY <1>1, <1>4, <1>5, <1>6, Steady

LEMMA LookupKeeps ==
  ASSUME Inv, NEW t \in Threads, Lookup(t)
  PROVE  Inv'
<1> DEFINE d == op[t]
           found == shards[ProcOf[t]][d.key]
<1>1. UNCHANGED <<shards, store, table, files, asked, acked, told>> /\ d.pc = "shard"
  BY DEF Lookup, At
<1>2. /\ d \in Doing /\ Phase(d) /\ Refers(d, store) /\ Found(d, store, asked)
      /\ Stage(d, store, table, asked)
      /\ d.obj = NoStore /\ d.rows = {} /\ d.key \in Keys /\ d.key \in Named
      /\ d.kind \in {"search", "write"} /\ d.obj \in Stores \cup {NoStore}
  BY <1>1, Here, KeysAre DEF Phase, Found, Holding
<1>3. found \in Stores \cup {NoStore} /\ (found # NoStore => store[found].key = d.key)
  BY <1>2 DEF Inv, Typed, Registered, Procs
<1>4. CASE found = NoStore
  <2> DEFINE n == [d EXCEPT !.pc = "build"]
  <2>1. Set(t, n)
    BY <1>4 DEF Lookup, Goto
  <2>2. n \in Doing
    BY <1>2 DEF Doing, Pcs
  <2>3. /\ n.pc = "build" /\ n.kind = d.kind /\ n.key = d.key /\ n.obj = NoStore
        /\ n.rows = {} /\ n.left = d.left /\ n.got = d.got /\ n.write = d.write
    BY <1>2 DEF Doing
  <2> HIDE DEF n, d
  <2>4. Good(n, store, table, asked)
    BY <1>1, <1>2, <2>3 DEF Good, Phase, Refers, Found, Stage, Holding, Before, After
  <2> QED BY <1>1, <2>1, <2>2, <2>3, <2>4, Steady DEF d
<1>5. CASE found # NoStore /\ d.kind = "write"
  <2> DEFINE n == [d EXCEPT !.pc = "count", !.obj = found]
  <2>1. Set(t, n)
    BY <1>5 DEF Lookup
  <2>2. n \in Doing
    BY <1>2, <1>3 DEF Doing, Pcs
  <2>3. /\ n.pc = "count" /\ n.kind = "write" /\ n.key = d.key /\ n.obj = found
        /\ n.rows = {} /\ n.left = d.left /\ n.got = d.got /\ n.write = d.write
    BY <1>2, <1>5 DEF Doing
  <2> HIDE DEF n, d, found
  <2>4. Good(n, store, table, asked)
    BY <1>1, <1>2, <1>3, <1>5, <2>3 DEF Good, Phase, Refers, Found, Stage, Holding, Before, After
  <2> QED BY <1>1, <1>5, <2>1, <2>2, <2>3, <2>4, Steady DEF d
<1>6. CASE found # NoStore /\ d.kind = "search"
  <2> DEFINE n == [d EXCEPT !.pc = "touch", !.obj = NoStore]
  <2>1. Set(t, n)
    BY <1>6 DEF Lookup
  <2>2. n \in Doing
    BY <1>2, <1>3 DEF Doing, Pcs
  <2>3. /\ n.pc = "touch" /\ n.kind = "search" /\ n.key = d.key /\ n.obj = NoStore
        /\ n.rows = {} /\ n.left = d.left /\ n.got = d.got
    BY <1>2, <1>6 DEF Doing
  <2> HIDE DEF n, d, found
  <2>4. Good(n, store, table, asked)
    BY <1>1, <1>2, <2>3 DEF Good, Phase, Refers, Found, Stage, Holding
  <2> QED BY <1>1, <2>1, <2>2, <2>3, <2>4, Steady DEF d
<1> QED BY <1>2, <1>4, <1>5, <1>6

LEMMA CollectKeeps ==
  ASSUME Inv, NEW t \in Threads, Collect(t)
  PROVE  Inv'
<1> DEFINE d == op[t]
           s == d.key[2]
           mine == {shards[ProcOf[t]][<<y, s>>] : y \in Types} \ {NoStore}
           n == [d EXCEPT !.pc = "contact", !.left = mine]
<1>1. Set(t, n) /\ UNCHANGED <<shards, store, table, files, asked, acked, told>> /\ d.pc = "touch"
  BY DEF Collect, At
<1>2. /\ d \in Doing /\ Phase(d) /\ Refers(d, store) /\ Found(d, store, asked)
      /\ d.kind = "search" /\ d.obj = NoStore /\ d.rows = {} /\ d.key \in Named
  BY <1>1, Here DEF Phase, Found, Holding
<1>3. \A y \in Types : <<y, s>> \in Keys /\ <<y, s>>[2] = s
  BY <1>2, KeysAre
<1>4. \A o \in mine : o \in Stores /\ store[o].key \in Keys /\ store[o].key[2] = s
  <2> SUFFICES ASSUME NEW o \in mine
               PROVE  o \in Stores /\ store[o].key \in Keys /\ store[o].key[2] = s
    OBVIOUS
  <2>1. PICK y \in Types : o = shards[ProcOf[t]][<<y, s>>]
    OBVIOUS
  <2>2. <<y, s>> \in Keys /\ <<y, s>>[2] = s /\ o # NoStore /\ ProcOf[t] \in Procs
    BY <1>3 DEF Procs
  <2> DEFINE k == <<y, s>>
             p == ProcOf[t]
  <2>3. k \in Keys /\ k[2] = s /\ o = shards[p][k] /\ p \in Procs
    BY <2>1, <2>2
  <2> HIDE DEF k, p, s
  <2> QED BY <2>2, <2>3 DEF Inv, Typed, Registered
<1> HIDE DEF mine
<1>5. n \in Doing
  BY <1>2, <1>4 DEF Doing, Pcs
<1>6. /\ n.pc = "contact" /\ n.kind = "search" /\ n.key = d.key /\ n.obj = NoStore
      /\ n.rows = {} /\ n.left = mine /\ n.got = d.got
  BY <1>2 DEF Doing
<1> HIDE DEF n, d
<1>7. Good(n, store, table, asked)
  BY <1>2, <1>4, <1>6 DEF Good, Phase, Refers, Found, Stage, Holding
<1> QED BY <1>1, <1>5, <1>6, <1>7, Steady

LEMMA CollectRaisesKeeps ==
  ASSUME Inv, NEW t \in Threads, CollectRaises(t)
  PROVE  Inv'
<1>1. Set(t, Idle) /\ UNCHANGED <<shards, store, table, files, asked, acked, told>>
  BY DEF CollectRaises, Fail
<1> QED BY <1>1, IdleIsGood, Steady

LEMMA ContactKeeps ==
  ASSUME Inv, NEW t \in Threads, NEW o \in Stores, Contact(t, o)
  PROVE  Inv'
<1> DEFINE d == op[t]
           n == [d EXCEPT !.pc = "load", !.obj = o, !.left = @ \ {o}]
<1>1. /\ Set(t, n) /\ UNCHANGED <<shards, store, table, files, asked, acked, told>>
      /\ d.pc = "contact" /\ o \in d.left
  BY DEF Contact, At
<1>2. /\ d \in Doing /\ Phase(d) /\ Refers(d, store) /\ Found(d, store, asked)
      /\ d.kind = "search" /\ d.rows = {} /\ d.key \in Named
  BY <1>1, Here DEF Phase, Found, Holding
<1>3. n \in Doing
  BY <1>2 DEF Doing, Pcs
<1>4. /\ n.pc = "load" /\ n.kind = "search" /\ n.key = d.key /\ n.obj = o
      /\ n.rows = {} /\ n.left = d.left \ {o} /\ n.got = d.got
  BY <1>2 DEF Doing
<1> HIDE DEF n, d
<1>5. Good(n, store, table, asked)
  BY <1>1, <1>2, <1>4, NoStoreIsNone DEF Good, Phase, Refers, Found, Stage, Holding
<1> QED BY <1>1, <1>3, <1>4, <1>5, Steady

LEMMA LoadKeeps ==
  ASSUME Inv, NEW t \in Threads, Load(t)
  PROVE  Inv'
<1> DEFINE d == op[t]
           n == [d EXCEPT !.pc = IF Conn(t).cache # NoCache THEN "return" ELSE "select"]
<1>1. /\ Set(t, n) /\ UNCHANGED <<shards, store, table, files, asked, acked, told>>
      /\ d.pc = "load"
  BY DEF Load, At, Goto
<1>2. /\ d \in Doing /\ Phase(d) /\ Refers(d, store) /\ Found(d, store, asked)
      /\ Stage(d, store, table, asked) /\ d.obj # NoStore /\ d.key \in Named
  BY <1>1, Here DEF Phase, Found, Holding
<1>3. n \in Doing
  BY <1>2 DEF Doing, Pcs
<1>4. /\ n.pc \in {"return", "select"} /\ n.kind = d.kind /\ n.key = d.key /\ n.obj = d.obj
      /\ n.rows = d.rows /\ n.left = d.left /\ n.got = d.got /\ n.write = d.write
  BY <1>2 DEF Doing
<1> HIDE DEF n, d
<1>5. Phase(n)
  BY <1>1, <1>2, <1>4 DEF Phase, Holding
<1>6. Refers(n, store) /\ Found(n, store, asked)
  BY <1>1, <1>2, <1>4 DEF Refers, Found
<1>7. Stage(n, store, table, asked)
  BY <1>1, <1>2, <1>4 DEF Stage, Before, After
<1>8. Good(n, store, table, asked)
  BY <1>5, <1>6, <1>7 DEF Good
<1> QED BY <1>1, <1>3, <1>4, <1>8, Steady DEF d

\* The thread moves, and its store changes its transaction or its cache.
LEMMA Altered ==
  ASSUME Inv, NEW t \in Threads, NEW n \in Doing, Set(t, n), NEW o \in Stores, NEW b \in Object,
         n.kind = "write" => op[t].kind = "write" /\ n.write = op[t].write,
         store' = [store EXCEPT ![o] = b], b.key = store[o].key, b.pending = store[o].pending,
         b.cache # NoCache => \A w \in b.cache : Of(w, b.key, asked),
         b.tx = "read" => b.key \in Keys /\ b.seen <= Len(table[b.key]),
         UNCHANGED <<shards, table, files, asked, acked, told>>,
         Good(n, store, table, asked)
  PROVE  Inv'
<1>1. /\ files' \subseteq Keys /\ acked' \subseteq DOMAIN asked /\ told' \in [Scopes -> SUBSET Writes]
      /\ store \in [Stores -> Object]
  BY DEF Inv, Typed
<1>2. /\ store' \in [Stores -> Object] /\ store'[o] = b
      /\ \A q \in Stores : q # o => store'[q] = store[q]
  BY <1>1
<1>3. \A q \in Stores : store'[q].key = store[q].key /\ store'[q].pending = store[q].pending
  BY <1>2
<1>4. Recalled'
  BY DEF Inv, Recalled
<1>5. Cached'
  <2> SUFFICES ASSUME NEW q \in Stores, store'[q].cache # NoCache
               PROVE  \A w \in store'[q].cache : Of(w, store'[q].key, asked)
    BY DEF Cached
  <2> QED BY <1>2 DEF Inv, Cached
<1>6. Snapshots'
  <2> SUFFICES ASSUME NEW q \in Stores, store'[q].tx = "read"
               PROVE  store'[q].key \in Keys /\ store'[q].seen <= Len(table[store'[q].key])
    BY DEF Snapshots
  <2> QED BY <1>2 DEF Inv, Snapshots
<1>7. Good(n, store', table, asked)
  <2>1. \A w : \A q \in Stores : InStore(w, store', q) <=> InStore(w, store, q)
    BY <1>3 DEF InStore
  <2>2. n.obj \in Stores \cup {NoStore} /\ n.left \subseteq Stores
    BY Fields
  <2>3. n.kind = "write" /\ n.pc \in Before =>
          ~InTable(n.write, table) /\ \A q \in Stores : ~InStore(n.write, store', q)
    BY <2>1 DEF Good, Stage
  <2>4. n.pc = "commit" => n.obj \in Stores
    BY <2>2 DEF Good, Phase, Holding
  <2> QED BY <1>3, <2>1, <2>2, <2>3, <2>4, GoodKept
<1> QED BY <1>1, <1>2, <1>3, <1>4, <1>5, <1>6, <1>7, Quiet

\* A SELECT takes at most a snapshot.
LEMMA SelectedIs ==
  ASSUME Inv, NEW t \in Threads, NEW n \in Doing, Set(t, n), NEW o \in Stores, Selected(o),
         n.kind = "write" => op[t].kind = "write" /\ n.write = op[t].write,
         store[o].key \in Keys,
         UNCHANGED <<shards, table, files, asked, acked, told>>,
         Good(n, store, table, asked)
  PROVE  Inv'
<1> DEFINE k == store[o].key
           b == [store[o] EXCEPT !.tx = "read", !.seen = Len(table[k])]
<1>1. store[o] \in Object /\ Db(o) = k /\ store \in [Stores -> Object]
  BY DEF Inv, Typed, Db, DbOf
<1>2. CASE store[o].tx = "open"
  <2>1. Len(table[k]) \in 0..MaxWrites
    <3>1. /\ table[k] \in Seq(Row)
          /\ \A i, j \in DOMAIN table[k] : table[k][i].write = table[k][j].write => i = j
      BY DEF Inv, Typed, Filed
    <3>2. Len(table[k]) <= MaxWrites /\ Len(table[k]) \in Nat /\ MaxWrites \in Nat
      BY <3>1, RowsAreFew, Elements, MemoryAssumption
    <3> QED BY <3>2
  <2>2. b \in Object /\ b.key = k /\ b.pending = store[o].pending /\ b.cache = store[o].cache
        /\ b.seen = Len(table[k])
    BY <1>1, <2>1 DEF Object
  <2>3. store' = [store EXCEPT ![o] = b]
    BY <1>1, <1>2 DEF Selected
  <2>4. b.cache # NoCache => \A w \in b.cache : Of(w, b.key, asked)
    BY <2>2 DEF Inv, Cached
  <2>5. b.seen <= Len(table[k]) 
    BY <2>1, <2>2
  <2> HIDE DEF b
  <2> QED BY <2>2, <2>3, <2>4, <2>5, Altered
<1>3. CASE store[o].tx # "open"
  <2>1. UNCHANGED store
    BY <1>3 DEF Selected
  <2> QED BY <2>1, Steady
<1> QED BY <1>2, <1>3

LEMMA CountKeeps ==
  ASSUME Inv, NEW t \in Threads, Count(t)
  PROVE  Inv'
<1> DEFINE d == op[t]
           o == d.obj
           n == [d EXCEPT !.pc = "insert", !.id = Len(Visible(o))]
<1>1. /\ Set(t, n) /\ Selected(o) /\ UNCHANGED <<shards, table, files, asked, acked, told>>
      /\ d.pc = "count"
  BY DEF Count, At
<1>2. /\ d \in Doing /\ Phase(d) /\ Refers(d, store) /\ Found(d, store, asked)
      /\ Stage(d, store, table, asked) /\ o \in Stores /\ d.key \in Named
      /\ d.kind = "write"
  BY <1>1, Here DEF Phase, Found, Holding
<1>3. store[o].key \in Keys
  BY <1>2, NoStoreIsNone DEF Refers
<1>4. Len(Visible(o)) \in 0..MaxWrites
  BY <1>2, <1>3, VisibleIs
<1>5. n \in Doing
  BY <1>2, <1>4 DEF Doing, Pcs
<1>6. /\ n.pc = "insert" /\ n.kind = d.kind /\ n.key = d.key /\ n.obj = o
      /\ n.rows = d.rows /\ n.left = d.left /\ n.got = d.got /\ n.write = d.write
  BY <1>2 DEF Doing
<1> HIDE DEF n
<1>7. Phase(n)
  BY <1>1, <1>2, <1>6, NoStoreIsNone DEF Phase, Holding
<1>8. Refers(n, store) /\ Found(n, store, asked)
  BY <1>1, <1>2, <1>6 DEF Refers, Found
<1>9. Stage(n, store, table, asked)
  BY <1>1, <1>2, <1>6 DEF Stage, Before, After
<1>10. Good(n, store, table, asked)
  BY <1>7, <1>8, <1>9 DEF Good
<1> HIDE DEF o
<1> QED BY <1>1, <1>2, <1>3, <1>5, <1>6, <1>10, SelectedIs

LEMMA SelectKeeps ==
  ASSUME Inv, NEW t \in Threads, Select(t)
  PROVE  Inv'
<1> DEFINE d == op[t]
           o == d.obj
           n == [d EXCEPT !.pc = "store", !.rows = Seen(o)]
<1>1. /\ Set(t, n) /\ Selected(o) /\ UNCHANGED <<shards, table, files, asked, acked, told>>
      /\ d.pc = "select"
  BY DEF Select, At
<1>2. /\ d \in Doing /\ Phase(d) /\ Refers(d, store) /\ Found(d, store, asked)
      /\ Stage(d, store, table, asked) /\ o \in Stores /\ d.key \in Named
  BY <1>1, Here DEF Phase, Found, Holding
<1>3. store[o].key \in Keys
  BY <1>2, NoStoreIsNone DEF Refers
<1>4. \A w \in Seen(o) : w \in Writes /\ Of(w, store[o].key, asked)
  BY <1>2, <1>3, VisibleIs
<1>5. n \in Doing
  BY <1>2, <1>4 DEF Doing, Pcs
<1>6. /\ n.pc = "store" /\ n.kind = d.kind /\ n.key = d.key /\ n.obj = o
      /\ n.rows = Seen(o) /\ n.left = d.left /\ n.got = d.got /\ n.write = d.write
  BY <1>2 DEF Doing
<1> HIDE DEF n
<1>7. Phase(n)
  BY <1>1, <1>2, <1>6, NoStoreIsNone DEF Phase, Holding
<1>8. Refers(n, store)
  BY <1>1, <1>2, <1>6 DEF Refers
<1>9. Found(n, store, asked)
  BY <1>2, <1>4, <1>6, NoStoreIsNone DEF Found
<1>10. Stage(n, store, table, asked)
  BY <1>1, <1>2, <1>6 DEF Stage, Before, After
<1>11. Good(n, store, table, asked)
  BY <1>7, <1>8, <1>9, <1>10 DEF Good
<1> HIDE DEF o
<1> QED BY <1>1, <1>2, <1>3, <1>5, <1>6, <1>11, SelectedIs

LEMMA InsertClashesKeeps ==
  ASSUME Inv, NEW t \in Threads, InsertClashes(t)
  PROVE  Inv'
<1> DEFINE o == op[t].obj
           b == [store[o] EXCEPT !.tx = "write", !.seen = 0]
<1>1. o \in Stores /\ store \in [Stores -> Object] /\ store[o] \in Object
  BY Here, NoStoreIsNone DEF InsertClashes, At, Phase, Holding, Inv, Typed
<1>2. /\ b \in Object /\ b.key = store[o].key /\ b.pending = store[o].pending
      /\ b.cache = store[o].cache /\ b.tx = "write"
  <2>1. 0 \in 0..MaxWrites
    BY MemoryAssumption
  <2> QED BY <1>1, <2>1 DEF Object
<1>3. /\ Set(t, Idle) /\ store' = [store EXCEPT ![o] = b]
      /\ UNCHANGED <<shards, table, files, asked, acked, told>>
  BY <1>1 DEF InsertClashes, Fail
<1>4. b.cache # NoCache => \A w \in b.cache : Of(w, b.key, asked)
  BY <1>1, <1>2 DEF Inv, Cached
<1> HIDE DEF b, o
<1> QED BY <1>1, <1>2, <1>3, <1>4, IdleIsGood, Altered

LEMMA InsertBusyKeeps ==
  ASSUME Inv, NEW t \in Threads, InsertBusy(t)
  PROVE  Inv'
<1> DEFINE o == op[t].obj
           b == [store[o] EXCEPT !.tx = IF @ = "none" THEN "open" ELSE @]
<1>1. o \in Stores /\ store \in [Stores -> Object] /\ store[o] \in Object
  BY Here, NoStoreIsNone DEF InsertBusy, At, Phase, Holding, Inv, Typed
<1>2. /\ b \in Object /\ b.key = store[o].key /\ b.pending = store[o].pending
      /\ b.cache = store[o].cache /\ b.seen = store[o].seen
      /\ b.tx = IF store[o].tx = "none" THEN "open" ELSE store[o].tx
  BY <1>1 DEF Object
<1>3. /\ Set(t, Idle) /\ store' = [store EXCEPT ![o] = b]
      /\ UNCHANGED <<shards, table, files, asked, acked, told>>
  BY <1>1 DEF InsertBusy, Fail
<1>4. b.cache # NoCache => \A w \in b.cache : Of(w, b.key, asked)
  BY <1>1, <1>2 DEF Inv, Cached
<1>5. b.tx = "read" => b.key \in Keys /\ b.seen <= Len(table[b.key])
  BY <1>1, <1>2 DEF Inv, Snapshots
<1> HIDE DEF b, o
<1> QED BY <1>1, <1>2, <1>3, <1>4, <1>5, IdleIsGood, Altered

LEMMA InvalidateKeeps ==
  ASSUME Inv, NEW t \in Threads, Invalidate(t)
  PROVE  Inv'
<1> DEFINE d == op[t]
           o == d.obj
           b == [store[o] EXCEPT !.cache = NoCache]
           n == [d EXCEPT !.pc = "load"]
<1>1. d.pc = "invalidate"
  BY DEF Invalidate, At
<1>2. /\ d \in Doing /\ Phase(d) /\ Refers(d, store) /\ Found(d, store, asked)
      /\ Stage(d, store, table, asked) /\ o \in Stores /\ d.key \in Named
  BY <1>1, Here DEF Phase, Found, Holding
<1>3. store \in [Stores -> Object] /\ store[o] \in Object
  BY <1>2 DEF Inv, Typed
<1>4. /\ b \in Object /\ b.key = store[o].key /\ b.pending = store[o].pending
      /\ b.cache = NoCache /\ b.tx = store[o].tx /\ b.seen = store[o].seen
  BY <1>3 DEF Object
<1>5. /\ Set(t, n) /\ store' = [store EXCEPT ![o] = b]
      /\ UNCHANGED <<shards, table, files, asked, acked, told>>
  BY <1>3 DEF Invalidate, Goto
<1>6. n \in Doing
  BY <1>2 DEF Doing, Pcs
<1>7. /\ n.pc = "load" /\ n.kind = d.kind /\ n.key = d.key /\ n.obj = o
      /\ n.rows = d.rows /\ n.left = d.left /\ n.got = d.got /\ n.write = d.write
  BY <1>2 DEF Doing
<1> HIDE DEF n, b
<1>8. Phase(n)
  BY <1>1, <1>2, <1>7, NoStoreIsNone DEF Phase, Holding
<1>9. Refers(n, store) /\ Found(n, store, asked)
  BY <1>1, <1>2, <1>7 DEF Refers, Found
<1>10. Stage(n, store, table, asked)
  BY <1>1, <1>2, <1>7 DEF Stage, Before, After
<1>11. Good(n, store, table, asked)
  BY <1>8, <1>9, <1>10 DEF Good
<1>12. b.tx = "read" => b.key \in Keys /\ b.seen <= Len(table[b.key])
  BY <1>2, <1>4 DEF Inv, Snapshots
<1> HIDE DEF o
<1> QED BY <1>2, <1>4, <1>5, <1>6, <1>7, <1>11, <1>12, Altered

LEMMA StoreKeeps ==
  ASSUME Inv, NEW t \in Threads, Store(t)
  PROVE  Inv'
<1> DEFINE d == op[t]
           o == d.obj
           b == [store[o] EXCEPT !.cache = d.rows]
           n == [d EXCEPT !.pc = "return", !.rows = {}]
<1>1. d.pc = "store"
  BY DEF Store, At
<1>2. /\ d \in Doing /\ Phase(d) /\ Refers(d, store) /\ Found(d, store, asked)
      /\ Stage(d, store, table, asked) /\ o \in Stores /\ d.key \in Named /\ d.rows \subseteq Writes
  BY <1>1, Here, Fields DEF Phase, Found, Holding
<1>3. store \in [Stores -> Object] /\ store[o] \in Object
  BY <1>2 DEF Inv, Typed
<1>4. /\ b \in Object /\ b.key = store[o].key /\ b.pending = store[o].pending
      /\ b.cache = d.rows /\ b.tx = store[o].tx /\ b.seen = store[o].seen
  BY <1>2, <1>3 DEF Object
<1>5. /\ Set(t, n) /\ store' = [store EXCEPT ![o] = b]
      /\ UNCHANGED <<shards, table, files, asked, acked, told>>
  BY <1>3 DEF Store
<1>6. n \in Doing
  BY <1>2 DEF Doing, Pcs
<1>7. /\ n.pc = "return" /\ n.kind = d.kind /\ n.key = d.key /\ n.obj = o
      /\ n.rows = {} /\ n.left = d.left /\ n.got = d.got /\ n.write = d.write
  BY <1>2 DEF Doing
<1> HIDE DEF n, b
<1>8. Phase(n)
  BY <1>1, <1>2, <1>7, NoStoreIsNone DEF Phase, Holding
<1>9. Refers(n, store) /\ Found(n, store, asked)
  BY <1>1, <1>2, <1>7 DEF Refers, Found
<1>10. Stage(n, store, table, asked)
  BY <1>1, <1>2, <1>7 DEF Stage, Before, After
<1>11. Good(n, store, table, asked)
  BY <1>8, <1>9, <1>10 DEF Good
<1>12. b.tx = "read" => b.key \in Keys /\ b.seen <= Len(table[b.key])
  BY <1>2, <1>4 DEF Inv, Snapshots
<1>13. \A w \in b.cache : Of(w, b.key, asked)
  BY <1>2, <1>4 DEF Found
<1> HIDE DEF o
<1> QED BY <1>2, <1>4, <1>5, <1>6, <1>7, <1>11, <1>12, <1>13, Altered

LEMMA ReturnKeeps ==
  ASSUME Inv, NEW t \in Threads, Return(t)
  PROVE  Inv'
<1> DEFINE d == op[t]
           o == d.obj
           c == store[o].cache
<1>1. d.pc = "return" /\ UNCHANGED <<shards, store, table, files, asked, told>>
  BY DEF Return, At
<1>2. /\ d \in Doing /\ Phase(d) /\ Refers(d, store) /\ Found(d, store, asked)
      /\ Stage(d, store, table, asked) /\ o \in Stores /\ d.key \in Named
      /\ d.kind \in {"search", "write"}
  BY <1>1, Here DEF Phase, Found, Holding
<1>3. CASE c = NoCache
  <2>1. Set(t, Idle) /\ UNCHANGED acked
    BY <1>3 DEF Return, Fail, Conn
  <2> QED BY <1>1, <2>1, IdleIsGood, Steady
<1>4. CASE c # NoCache /\ d.kind = "write"
  <2>1. Set(t, Idle) /\ acked' = acked \cup {d.write}
    BY <1>4 DEF Return, Proceed, Conn
  <2>2. d.write \in DOMAIN asked /\ InTable(d.write, table)
    BY <1>1, <1>2, <1>4 DEF Stage, Of, After
  <2>3. /\ files' \subseteq Keys /\ acked' \subseteq DOMAIN asked
        /\ told' \in [Scopes -> SUBSET Writes] /\ store' \in [Stores -> Object]
    BY <1>1, <2>1, <2>2 DEF Inv, Typed
  <2>4. Recalled' /\ Cached' /\ Snapshots'
    BY <1>1, <2>1, <2>2 DEF Inv, Recalled, Cached, Snapshots
  <2> QED BY <1>1, <2>1, <2>3, <2>4, IdleIsGood, Quiet
<1>5. CASE c # NoCache /\ d.kind = "search"
  <2> DEFINE n == [d EXCEPT !.pc = "contact", !.obj = NoStore, !.got = @ \cup c]
  <2>1. Set(t, n) /\ UNCHANGED acked
    BY <1>5 DEF Return, Proceed, Conn
  <2>2. c \subseteq Writes
    BY <1>2, <1>5, ObjectFields DEF Inv, Typed
  <2>3. \A w \in c : w \in DOMAIN asked /\ asked[w].key[2] = d.key[2]
    <3>1. \A w \in c : Of(w, store[o].key, asked)
      BY <1>2, <1>5 DEF Inv, Cached
    <3>2. store[o].key[2] = d.key[2]
      BY <1>2, NoStoreIsNone DEF Refers
    <3> QED BY <3>1, <3>2 DEF Of
  <2> HIDE DEF c
  <2>4. n \in Doing
    BY <1>2, <2>2 DEF Doing, Pcs
  <2>5. /\ n.pc = "contact" /\ n.kind = "search" /\ n.key = d.key /\ n.obj = NoStore
        /\ n.rows = d.rows /\ n.left = d.left /\ n.got = d.got \cup c
    BY <1>2, <1>5 DEF Doing
  <2>6. d.rows = {}
    BY <1>1, <1>2 DEF Found
  <2> HIDE DEF n
  <2>7. Good(n, store, table, asked)
    BY <1>2, <2>3, <2>5, <2>6 DEF Good, Phase, Refers, Found, Stage, Holding
  <2> HIDE DEF d
  <2> QED BY <1>1, <2>1, <2>4, <2>5, <2>7, Steady
<1> QED BY <1>2, <1>3, <1>4, <1>5

LEMMA AnswerKeeps ==
  ASSUME Inv, NEW t \in Threads, Answer(t)
  PROVE  Inv'
<1> DEFINE d == op[t]
           s == d.key[2]
<1>1. /\ d.pc = "contact" /\ UNCHANGED <<shards, store, table, files, asked, acked>>
      /\ told' = [told EXCEPT ![s] = @ \cup d.got] /\ Set(t, Idle)
  BY DEF Answer, At
<1>2. d \in Doing /\ Found(d, store, asked) /\ d.key \in Named /\ d.got \subseteq Writes
  BY <1>1, Here, Fields DEF Phase
<1>3. s \in Scopes
  BY <1>2, KeysAre
<1> HIDE DEF d
<1>4. told \in [Scopes -> SUBSET Writes] /\ files \subseteq Keys /\ acked \subseteq DOMAIN asked
      /\ store \in [Stores -> Object]
  BY DEF Inv, Typed
<1>5. told' \in [Scopes -> SUBSET Writes]
  BY <1>1, <1>2, <1>3, <1>4
<1>6. Recalled'
  <2>1. \A r \in Scopes : \A w \in told'[r] : w \in told[r] \/ (r = s /\ w \in d.got)
    BY <1>1, <1>3, <1>4
  <2>2. \A w \in d.got : w \in DOMAIN asked /\ asked[w].key[2] = s
    BY <1>2 DEF Found
  <2> HIDE DEF s
  <2> QED BY <1>1, <2>1, <2>2 DEF Inv, Recalled
<1>7. Cached' /\ Snapshots'
  BY <1>1 DEF Inv, Cached, Snapshots
<1> QED BY <1>1, <1>4, <1>5, <1>6, <1>7, IdleIsGood, Quiet

\* The threads, where the stores or the tables change.
LEMMA Moved ==
  ASSUME Inv, NEW t \in Threads, NEW n \in Doing, Set(t, n), Good(n, store', table', asked'),
         \A w \in DOMAIN asked : w \in DOMAIN asked' /\ asked'[w] = asked[w],
         \A w : InTable(w, table) => InTable(w, table'),
         \A u \in Threads \ {t} :
           /\ \A o \in Stores : o = op[u].obj \/ o \in op[u].left => store'[o].key = store[o].key
           /\ op[u].kind = "write" /\ n.kind = "write" => op[u].write # n.write
           /\ op[u].kind = "write" /\ op[u].pc \in Before =>
                ~InTable(op[u].write, table') /\ \A o \in Stores : ~InStore(op[u].write, store', o)
           /\ op[u].kind = "write" /\ op[u].pc = "commit" /\ InStore(op[u].write, store, op[u].obj) =>
                InTable(op[u].write, table') \/ InStore(op[u].write, store', op[u].obj)
  PROVE  (\A u \in Threads : Good(op[u], store, table, asked))' /\ Own'
<1>1. op'[t] = n /\ \A u \in Threads : u # t => op'[u] = op[u]
  BY OneThread DEF Inv
<1>2. \A u \in Threads : Good(op'[u], store', table', asked')
  <2> SUFFICES ASSUME NEW u \in Threads, u # t PROVE Good(op[u], store', table', asked')
    BY <1>1
  <2>1. op[u] \in Doing /\ Good(op[u], store, table, asked)
    BY DEF Inv, Typed
  <2> QED BY <2>1, GoodKept
<1>3. Own'
  BY <1>1 DEF Inv, Own
<1> QED BY <1>2, <1>3

LEMMA BeginWriteKeeps ==
  ASSUME Inv, NEW t \in Threads, NEW key \in Keys, BeginWrite(t, key)
  PROVE  Inv'
<1> DEFINE l == Len(asked)
           a == [proc |-> ProcOf[t], key |-> key]
           n == [Idle EXCEPT !.pc = "shard", !.kind = "write", !.key = key, !.write = l + 1]
<1>1. /\ l < MaxWrites /\ asked' = Append(asked, a) /\ Set(t, n)
      /\ UNCHANGED <<shards, store, table, files, acked, told>>
  BY DEF BeginWrite
<1>2. /\ asked \in Seq([proc : Procs, key : Keys]) /\ a \in [proc : Procs, key : Keys]
      /\ MaxWrites \in Nat /\ a.key = key
  BY MemoryAssumption DEF Inv, Typed, Procs
<1>3. /\ asked' \in Seq([proc : Procs, key : Keys]) /\ l \in Nat /\ DOMAIN asked = 1..l
      /\ Len(asked') = l + 1 /\ DOMAIN asked' = 1..l + 1
      /\ \A w \in 1..l : asked'[w] = asked[w]
      /\ asked'[l + 1] = a
  BY <1>1, <1>2, Added, Elements
<1> HIDE DEF a, l
<1>4. /\ l + 1 \in 0..MaxWrites /\ l + 1 \notin DOMAIN asked /\ l + 1 \in DOMAIN asked'
      /\ \A w \in DOMAIN asked : w \in DOMAIN asked' /\ asked'[w] = asked[w]
  BY <1>1, <1>2, <1>3
<1>5. n \in Doing
  BY <1>4, KeysAre, IdleIsGood DEF Doing, Pcs
<1>6. /\ n.pc = "shard" /\ n.kind = "write" /\ n.key = key /\ n.obj = NoStore /\ n.write = l + 1
      /\ n.rows = {} /\ n.left = {} /\ n.got = {}
  BY DEF Idle
<1> HIDE DEF n
<1>7. ~InTable(l + 1, table) /\ \A o \in Stores : ~InStore(l + 1, store, o)
  BY <1>4 DEF InTable, InStore, Inv, Filed, Waiting, Of
<1>8. Good(n, store, table, asked')
  BY <1>2, <1>3, <1>4, <1>6, <1>7, KeysAre
     DEF Good, Phase, Refers, Found, Stage, Holding, Of, Before, After
<1>9. (\A u \in Threads : Good(op[u], store, table, asked))' /\ Own'
  <2>1. \A u \in Threads \ {t} : op[u].kind = "write" => op[u].write # n.write
    BY <1>4, <1>6, Here DEF Stage, Of
  <2>2. \A u \in Threads \ {t} : op[u].kind = "write" /\ op[u].pc \in Before =>
          ~InTable(op[u].write, table) /\ \A o \in Stores : ~InStore(op[u].write, store, o)
    BY Here DEF Stage
  <2> QED BY <1>1, <1>4, <1>5, <1>8, <2>1, <2>2, Moved
<1>10. \A w, k : Of(w, k, asked) => Of(w, k, asked')
  BY <1>4 DEF Of
<1>11. Typed'
  <2>1. op' \in [Threads -> Doing]
    BY <1>1, <1>5, OneThread DEF Inv
  <2>2. Len(asked') <= MaxWrites
    BY <1>1, <1>2, <1>3
  <2> QED BY <1>1, <1>3, <1>4, <2>1, <2>2 DEF Inv, Typed
<1>12. Filed'
  BY <1>1, <1>10 DEF Inv, Filed
<1>13. Waiting'
  BY <1>1, <1>10 DEF Inv, Waiting
<1>14. Registered' /\ Cached' /\ Snapshots'
  BY <1>1, <1>10 DEF Inv, Registered, Cached, Snapshots
<1>15. Recalled'
  BY <1>1, <1>4 DEF Inv, Recalled
<1> QED BY <1>9, <1>11, <1>12, <1>13, <1>14, <1>15 DEF Inv

LEMMA BuildKeeps ==
  ASSUME Inv, NEW t \in Threads, Build(t)
  PROVE  Inv'
<1> DEFINE d == op[t]
           key == d.key
           o == CHOOSE q \in Stores : ~Live(q)
           c == {row.write : row \in Range(table[key])}
           b == [Unused EXCEPT !.key = key, !.cache = c]
           n == [d EXCEPT !.pc = "install", !.obj = o]
<1>1. /\ d.pc = "build" /\ Set(t, n) /\ files' = files \cup {key}
      /\ store' = [store EXCEPT ![o] = b] /\ UNCHANGED <<shards, table, asked, acked, told>>
  BY DEF Build, At, DbOf
<1>2. o \in Stores /\ ~Live(o)
  BY DEF Build
<1>3. /\ d \in Doing /\ Phase(d) /\ Refers(d, store) /\ Found(d, store, asked)
      /\ Stage(d, store, table, asked) /\ d.obj = NoStore /\ d.rows = {}
      /\ key \in Keys /\ key \in Named /\ d.kind \in {"search", "write"}
  BY <1>1, Here, KeysAre DEF Phase, Found, Holding
<1>4. \A w \in c : w \in Writes /\ Of(w, key, asked)
  <2> SUFFICES ASSUME NEW row \in Range(table[key])
               PROVE  row.write \in Writes /\ Of(row.write, key, asked)
    OBVIOUS
  <2>1. table[key] \in Seq(Row)
    BY <1>3 DEF Inv, Typed
  <2>2. PICK i \in DOMAIN table[key] : row = table[key][i]
    BY DEF Range
  <2>3. row \in Row
    BY <2>1, <2>2
  <2> QED BY <1>3, <2>2, <2>3 DEF Inv, Filed, Row
<1>5. \A p \in Procs, k \in Keys : shards[p][k] # o
  BY <1>2 DEF Live
<1>6. \A u \in Threads : op[u].obj # o /\ o \notin op[u].left
  BY <1>2 DEF Live
<1> HIDE DEF o, c
<1>7. b \in Object /\ b.key = key /\ b.cache = c /\ b.tx = "none" /\ b.pending = <<>>
  BY <1>3, <1>4, UnusedIs DEF Object
<1>8. /\ n \in Doing /\ n.pc = "install" /\ n.kind = d.kind /\ n.key = key /\ n.obj = o
      /\ n.rows = {} /\ n.left = d.left /\ n.got = d.got /\ n.write = d.write
  BY <1>2, <1>3 DEF Doing, Pcs
<1> HIDE DEF b, n
<1>9. /\ store' \in [Stores -> Object] /\ store'[o] = b
      /\ \A q \in Stores : q # o => store'[q] = store[q]
  BY <1>1, <1>2, <1>7 DEF Inv, Typed
<1>10. /\ \A w : ~InStore(w, store', o)
       /\ \A w : \A q \in Stores : q # o => (InStore(w, store', q) <=> InStore(w, store, q))
  BY <1>7, <1>9 DEF InStore
<1>11. Good(n, store', table, asked)
  <2>1. Phase(n)
    BY <1>2, <1>3, <1>8, NoStoreIsNone DEF Phase, Holding
  <2>2. Refers(n, store')
    BY <1>3, <1>6, <1>7, <1>8, <1>9, Here DEF Refers
  <2>3. Found(n, store', asked)
    BY <1>3, <1>8 DEF Found
  <2>4. Stage(n, store', table, asked)
    BY <1>1, <1>3, <1>8, <1>10 DEF Stage, Before, After
  <2> QED BY <2>1, <2>2, <2>3, <2>4 DEF Good
<1>12. (\A u \in Threads : Good(op[u], store, table, asked))' /\ Own'
  <2>1. \A u \in Threads \ {t} :
           /\ \A q \in Stores : q = op[u].obj \/ q \in op[u].left => store'[q].key = store[q].key
           /\ op[u].kind = "write" /\ n.kind = "write" => op[u].write # n.write
           /\ op[u].kind = "write" /\ op[u].pc \in Before =>
                ~InTable(op[u].write, table') /\ \A q \in Stores : ~InStore(op[u].write, store', q)
           /\ op[u].kind = "write" /\ op[u].pc = "commit" /\ InStore(op[u].write, store, op[u].obj) =>
                InTable(op[u].write, table') \/ InStore(op[u].write, store', op[u].obj)
    <3> SUFFICES ASSUME NEW u \in Threads, u # t
                 PROVE  /\ \A q \in Stores : q = op[u].obj \/ q \in op[u].left => store'[q].key = store[q].key
                        /\ op[u].kind = "write" /\ n.kind = "write" => op[u].write # n.write
                        /\ op[u].kind = "write" /\ op[u].pc \in Before =>
                             ~InTable(op[u].write, table') /\ \A q \in Stores : ~InStore(op[u].write, store', q)
                        /\ op[u].kind = "write" /\ op[u].pc = "commit" /\ InStore(op[u].write, store, op[u].obj) =>
                             InTable(op[u].write, table') \/ InStore(op[u].write, store', op[u].obj)
      OBVIOUS
    <3>1. \A q \in Stores : q = op[u].obj \/ q \in op[u].left => store'[q].key = store[q].key
      BY <1>6, <1>9
    <3>2. op[u].kind = "write" /\ n.kind = "write" => op[u].write # n.write
      BY <1>8 DEF Inv, Own
    <3>3. op[u].kind = "write" /\ op[u].pc \in Before =>
            ~InTable(op[u].write, table') /\ \A q \in Stores : ~InStore(op[u].write, store', q)
      <4>1. op[u].kind = "write" /\ op[u].pc \in Before =>
              ~InTable(op[u].write, table) /\ \A q \in Stores : ~InStore(op[u].write, store, q)
        BY Here DEF Stage
      <4> QED BY <1>1, <1>10, <4>1
    <3>4. op[u].pc = "commit" => op[u].obj \in Stores
      BY Here DEF Phase, Holding
    <3> QED BY <1>6, <1>10, <3>1, <3>2, <3>3, <3>4
  <2> QED BY <1>1, <1>8, <1>11, <2>1, Moved
<1>13. Typed'
  <2>1. op' \in [Threads -> Doing]
    BY <1>1, <1>8, OneThread DEF Inv
  <2> QED BY <1>1, <1>3, <1>9, <2>1 DEF Inv, Typed
<1>14. Registered'
  <2>1. \A p \in Procs, k \in Keys : shards[p][k] \in Stores \cup {NoStore}
    BY DEF Inv, Typed
  <2> QED BY <1>1, <1>5, <1>9, <2>1 DEF Inv, Registered
<1>15. Filed' /\ Recalled'
  BY <1>1 DEF Inv, Filed, Recalled
<1>16. Waiting'
  <2> SUFFICES ASSUME NEW q \in Stores
               PROVE  /\ \A i \in DOMAIN store'[q].pending :
                           Of(store'[q].pending[i].write, store'[q].key, asked')
                      /\ \A i, j \in DOMAIN store'[q].pending :
                           store'[q].pending[i].write = store'[q].pending[j].write => i = j
                      /\ \A w \in Writes : InStore(w, store', q) =>
                           ~InTable(w, table') /\ \A r \in Stores : InStore(w, store', r) => r = q
    BY DEF Waiting
  <2>1. CASE q = o
    BY <1>7, <1>9, <1>10, <2>1
  <2>2. CASE q # o
    <3>1. store'[q] = store[q] /\ Waiting
      BY <1>9, <2>2 DEF Inv
    <3>2. \A w \in Writes : InStore(w, store', q) =>
            ~InTable(w, table) /\ \A r \in Stores : InStore(w, store, r) => r = q
      BY <1>10, <2>2, <3>1 DEF Waiting
    <3>3. \A w : \A r \in Stores : InStore(w, store', r) => InStore(w, store, r)
      BY <1>10
    <3>4. \A w \in Writes : InStore(w, store', q) =>
            ~InTable(w, table') /\ \A r \in Stores : InStore(w, store', r) => r = q
      BY <1>1, <3>2, <3>3
    <3>5. /\ \A i \in DOMAIN store[q].pending : Of(store[q].pending[i].write, store[q].key, asked)
          /\ \A i, j \in DOMAIN store[q].pending :
               store[q].pending[i].write = store[q].pending[j].write => i = j
      BY <3>1 DEF Waiting
    <3> QED BY <1>1, <3>1, <3>4, <3>5
  <2> QED BY <2>1, <2>2
<1>17. Cached'
  BY <1>1, <1>4, <1>7, <1>9 DEF Inv, Cached
<1>18. Snapshots'
  BY <1>1, <1>7, <1>9 DEF Inv, Snapshots
<1> QED BY <1>12, <1>13, <1>14, <1>15, <1>16, <1>17, <1>18 DEF Inv

LEMMA InstallKeeps ==
  ASSUME Inv, NEW t \in Threads, Install(t)
  PROVE  Inv'
<1> DEFINE d == op[t]
           n == [d EXCEPT !.pc = "shard", !.obj = NoStore]
<1>1. /\ d.pc = "install" /\ Set(t, n) /\ shards' = [shards EXCEPT ![ProcOf[t]][d.key] = d.obj]
      /\ UNCHANGED <<store, table, files, asked, acked, told>>
  BY DEF Install, At
<1>2. /\ d \in Doing /\ Phase(d) /\ Refers(d, store) /\ Found(d, store, asked)
      /\ Stage(d, store, table, asked) /\ d.obj \in Stores /\ d.rows = {}
      /\ d.key \in Keys /\ d.key \in Named
  BY <1>1, Here, KeysAre DEF Phase, Found, Holding
<1>3. store[d.obj].key = d.key
  BY <1>1, <1>2, NoStoreIsNone DEF Refers
<1>4. /\ n \in Doing /\ n.pc = "shard" /\ n.kind = d.kind /\ n.key = d.key /\ n.obj = NoStore
      /\ n.rows = {} /\ n.left = d.left /\ n.got = d.got /\ n.write = d.write
  BY <1>2 DEF Doing, Pcs
<1> HIDE DEF n, d
<1>5. Good(n, store, table, asked)
  <2>1. Phase(n)
    BY <1>2, <1>4 DEF Phase, Holding
  <2>2. Refers(n, store) /\ Found(n, store, asked)
    BY <1>2, <1>4 DEF Refers, Found
  <2>3. Stage(n, store, table, asked)
    BY <1>1, <1>2, <1>4 DEF Stage, Before, After
  <2> QED BY <2>1, <2>2, <2>3 DEF Good
<1>6. (\A u \in Threads : Good(op[u], store, table, asked))' /\ Own'
  <2>1. \A u \in Threads \ {t} : op[u].kind = "write" /\ n.kind = "write" => op[u].write # n.write
    BY <1>4 DEF Inv, Own, d
  <2>2. \A u \in Threads \ {t} : op[u].kind = "write" /\ op[u].pc \in Before =>
          ~InTable(op[u].write, table) /\ \A o \in Stores : ~InStore(op[u].write, store, o)
    BY Here DEF Stage
  <2> QED BY <1>1, <1>4, <1>5, <2>1, <2>2, Moved
<1>7. /\ shards' \in [Procs -> [Keys -> Stores \cup {NoStore}]]
      /\ \A p \in Procs, k \in Keys :
           shards'[p][k] = shards[p][k] \/ (k = d.key /\ shards'[p][k] = d.obj)
  <2>1. ProcOf[t] \in Procs /\ shards \in [Procs -> [Keys -> Stores \cup {NoStore}]]
    BY DEF Procs, Inv, Typed
  <2> QED BY <1>1, <1>2, <2>1
<1>8. Typed'
  <2>1. op' \in [Threads -> Doing]
    BY <1>1, <1>4, OneThread DEF Inv
  <2> QED BY <1>1, <1>7, <2>1 DEF Inv, Typed
<1>9. Registered'
  BY <1>1, <1>3, <1>7 DEF Inv, Registered
<1>10. Filed' /\ Waiting' /\ Cached' /\ Snapshots' /\ Recalled'
  BY <1>1 DEF Inv, Filed, Waiting, Cached, Snapshots, Recalled
<1> QED BY <1>6, <1>8, <1>9, <1>10 DEF Inv

LEMMA InsertKeeps ==
  ASSUME Inv, NEW t \in Threads, Insert(t)
  PROVE  Inv'
<1> DEFINE d == op[t]
           o == d.obj
           row == [id |-> d.id, write |-> d.write]
           p == store[o].pending
           b == [store[o] EXCEPT !.tx = "write", !.seen = 0, !.pending = Append(@, row)]
           n == [d EXCEPT !.pc = "commit"]
<1>1. /\ d.pc = "insert" /\ Set(t, n) /\ store' = [store EXCEPT ![o] = b]
      /\ UNCHANGED <<shards, table, files, asked, acked, told>>
  BY DEF Insert, At, Goto, Conn
<1>2. /\ d \in Doing /\ Phase(d) /\ Refers(d, store) /\ Found(d, store, asked)
      /\ Stage(d, store, table, asked) /\ d.obj \in Stores /\ d.rows = {} /\ d.kind = "write"
      /\ d.id \in 0..MaxWrites
  BY <1>1, Here, Fields DEF Phase, Found, Holding
<1>3. store[o].key = d.key /\ store[o] \in Object /\ p \in Seq(Row)
  BY <1>1, <1>2, NoStoreIsNone, ObjectFields DEF Refers, Inv, Typed
<1>4. /\ Of(d.write, d.key, asked) /\ d.write \in Writes
      /\ ~InTable(d.write, table) /\ \A q \in Stores : ~InStore(d.write, store, q)
  <2>1. /\ Of(d.write, d.key, asked)
        /\ ~InTable(d.write, table) /\ \A q \in Stores : ~InStore(d.write, store, q)
    BY <1>1, <1>2 DEF Stage, Before
  <2>2. DOMAIN asked = 1..Len(asked) /\ Len(asked) \in Nat /\ Len(asked) <= MaxWrites
        /\ MaxWrites \in Nat
    BY Elements, MemoryAssumption DEF Inv, Typed
  <2>3. d.write \in Writes
    BY <2>1, <2>2 DEF Writes, Of
  <2> QED BY <2>1, <2>3
<1>5. row \in Row /\ row.write = d.write
  BY <1>2, <1>4 DEF Row
<1> HIDE DEF row
<1>6. /\ Append(p, row) \in Seq(Row) /\ Len(p) \in Nat /\ DOMAIN p = 1..Len(p)
      /\ DOMAIN Append(p, row) = 1..Len(p) + 1
      /\ \A i \in 1..Len(p) : Append(p, row)[i] = p[i]
      /\ Append(p, row)[Len(p) + 1] = row
  BY <1>3, <1>5, Added, Elements
<1>7. /\ b \in Object /\ b.key = store[o].key /\ b.cache = store[o].cache /\ b.tx = "write"
      /\ b.pending = Append(p, row)
  <2>1. 0 \in 0..MaxWrites
    BY MemoryAssumption
  <2> QED BY <1>3, <1>6, <2>1 DEF Object
<1>8. /\ n \in Doing /\ n.pc = "commit" /\ n.kind = "write" /\ n.key = d.key /\ n.obj = o
      /\ n.rows = {} /\ n.left = d.left /\ n.got = d.got /\ n.write = d.write
  BY <1>2 DEF Doing, Pcs
<1>9. /\ store' \in [Stores -> Object] /\ store'[o] = b
      /\ \A q \in Stores : q # o => store'[q] = store[q]
      /\ \A q \in Stores : store'[q].key = store[q].key
  <2>1. store \in [Stores -> Object] /\ o \in Stores
    BY <1>2 DEF Inv, Typed
  <2> HIDE DEF b, o
  <2> QED BY <1>1, <1>7, <2>1
<1>10. \A w : \A q \in Stores :
         InStore(w, store', q) <=> InStore(w, store, q) \/ (q = o /\ w = d.write)
  <2> SUFFICES ASSUME NEW w, NEW q \in Stores
               PROVE  InStore(w, store', q) <=> InStore(w, store, q) \/ (q = o /\ w = d.write)
    OBVIOUS
  <2> DEFINE l == Len(p)
  <2>1. CASE q = o
    <3>1. l \in Nat /\ l + 1 \in 1..l + 1 /\ \A i \in 1..l + 1 : i = l + 1 \/ i \in 1..l
      BY <1>6
    <3>2. store'[q].pending = Append(p, row) /\ store[q].pending = p
      BY <1>7, <1>9, <2>1
    <3>3. /\ DOMAIN Append(p, row) = 1..l + 1 /\ DOMAIN p = 1..l
          /\ \A i \in 1..l : Append(p, row)[i] = p[i]
          /\ Append(p, row)[l + 1] = row
      BY <1>6
    <3>4. \A i \in 1..l : i \in 1..l + 1
      BY <3>1
    <3> HIDE DEF l, p, o, d, b
    <3> QED BY <1>5, <2>1, <3>1, <3>2, <3>3, <3>4 DEF InStore
  <2>2. CASE q # o
    BY <1>9, <2>2 DEF InStore
  <2> QED BY <2>1, <2>2
<1> HIDE DEF n, b
<1>11. Good(n, store', table, asked)
  <2>1. Phase(n)
    BY <1>1, <1>2, <1>8, NoStoreIsNone DEF Phase, Holding
  <2>2. Refers(n, store')
    BY <1>1, <1>2, <1>8, <1>9, Here DEF Refers
  <2>3. Found(n, store', asked)
    BY <1>2, <1>8 DEF Found
  <2>4. Stage(n, store', table, asked)
    BY <1>2, <1>4, <1>8, <1>10 DEF Stage, Before, After
  <2> QED BY <2>1, <2>2, <2>3, <2>4 DEF Good
<1>12. (\A u \in Threads : Good(op[u], store, table, asked))' /\ Own'
  <2>1. \A u \in Threads \ {t} : op[u].kind = "write" => op[u].write # d.write
    BY <1>2 DEF Inv, Own
  <2>2. \A u \in Threads \ {t} : op[u].kind = "write" /\ op[u].pc \in Before =>
          ~InTable(op[u].write, table) /\ \A q \in Stores : ~InStore(op[u].write, store', q)
    BY <1>10, <2>1, Here DEF Stage
  <2>3. \A u \in Threads \ {t} : op[u].pc = "commit" => op[u].obj \in Stores
    BY Here DEF Phase, Holding
  <2>4. \A u \in Threads \ {t} : op[u].pc = "commit" /\ InStore(op[u].write, store, op[u].obj) =>
          InStore(op[u].write, store', op[u].obj)
    BY <1>10, <2>3
  <2>5. \A u \in Threads \ {t} :
           /\ \A q \in Stores : q = op[u].obj \/ q \in op[u].left => store'[q].key = store[q].key
           /\ op[u].kind = "write" /\ n.kind = "write" => op[u].write # n.write
           /\ op[u].kind = "write" /\ op[u].pc \in Before =>
                ~InTable(op[u].write, table') /\ \A q \in Stores : ~InStore(op[u].write, store', q)
           /\ op[u].kind = "write" /\ op[u].pc = "commit" /\ InStore(op[u].write, store, op[u].obj) =>
                InTable(op[u].write, table') \/ InStore(op[u].write, store', op[u].obj)
    BY <1>1, <1>8, <1>9, <2>1, <2>2, <2>4
  <2>6. n \in Doing /\ Set(t, n) /\ Good(n, store', table', asked') /\ table' = table /\ asked' = asked
    BY <1>1, <1>8, <1>11
  <2> HIDE DEF d, o
  <2> QED BY <2>5, <2>6, Moved
<1>13. Typed'
  <2>1. op' \in [Threads -> Doing]
    BY <1>1, <1>8, OneThread DEF Inv
  <2> QED BY <1>1, <1>9, <2>1 DEF Inv, Typed
<1>14. Registered' /\ Filed' /\ Recalled'
  <2>1. Filed' /\ Recalled'
    BY <1>1 DEF Inv, Filed, Recalled
  <2>2. Registered'
    BY <1>1, <1>9 DEF Inv, Typed, Registered
  <2> QED BY <2>1, <2>2
<1>15. Waiting'
  <2> SUFFICES ASSUME NEW q \in Stores
               PROVE  /\ \A i \in DOMAIN store'[q].pending :
                           Of(store'[q].pending[i].write, store'[q].key, asked')
                      /\ \A i, j \in DOMAIN store'[q].pending :
                           store'[q].pending[i].write = store'[q].pending[j].write => i = j
                      /\ \A w \in Writes : InStore(w, store', q) =>
                           ~InTable(w, table') /\ \A r \in Stores : InStore(w, store', r) => r = q
    BY DEF Waiting
  <2>1. \A w \in Writes : InStore(w, store', q) =>
          ~InTable(w, table') /\ \A r \in Stores : InStore(w, store', r) => r = q
    <3>1. \A w \in Writes : InStore(w, store, q) =>
            ~InTable(w, table) /\ \A r \in Stores : InStore(w, store, r) => r = q
      BY DEF Inv, Waiting
    <3> DEFINE e == d.write
    <3>2. \A w : \A r \in Stores : InStore(w, store', r) <=> InStore(w, store, r) \/ (r = o /\ w = e)
      BY <1>10
    <3>3. ~InTable(e, table) /\ \A r \in Stores : ~InStore(e, store, r)
      BY <1>4
    <3> HIDE DEF d, o, e
    <3> SUFFICES ASSUME NEW w \in Writes, InStore(w, store', q)
                 PROVE  ~InTable(w, table) /\ \A r \in Stores : InStore(w, store', r) => r = q
      BY <1>1
    <3>4. CASE w = e
      BY <3>2, <3>3, <3>4
    <3>5. CASE w # e
      BY <3>1, <3>2, <3>5
    <3> QED BY <3>4, <3>5
  <2>2. CASE q = o
    <3> DEFINE l == Len(p)
               z == store'[q].pending
    <3>1. l \in Nat /\ \A i \in 1..l + 1 : i = l + 1 \/ i \in 1..l
      BY <1>6
    <3>2. /\ DOMAIN z = 1..l + 1 /\ DOMAIN p = 1..l
          /\ \A i \in 1..l : z[i] = p[i]
          /\ z[l + 1].write = d.write
      BY <1>5, <1>6, <1>7, <1>9, <2>2
    <3>3. \A i \in 1..l : p[i].write # d.write
      BY <1>2, <1>4, <3>2 DEF InStore
    <3>4. /\ \A i \in 1..l : Of(p[i].write, store[o].key, asked)
          /\ \A i, j \in 1..l : p[i].write = p[j].write => i = j
      BY <1>2, <3>2 DEF Inv, Waiting
    <3>5. store'[q].key = store[o].key /\ Of(d.write, store[o].key, asked) /\ asked' = asked
      BY <1>1, <1>3, <1>4, <1>7, <1>9, <2>2
    <3> HIDE DEF l, z, p, o, d
    <3>6. \A i \in DOMAIN z : Of(z[i].write, store'[q].key, asked')
      BY <3>1, <3>2, <3>4, <3>5
    <3>7. \A i, j \in DOMAIN z : z[i].write = z[j].write => i = j
      BY <3>1, <3>2, <3>3, <3>4
    <3> QED BY <2>1, <3>6, <3>7 DEF z
  <2>3. CASE q # o
    BY <1>1, <1>9, <2>1, <2>3 DEF Inv, Waiting
  <2> QED BY <2>2, <2>3
<1>16. Cached'
  <2>1. store'[o].cache = store[o].cache
    BY <1>7, <1>9
  <2> HIDE DEF o
  <2> QED BY <1>1, <1>9, <2>1 DEF Inv, Cached
<1>17. Snapshots'
  BY <1>1, <1>7, <1>9 DEF Inv, Snapshots
<1> QED BY <1>12, <1>13, <1>14, <1>15, <1>16, <1>17 DEF Inv

\* A commit puts the rows that waited at the end of the file.
Filled(o) == table[store[o].key] \o store[o].pending

LEMMA CommitIs ==
  ASSUME Inv, NEW o \in Stores, store[o].key \in Keys
  PROVE  /\ Filled(o) \in Seq(Row) /\ Len(Filled(o)) >= Len(table[store[o].key])
         /\ \A i \in DOMAIN table[store[o].key] :
              i \in DOMAIN Filled(o) /\ Filled(o)[i] = table[store[o].key][i]
         /\ \A j \in DOMAIN store[o].pending :
              \E i \in DOMAIN Filled(o) : Filled(o)[i] = store[o].pending[j]
         /\ \A i \in DOMAIN Filled(o) :
              \/ \E j \in DOMAIN table[store[o].key] : Filled(o)[i] = table[store[o].key][j]
              \/ \E j \in DOMAIN store[o].pending : Filled(o)[i] = store[o].pending[j]
         /\ \A i \in DOMAIN Filled(o) : Of(Filled(o)[i].write, store[o].key, asked)
         /\ \A i, j \in DOMAIN Filled(o) : Filled(o)[i].write = Filled(o)[j].write => i = j
<1> DEFINE k == store[o].key
           s == table[k]
           p == store[o].pending
           r == Filled(o)
           a == Len(s)
           b == Len(p)
<1>1. s \in Seq(Row) /\ p \in Seq(Row) /\ r = s \o p
  BY ObjectFields DEF Inv, Typed, Filled
<1>2. /\ r \in Seq(Row) /\ a \in Nat /\ b \in Nat /\ Len(r) = a + b /\ DOMAIN r = 1..a + b
      /\ DOMAIN s = 1..a /\ DOMAIN p = 1..b
  BY <1>1, Elements, ConcatProperties
<1>3. \A i \in 1..a + b : r[i] = IF i <= a THEN s[i] ELSE p[i - a]
  BY <1>1, <1>2, ConcatProperties
<1>4. \A j \in DOMAIN p : p[j].write \in Writes
  <2>1. \A j \in DOMAIN p : p[j] \in Row
    BY <1>1, Elements
  <2> QED BY <2>1 DEF Row
<1>5. \A i \in DOMAIN s, j \in DOMAIN p : s[i].write # p[j].write
  <2> SUFFICES ASSUME NEW i \in DOMAIN s, NEW j \in DOMAIN p, s[i].write = p[j].write PROVE FALSE
    OBVIOUS
  <2>1. InStore(p[j].write, store, o)
    BY DEF InStore
  <2>2. InTable(p[j].write, table)
    BY DEF InTable
  <2> QED BY <1>4, <2>1, <2>2 DEF Inv, Waiting
<1>6. /\ \A i \in DOMAIN s : Of(s[i].write, k, asked)
      /\ \A i, j \in DOMAIN s : s[i].write = s[j].write => i = j
  BY DEF Inv, Filed
<1>7. /\ \A i \in DOMAIN p : Of(p[i].write, k, asked)
      /\ \A i, j \in DOMAIN p : p[i].write = p[j].write => i = j
  BY DEF Inv, Waiting
<1> SUFFICES /\ r \in Seq(Row) /\ Len(r) >= a
             /\ \A i \in DOMAIN s : i \in DOMAIN r /\ r[i] = s[i]
             /\ \A j \in DOMAIN p : \E i \in DOMAIN r : r[i] = p[j]
             /\ \A i \in DOMAIN r : \/ \E j \in DOMAIN s : r[i] = s[j]
                                    \/ \E j \in DOMAIN p : r[i] = p[j]
             /\ \A i \in DOMAIN r : Of(r[i].write, k, asked)
             /\ \A i, j \in DOMAIN r : r[i].write = r[j].write => i = j
  OBVIOUS
<1> HIDE DEF s, p, r, a, b
<1>8. \A i \in 1..a : i \in 1..a + b /\ r[i] = s[i]
  <2> SUFFICES ASSUME NEW i \in 1..a PROVE i \in 1..a + b /\ r[i] = s[i]
    OBVIOUS
  <2>1. i \in 1..a + b /\ i <= a
    BY <1>2
  <2> QED BY <1>3, <2>1
<1>9. \A j \in 1..b : j + a \in 1..a + b /\ r[j + a] = p[j]
  <2> SUFFICES ASSUME NEW j \in 1..b PROVE j + a \in 1..a + b /\ r[j + a] = p[j]
    OBVIOUS
  <2> DEFINE i == j + a
  <2>1. i \in 1..a + b /\ ~(i <= a) /\ i - a = j
    BY <1>2
  <2> HIDE DEF i
  <2>2. r[i] = p[i - a]
    BY <1>3, <2>1
  <2>3. r[i] = p[j]
    BY <2>1, <2>2
  <2> QED BY <2>1, <2>3 DEF i
<1>10. \A i \in 1..a + b : \/ i \in 1..a /\ r[i] = s[i]
                           \/ i - a \in 1..b /\ r[i] = p[i - a]
  <2> SUFFICES ASSUME NEW i \in 1..a + b
               PROVE  \/ i \in 1..a /\ r[i] = s[i]
                      \/ i - a \in 1..b /\ r[i] = p[i - a]
    OBVIOUS
  <2>1. (i <= a /\ i \in 1..a) \/ (~(i <= a) /\ i - a \in 1..b)
    BY <1>2
  <2> QED BY <1>3, <2>1
<1>11. \A i \in DOMAIN r : Of(r[i].write, k, asked)
  BY <1>2, <1>6, <1>7, <1>10
<1>12. \A i, j \in DOMAIN r : r[i].write = r[j].write => i = j
  <2> SUFFICES ASSUME NEW i \in 1..a + b, NEW j \in 1..a + b, r[i].write = r[j].write
               PROVE  i = j
    BY <1>2
  <2>1. CASE i \in 1..a /\ r[i] = s[i] /\ j \in 1..a /\ r[j] = s[j]
    BY <1>2, <1>6, <2>1
  <2>2. CASE i - a \in 1..b /\ r[i] = p[i - a] /\ j - a \in 1..b /\ r[j] = p[j - a]
    <3>1. i - a = j - a
      BY <1>2, <1>7, <2>2
    <3> QED BY <1>2, <3>1
  <2>3. CASE i \in 1..a /\ r[i] = s[i] /\ j - a \in 1..b /\ r[j] = p[j - a]
    BY <1>2, <1>5, <2>3
  <2>4. CASE j \in 1..a /\ r[j] = s[j] /\ i - a \in 1..b /\ r[i] = p[i - a]
    BY <1>2, <1>5, <2>4
  <2> QED BY <1>10, <2>1, <2>2, <2>3, <2>4
<1>13. \A i \in DOMAIN s : i \in DOMAIN r /\ r[i] = s[i]
  BY <1>2, <1>8
<1>14. \A j \in DOMAIN p : \E i \in DOMAIN r : r[i] = p[j]
  BY <1>2, <1>9
<1>15. \A i \in DOMAIN r : \/ \E j \in DOMAIN s : r[i] = s[j]
                           \/ \E j \in DOMAIN p : r[i] = p[j]
  BY <1>2, <1>10
<1>16. Len(r) >= a
  BY <1>2
<1> QED BY <1>2, <1>11, <1>12, <1>13, <1>14, <1>15, <1>16

LEMMA Committed ==
  ASSUME Inv, NEW o \in Stores, store[o].key \in Keys,
         table' = [table EXCEPT ![store[o].key] = Filled(o)]
  PROVE  \A w : InTable(w, table') <=> InTable(w, table) \/ InStore(w, store, o)
<1> DEFINE k == store[o].key
           r == Filled(o)
<1>1. /\ table' \in [Keys -> Seq(Row)] /\ table'[k] = r
      /\ \A y \in Keys : y # k => table'[y] = table[y]
  <2>1. table \in [Keys -> Seq(Row)] /\ r \in Seq(Row)
    BY CommitIs DEF Inv, Typed
  <2> QED BY <2>1
<1>2. /\ \A i \in DOMAIN table[k] : i \in DOMAIN r /\ r[i] = table[k][i]
      /\ \A j \in DOMAIN store[o].pending : \E i \in DOMAIN r : r[i] = store[o].pending[j]
      /\ \A i \in DOMAIN r : \/ \E j \in DOMAIN table[k] : r[i] = table[k][j]
                             \/ \E j \in DOMAIN store[o].pending : r[i] = store[o].pending[j]
  BY CommitIs
<1> HIDE DEF r
<1>3. \A w : InTable(w, table') <=> InTable(w, table) \/ InStore(w, store, o)
  <2> SUFFICES ASSUME NEW w
               PROVE  InTable(w, table') <=> InTable(w, table) \/ InStore(w, store, o)
    OBVIOUS
  <2>1. ASSUME InTable(w, table) PROVE InTable(w, table')
    <3>1. PICK y \in Keys : \E i \in DOMAIN table[y] : table[y][i].write = w
      BY <2>1 DEF InTable
    <3> QED BY <1>1, <1>2, <3>1 DEF InTable
  <2>2. ASSUME InStore(w, store, o) PROVE InTable(w, table')
    <3>1. PICK j \in DOMAIN store[o].pending : store[o].pending[j].write = w
      BY <2>2 DEF InStore
    <3>2. PICK i \in DOMAIN r : r[i] = store[o].pending[j]
      BY <1>2
    <3> QED BY <1>1, <3>1, <3>2 DEF InTable
  <2>3. ASSUME InTable(w, table') PROVE InTable(w, table) \/ InStore(w, store, o)
    <3>1. PICK y \in Keys : \E i \in DOMAIN table'[y] : table'[y][i].write = w
      BY <2>3 DEF InTable
    <3>2. CASE y = k
      <4>1. PICK i \in DOMAIN r : r[i].write = w
        BY <1>1, <3>1, <3>2
      <4> QED BY <1>2, <4>1 DEF InTable, InStore
    <3>3. CASE y # k
      BY <1>1, <3>1, <3>3 DEF InTable
    <3> QED BY <3>2, <3>3
  <2> QED BY <2>1, <2>2, <2>3
<1> QED BY <1>3

LEMMA CommitKeeps ==
  ASSUME Inv, NEW t \in Threads, Commit(t)
  PROVE  Inv'
<1> DEFINE d == op[t]
           o == d.obj
           k == store[o].key
           r == Filled(o)
           b == [store[o] EXCEPT !.tx = "none", !.seen = 0, !.pending = <<>>]
           n == [d EXCEPT !.pc = "invalidate"]
<1>1. /\ d.pc = "commit" /\ Set(t, n) /\ store' = [store EXCEPT ![o] = b]
      /\ table' = [table EXCEPT ![k] = r]
      /\ UNCHANGED <<shards, files, asked, acked, told>>
  BY DEF Commit, At, Goto, Conn, Db, DbOf, Filled
<1>2. /\ d \in Doing /\ Phase(d) /\ Refers(d, store) /\ Found(d, store, asked)
      /\ Stage(d, store, table, asked) /\ o \in Stores /\ d.rows = {} /\ d.kind = "write"
  BY <1>1, Here, Fields DEF Phase, Found, Holding
<1>3. k = d.key /\ store[o] \in Object /\ k \in Keys
  BY <1>1, <1>2, NoStoreIsNone, ObjectFields DEF Refers, Inv, Typed
<1>4. /\ r \in Seq(Row) /\ Len(r) >= Len(table[k])
      /\ \A i \in DOMAIN table[k] : i \in DOMAIN r /\ r[i] = table[k][i]
      /\ \A j \in DOMAIN store[o].pending : \E i \in DOMAIN r : r[i] = store[o].pending[j]
      /\ \A i \in DOMAIN r : \/ \E j \in DOMAIN table[k] : r[i] = table[k][j]
                             \/ \E j \in DOMAIN store[o].pending : r[i] = store[o].pending[j]
      /\ \A i \in DOMAIN r : Of(r[i].write, k, asked)
      /\ \A i, j \in DOMAIN r : r[i].write = r[j].write => i = j
  BY <1>2, <1>3, CommitIs
<1> HIDE DEF r
<1>5. /\ b \in Object /\ b.key = k /\ b.cache = store[o].cache /\ b.tx = "none" /\ b.pending = <<>>
  <2>1. 0 \in 0..MaxWrites /\ <<>> \in Seq(Row)
    BY MemoryAssumption
  <2> QED BY <1>3, <2>1 DEF Object
<1>6. /\ n \in Doing /\ n.pc = "invalidate" /\ n.kind = "write" /\ n.key = d.key /\ n.obj = o
      /\ n.rows = {} /\ n.left = d.left /\ n.got = d.got /\ n.write = d.write
  BY <1>2 DEF Doing, Pcs
<1>7. /\ store' \in [Stores -> Object] /\ store'[o] = b
      /\ \A q \in Stores : q # o => store'[q] = store[q]
      /\ \A q \in Stores : store'[q].key = store[q].key /\ store'[q].cache = store[q].cache
  <2>1. store \in [Stores -> Object]
    BY DEF Inv, Typed
  <2>2. b.key = store[o].key
    BY <1>5
  <2> HIDE DEF b, o, k
  <2> QED BY <1>1, <1>2, <1>5, <2>1, <2>2
<1>8. /\ table' \in [Keys -> Seq(Row)] /\ table'[k] = r
      /\ \A y \in Keys : y # k => table'[y] = table[y]
  <2>1. table \in [Keys -> Seq(Row)]
    BY DEF Inv, Typed
  <2> QED BY <1>1, <1>3, <1>4, <2>1
<1>9. /\ \A w : ~InStore(w, store', o)
      /\ \A w : \A q \in Stores : q # o => (InStore(w, store', q) <=> InStore(w, store, q))
  BY <1>5, <1>7 DEF InStore
<1> HIDE DEF b, n
<1>10. \A w : InTable(w, table') <=> InTable(w, table) \/ InStore(w, store, o)
  BY <1>1, <1>2, <1>3, Committed DEF r
<1>11. Good(n, store', table', asked)
  <2>1. Phase(n)
    BY <1>1, <1>2, <1>6, NoStoreIsNone DEF Phase, Holding
  <2>2. Refers(n, store')
    BY <1>1, <1>2, <1>6, <1>7, Here DEF Refers
  <2>3. Found(n, store', asked)
    BY <1>2, <1>6 DEF Found
  <2>4. Stage(n, store', table', asked)
    BY <1>1, <1>2, <1>6, <1>10 DEF Stage, Before, After
  <2> QED BY <2>1, <2>2, <2>3, <2>4 DEF Good
<1>12. (\A u \in Threads : Good(op[u], store, table, asked))' /\ Own'
  <2>1. \A u \in Threads \ {t} : op[u].kind = "write" => op[u].write # n.write
    BY <1>2, <1>6 DEF Inv, Own
  <2>2. \A u \in Threads : op[u].kind = "write" /\ op[u].pc \in Before =>
          ~InTable(op[u].write, table) /\ \A q \in Stores : ~InStore(op[u].write, store, q)
    BY Here DEF Stage
  <2>3. \A u \in Threads : op[u].kind = "write" /\ op[u].pc \in Before =>
          ~InTable(op[u].write, table') /\ \A q \in Stores : ~InStore(op[u].write, store', q)
    BY <1>2, <1>9, <1>10, <2>2
  <2>4. \A u \in Threads : op[u].pc = "commit" => op[u].obj \in Stores
    BY Here DEF Phase, Holding
  <2>5. \A u \in Threads : op[u].pc = "commit" /\ InStore(op[u].write, store, op[u].obj) =>
          InTable(op[u].write, table') \/ InStore(op[u].write, store', op[u].obj)
    BY <1>9, <1>10, <2>4
  <2>6. \A u \in Threads \ {t} :
           /\ \A q \in Stores : q = op[u].obj \/ q \in op[u].left => store'[q].key = store[q].key
           /\ op[u].kind = "write" /\ n.kind = "write" => op[u].write # n.write
           /\ op[u].kind = "write" /\ op[u].pc \in Before =>
                ~InTable(op[u].write, table') /\ \A q \in Stores : ~InStore(op[u].write, store', q)
           /\ op[u].kind = "write" /\ op[u].pc = "commit" /\ InStore(op[u].write, store, op[u].obj) =>
                InTable(op[u].write, table') \/ InStore(op[u].write, store', op[u].obj)
    BY <1>7, <2>1, <2>3, <2>5
  <2>7. /\ n \in Doing /\ Set(t, n) /\ Good(n, store', table', asked') /\ asked' = asked
        /\ \A w : InTable(w, table) => InTable(w, table')
    BY <1>1, <1>6, <1>10, <1>11
  <2> HIDE DEF d, o, k
  <2> QED BY <2>6, <2>7, Moved
<1>13. Typed'
  <2>1. op' \in [Threads -> Doing]
    BY <1>1, <1>6, OneThread DEF Inv
  <2> QED BY <1>1, <1>7, <1>8, <2>1 DEF Inv, Typed
<1>14. Registered'
  BY <1>1, <1>7 DEF Inv, Typed, Registered
<1>15. Filed'
  <2> SUFFICES ASSUME NEW y \in Keys
               PROVE  /\ \A i \in DOMAIN table'[y] : Of(table'[y][i].write, y, asked)
                      /\ \A i, j \in DOMAIN table'[y] :
                           table'[y][i].write = table'[y][j].write => i = j
    BY <1>1 DEF Filed
  <2>1. CASE y = k
    BY <1>4, <1>8, <2>1
  <2>2. CASE y # k
    BY <1>8, <2>2 DEF Inv, Filed
  <2> QED BY <2>1, <2>2
<1>16. Waiting'
  <2> SUFFICES ASSUME NEW q \in Stores
               PROVE  /\ \A i \in DOMAIN store'[q].pending :
                           Of(store'[q].pending[i].write, store'[q].key, asked')
                      /\ \A i, j \in DOMAIN store'[q].pending :
                           store'[q].pending[i].write = store'[q].pending[j].write => i = j
                      /\ \A w \in Writes : InStore(w, store', q) =>
                           ~InTable(w, table') /\ \A z \in Stores : InStore(w, store', z) => z = q
    BY DEF Waiting
  <2>1. CASE q = o
    BY <1>5, <1>7, <1>9, <2>1
  <2>2. CASE q # o
    <3>1. /\ store'[q] = store[q]
          /\ \A i \in DOMAIN store[q].pending : Of(store[q].pending[i].write, store[q].key, asked)
          /\ \A i, j \in DOMAIN store[q].pending :
               store[q].pending[i].write = store[q].pending[j].write => i = j
          /\ \A w \in Writes : InStore(w, store, q) =>
               ~InTable(w, table) /\ \A z \in Stores : InStore(w, store, z) => z = q
      BY <1>7, <2>2 DEF Inv, Waiting
    <3>2. \A w \in Writes : InStore(w, store', q) =>
            ~InTable(w, table') /\ \A z \in Stores : InStore(w, store', z) => z = q
      BY <1>2, <1>9, <1>10, <2>2, <3>1
    <3> QED BY <1>1, <3>1, <3>2
  <2> QED BY <2>1, <2>2
<1>17. Cached'
  BY <1>1, <1>7 DEF Inv, Cached
<1>18. Snapshots'
  <2> SUFFICES ASSUME NEW q \in Stores, store'[q].tx = "read"
               PROVE  store'[q].key \in Keys /\ store'[q].seen <= Len(table'[store'[q].key])
    BY DEF Snapshots
  <2>1. q # o
    BY <1>5, <1>7
  <2>2. /\ store'[q] = store[q] /\ store[q].key \in Keys /\ store[q] \in Object
        /\ store[q].seen <= Len(table[store[q].key])
    BY <1>7, <2>1 DEF Inv, Typed, Snapshots
  <2>3. CASE store[q].key = k
    <3>1. Len(table[k]) \in Nat /\ Len(r) \in Nat /\ store[q].seen \in Nat
      BY <1>3, <1>4, <2>2, Elements, ObjectFields DEF Inv, Typed
    <3> DEFINE x == store[q].seen
               y == Len(table[k])
               z == Len(r)
    <3>2. x \in Nat /\ y \in Nat /\ z \in Nat /\ x <= y /\ z >= y
      BY <1>4, <2>2, <2>3, <3>1
    <3>3. x <= z
      <4> HIDE DEF x, y, z
      <4> QED BY <3>2
    <3> QED BY <1>8, <2>2, <2>3, <3>3
  <2>4. CASE store[q].key # k
    BY <1>8, <2>2, <2>4
  <2> QED BY <2>3, <2>4
<1>19. Recalled'
  BY <1>1, <1>10 DEF Inv, Recalled
<1> QED BY <1>12, <1>13, <1>14, <1>15, <1>16, <1>17, <1>18, <1>19 DEF Inv

LEMMA CrashKeeps ==
  ASSUME Inv, NEW p \in Procs, Crash(p)
  PROVE  Inv'
<1>1. /\ op' = [t \in Threads |-> IF ProcOf[t] = p THEN Idle ELSE op[t]]
      /\ shards' = [shards EXCEPT ![p] = [k \in Keys |-> NoStore]]
      /\ store' = [o \in Stores |-> IF Live(o)' THEN store[o] ELSE Unused]
      /\ UNCHANGED <<table, files, asked, acked, told>>
  BY DEF Crash
<1>2. \A t \in Threads : op'[t] = Idle \/ op'[t] = op[t]
  BY <1>1
<1>3. \A o \in Stores : store'[o] = store[o] \/ store'[o] = Unused
  BY <1>1
<1>4. /\ \A t \in Threads : op'[t].obj \in Stores => store'[op'[t].obj] = store[op'[t].obj]
      /\ \A t \in Threads : \A o \in Stores : o \in op'[t].left => store'[o] = store[o]
      /\ \A q \in Procs, k \in Keys : shards'[q][k] \in Stores => store'[shards'[q][k]] = store[shards'[q][k]]
  BY <1>1 DEF Live
<1>5. Typed'
  <2>1. op' \in [Threads -> Doing]
    <3>1. op' = [t \in Threads |-> op'[t]]
      BY <1>1
    <3>2. \A t \in Threads : op'[t] \in Doing
      BY <1>2, IdleIsGood DEF Inv, Typed
    <3> QED BY <3>1, <3>2
  <2>2. store' \in [Stores -> Object]
    <3>1. store' = [o \in Stores |-> store'[o]]
      BY <1>1
    <3>2. \A o \in Stores : store'[o] \in Object
      BY <1>3, UnusedIs DEF Inv, Typed
    <3> QED BY <3>1, <3>2
  <2>3. shards' \in [Procs -> [Keys -> Stores \cup {NoStore}]]
    BY <1>1 DEF Inv, Typed
  <2> QED BY <1>1, <2>1, <2>2, <2>3 DEF Inv, Typed
<1>6. \A w : \A o \in Stores : InStore(w, store', o) => InStore(w, store, o)
  BY <1>3, UnusedIs DEF InStore
<1>7. \A t \in Threads : Good(op'[t], store', table', asked')
  <2> SUFFICES ASSUME NEW t \in Threads PROVE Good(op'[t], store', table, asked)
    BY <1>1
  <2>1. CASE op'[t] = Idle
    BY <2>1, IdleIsGood
  <2>2. CASE op'[t] = op[t]
    <3>1. op[t] \in Doing /\ Good(op[t], store, table, asked)
      BY DEF Inv, Typed
    <3>2. \A o \in Stores : o = op[t].obj \/ o \in op[t].left => store'[o].key = store[o].key
      BY <1>4, <2>2
    <3>3. op[t].kind = "write" /\ op[t].pc \in Before =>
            ~InTable(op[t].write, table) /\ \A o \in Stores : ~InStore(op[t].write, store', o)
      BY <1>6, Here DEF Stage
    <3>4. op[t].pc = "commit" => op[t].obj \in Stores
      BY Here DEF Phase, Holding
    <3>5. op[t].pc = "commit" /\ InStore(op[t].write, store, op[t].obj) =>
            InStore(op[t].write, store', op[t].obj)
      BY <1>4, <2>2, <3>4 DEF InStore
    <3> QED BY <2>2, <3>1, <3>2, <3>3, <3>5, GoodKept
  <2> QED BY <1>2, <2>1, <2>2
<1>8. Own'
  BY <1>2, IdleIsGood DEF Inv, Own
<1>9. Registered'
  <2> SUFFICES ASSUME NEW q \in Procs, NEW k \in Keys, shards'[q][k] # NoStore
               PROVE  store'[shards'[q][k]].key = k
    BY DEF Registered
  <2>1. shards'[q][k] = shards[q][k] /\ shards[q][k] \in Stores
    BY <1>1 DEF Inv, Typed
  <2> QED BY <1>4, <2>1 DEF Inv, Registered
<1>10. Filed' /\ Recalled'
  BY <1>1 DEF Inv, Filed, Recalled
<1>11. Waiting'
  <2> SUFFICES ASSUME NEW q \in Stores
               PROVE  /\ \A i \in DOMAIN store'[q].pending :
                           Of(store'[q].pending[i].write, store'[q].key, asked)
                      /\ \A i, j \in DOMAIN store'[q].pending :
                           store'[q].pending[i].write = store'[q].pending[j].write => i = j
                      /\ \A w \in Writes : InStore(w, store', q) =>
                           ~InTable(w, table) /\ \A z \in Stores : InStore(w, store', z) => z = q
    BY <1>1 DEF Waiting
  <2>1. \A w \in Writes : InStore(w, store', q) =>
          ~InTable(w, table) /\ \A z \in Stores : InStore(w, store', z) => z = q
    <3>1. \A w \in Writes : InStore(w, store, q) =>
            ~InTable(w, table) /\ \A z \in Stores : InStore(w, store, z) => z = q
      BY DEF Inv, Waiting
    <3> QED BY <1>6, <3>1
  <2>2. CASE store'[q] = store[q]
    BY <2>1, <2>2 DEF Inv, Waiting
  <2>3. CASE store'[q] = Unused
    BY <2>1, <2>3, UnusedIs
  <2> QED BY <1>3, <2>2, <2>3
<1>12. Cached' /\ Snapshots'
  BY <1>1, <1>3, UnusedIs DEF Inv, Cached, Snapshots
<1> QED BY <1>5, <1>7, <1>8, <1>9, <1>10, <1>11, <1>12 DEF Inv

LEMMA InvAtStart == Init => Inv
<1> SUFFICES ASSUME Init PROVE Inv
  OBVIOUS
<1>1. /\ \A t \in Threads : op[t] = Idle
      /\ op \in [Threads -> Doing]
  BY IdleIsGood DEF Init
<1>2. \A o \in Stores : store[o] = Unused
  BY DEF Init
<1>3. Typed
  <2>1. store \in [Stores -> Object]
    BY UnusedIs DEF Init
  <2>2. /\ asked \in Seq([proc : Procs, key : Keys]) /\ Len(asked) <= MaxWrites
        /\ acked \subseteq DOMAIN asked
    BY MemoryAssumption DEF Init
  <2>3. table \in [Keys -> Seq(Row)] /\ files \subseteq Keys
    BY DEF Init
  <2>4. /\ told \in [Scopes -> SUBSET Writes]
        /\ shards \in [Procs -> [Keys -> Stores \cup {NoStore}]]
    BY DEF Init
  <2> QED BY <1>1, <2>1, <2>2, <2>3, <2>4 DEF Typed
<1>4. (\A t \in Threads : Good(op[t], store, table, asked)) /\ Own
  BY <1>1, IdleIsGood DEF Own
<1>5. Registered /\ Filed /\ Recalled
  BY DEF Init, Registered, Filed, Recalled
<1>6. Waiting /\ Cached /\ Snapshots
  BY <1>2, UnusedIs DEF Waiting, Cached, Snapshots, InStore
<1> QED BY <1>3, <1>4, <1>5, <1>6 DEF Inv

LEMMA NextKeeps == Inv /\ [Next]_vars => Inv'
<1> SUFFICES ASSUME Inv, [Next]_vars PROVE Inv'
  OBVIOUS
<1>1. ASSUME NEW t \in Threads, Step(t) PROVE Inv'
  BY <1>1, BeginWriteKeeps, BeginSearchKeeps, TouchKeeps, LookupKeeps, BuildKeeps, InstallKeeps,
     CollectKeeps, CollectRaisesKeeps, CountKeeps, InsertKeeps, InsertClashesKeeps,
     InsertBusyKeeps, CommitKeeps, InvalidateKeeps, ContactKeeps, LoadKeeps, SelectKeeps,
     StoreKeeps, ReturnKeeps, AnswerKeeps DEF Step
<1>2. ASSUME NEW p \in Procs, Crash(p) PROVE Inv'
  BY <1>2, CrashKeeps
<1>3. CASE UNCHANGED vars
  <2>1. UNCHANGED <<op, shards, store, table, files, asked, acked, told>>
    BY <1>3 DEF vars
  <2> QED BY <2>1 DEF Inv, Typed, Own, Registered, Filed, Waiting, Cached, Snapshots, Recalled
<1> QED BY <1>1, <1>2, <1>3 DEF Next

LEMMA InvAlways == Spec => []Inv
BY InvAtStart, NextKeeps, PTL DEF Spec

-----------------------------------------------------------------------------------
(* The theorems.                                                           *)

\* The calls, the registry, the connections and the tables have their shapes: no id, snapshot
\* or store is ever out of its range.
THEOREM TypeCorrect == Spec => []TypeOK
<1>1. ASSUME Inv PROVE TypeOK
  <2>1. /\ shards \in [Procs -> [Keys -> Stores \cup {NoStore}]]
        /\ store \in [Stores -> Object] /\ table \in [Keys -> Seq(Row)] /\ files \subseteq Keys
        /\ asked \in Seq([proc : Procs, key : Keys]) /\ acked \subseteq DOMAIN asked
        /\ told \in [Scopes -> SUBSET Writes]
    BY <1>1 DEF Inv, Typed
  <2>2. ASSUME NEW t \in Threads
        PROVE  /\ op[t].obj \in Stores \cup {NoStore} /\ op[t].left \subseteq Stores
               /\ op[t].id \in 0..MaxWrites /\ op[t].write \in 0..MaxWrites
               /\ op[t].rows \subseteq Writes /\ op[t].got \subseteq Writes
    BY <1>1, Here, Fields
  <2> QED BY <2>1, <2>2 DEF TypeOK, Object
<1> QED BY <1>1, InvAlways, PTL

LEMMA WritesOf ==
  ASSUME NEW tb, NEW w
  PROVE  w \in {row.write : row \in UNION {Range(tb[k]) : k \in Keys}} <=> InTable(w, tb)
<1>1. \A k \in Keys : \A row : row \in Range(tb[k]) <=> \E i \in DOMAIN tb[k] : tb[k][i] = row
  BY DEF Range
<1> QED BY <1>1 DEF InTable

LEMMA RecordedIs ==
  /\ \A w : w \in Recorded <=> InTable(w, table)
  /\ \A w : w \in Recorded' <=> InTable(w, table')
BY WritesOf DEF Recorded

LEMMA AskedInIs == \A w, s : w \in AskedIn(s) <=> w \in DOMAIN asked /\ asked[w].key[2] = s
BY DEF AskedIn

\* Scopes do not share anything: whatever threads race to build a shard, what a search has
\* found or been told was written under its scope, and a file holds the writes of its key.
THEOREM ScopesAreApart == Spec => []ScopesStayApart
<1>1. ASSUME Inv PROVE ScopesStayApart
  <2>1. \A s \in Scopes : told[s] \subseteq AskedIn(s)
    BY <1>1, AskedInIs DEF Inv, Recalled
  <2>2. \A t \in Threads : op[t].got \subseteq AskedIn(op[t].key[2])
    BY <1>1, Here, AskedInIs DEF Found
  <2>3. \A k \in Keys : \A i \in DOMAIN table[k] : asked[table[k][i].write].key = k
    BY <1>1 DEF Inv, Filed, Of
  <2> QED BY <2>1, <2>2, <2>3 DEF ScopesStayApart
<1> QED BY <1>1, InvAlways, PTL

\* write() returned: the row is in the file, and there once, although another thread's commit
\* may have put it there, and whichever process has died since.
THEOREM WritesPersist == Spec => []AckedWritesPersist
<1>1. ASSUME Inv PROVE AckedWritesPersist
  BY <1>1, RecordedIs DEF Inv, Recalled, Filed, AckedWritesPersist
<1> QED BY <1>1, InvAlways, PTL

\* A thread that begins no write, commits nothing and answers nothing.
LEMMA StepsAre ==
  ASSUME NEW t \in Threads, Step(t)
  PROVE  \/ \E key \in Keys : BeginWrite(t, key)
         \/ Commit(t) \/ Return(t) \/ Answer(t)
         \/ UNCHANGED <<asked, table, acked, told>>
BY DEF Step, BeginSearch, Touch, Lookup, Build, Install, Collect, CollectRaises, Count, Insert,
       InsertClashes, InsertBusy, Invalidate, Contact, Load, Select, Store

\* Over files, caches, transactions and processes that die, MemoryStore keeps the promises of
\* ScopedMemory: what is on record was asked for and stays, what is acknowledged is on record,
\* and a search is told of its own scope's writes only.
THEOREM StoresKeepThePromises == Spec => ImplementsScopedMemory
<1> DEFINE a == [s \in Scopes |-> AskedIn(s)]
           k == [s \in Scopes |-> KeptIn(s)]
<1>1. Init => Scoped!Init
  <2> SUFFICES ASSUME Init PROVE Scoped!Init
    OBVIOUS
  <2>1. \A s \in Scopes : AskedIn(s) = {} /\ KeptIn(s) = {}
    BY DEF Init, AskedIn, KeptIn
  <2>2. a = [s \in Scopes |-> {}] /\ k = [s \in Scopes |-> {}]
    BY <2>1
  <2> QED BY <2>2 DEF Init, Scoped!Init, Scoped!None
<1>2. Inv /\ [Next]_vars => [Scoped!Next]_<<a, k, acked, told>>
  <2> SUFFICES ASSUME Inv, [Next]_vars PROVE [Scoped!Next]_<<a, k, acked, told>>
    OBVIOUS
  <2>1. ASSUME UNCHANGED <<asked, table, acked, told>> PROVE UNCHANGED <<a, k, acked, told>>
    <3>1. \A s \in Scopes : AskedIn(s)' = AskedIn(s) /\ KeptIn(s)' = KeptIn(s)
      BY <2>1 DEF AskedIn, KeptIn, Recorded
    <3> QED BY <2>1, <3>1
  <2>2. ASSUME NEW t \in Threads, NEW key \in Keys, BeginWrite(t, key) PROVE Scoped!Next
    <3> DEFINE l == Len(asked)
               s == key[2]
               call == [proc |-> ProcOf[t], key |-> key]
    <3>1. /\ l < MaxWrites /\ asked' = Append(asked, call) /\ UNCHANGED <<table, acked, told>>
      BY <2>2 DEF BeginWrite
    <3>2. /\ asked \in Seq([proc : Procs, key : Keys]) /\ call \in [proc : Procs, key : Keys]
          /\ MaxWrites \in Nat /\ call.key = key /\ s \in Scopes
      BY MemoryAssumption DEF Inv, Typed, Procs, Keys
    <3>3. /\ l \in Nat /\ DOMAIN asked = 1..l /\ DOMAIN asked' = 1..l + 1
          /\ \A w \in 1..l : asked'[w] = asked[w]
          /\ asked'[l + 1] = call
      BY <3>1, <3>2, Added, Elements
    <3> DEFINE n == l + 1
    <3>4. /\ n \in Writes /\ n \notin DOMAIN asked /\ n \in DOMAIN asked'
          /\ asked'[n].key[2] = s
          /\ \A w \in DOMAIN asked : w \in DOMAIN asked' /\ asked'[w] = asked[w]
          /\ \A w \in DOMAIN asked' : w = n \/ w \in DOMAIN asked
      <4> HIDE DEF call
      <4>1. n \in Writes
        BY <3>1, <3>2, <3>3 DEF Writes
      <4>2. n \notin DOMAIN asked /\ n \in DOMAIN asked' /\ asked'[n].key[2] = s
        BY <3>2, <3>3
      <4>3. /\ \A w \in DOMAIN asked : w \in DOMAIN asked' /\ asked'[w] = asked[w]
            /\ \A w \in DOMAIN asked' : w = n \/ w \in DOMAIN asked
        BY <3>3
      <4> QED BY <4>1, <4>2, <4>3
    <3> HIDE DEF l, n, call, s
    <3>5. \A r \in Scopes : AskedIn(r)' = IF r = s THEN AskedIn(r) \cup {n} ELSE AskedIn(r)
      <4> SUFFICES ASSUME NEW r \in Scopes, NEW w
                   PROVE  w \in AskedIn(r)' <=> w \in AskedIn(r) \/ (r = s /\ w = n)
        OBVIOUS
      <4>1. w \in AskedIn(r)' <=> w \in DOMAIN asked' /\ asked'[w].key[2] = r
        BY DEF AskedIn
      <4>2. w \in AskedIn(r) <=> w \in DOMAIN asked /\ asked[w].key[2] = r
        BY AskedInIs
      <4>3. CASE w = n
        BY <3>4, <4>1, <4>2, <4>3
      <4>4. CASE w # n
        BY <3>4, <4>1, <4>2, <4>4
      <4> QED BY <4>3, <4>4
    <3>6. Recorded' = Recorded
      BY <3>1 DEF Recorded
    <3>7. n \notin Recorded
      BY <3>4, RecordedIs DEF Inv, Filed, InTable, Of
    <3>8. \A r \in Scopes : KeptIn(r)' = KeptIn(r)
      BY <3>5, <3>6, <3>7 DEF KeptIn
    <3>9. a' = [a EXCEPT ![s] = @ \cup {n}] /\ k' = k
      BY <3>2, <3>5, <3>8
    <3>10. \A r \in Scopes : n \notin a[r]
      BY <3>4 DEF AskedIn
    <3>11. Scoped!Ask(s, n)
      BY <3>1, <3>9, <3>10 DEF Scoped!Ask
    <3> QED BY <3>2, <3>4, <3>11 DEF Scoped!Next
  <2>3. ASSUME NEW t \in Threads, Commit(t) PROVE Scoped!Next
    <3> DEFINE o == op[t].obj
               key == store[o].key
               s == key[2]
               ws == {w \in Writes : InStore(w, store, o)}
    <3>1. /\ table' = [table EXCEPT ![key] = Filled(o)] /\ UNCHANGED <<asked, acked, told>>
      BY <2>3 DEF Commit, Db, DbOf, Conn, Filled
    <3>2. o \in Stores /\ key \in Keys /\ s \in Scopes
      <4>1. o \in Stores
        BY <2>3, Here, NoStoreIsNone DEF Commit, At, Phase, Holding
      <4>2. key \in Keys
        BY <4>1, Here, NoStoreIsNone DEF Refers
      <4> QED BY <4>1, <4>2 DEF Keys
    <3>3. \A w \in ws : w \in DOMAIN asked /\ asked[w].key[2] = s
      BY <3>2 DEF Inv, Waiting, InStore, Of
    <3>4. \A w : w \in Recorded' <=> w \in Recorded \/ w \in ws
      <4>1. \A w : InTable(w, table') <=> InTable(w, table) \/ InStore(w, store, o)
        BY <2>3, <3>1, <3>2, Committed
      <4>2. \A w : w \in Recorded' <=> InTable(w, table')
        BY RecordedIs
      <4>3. \A w : InStore(w, store, o) => w \in Writes
        <5>1. store[o].pending \in Seq(Row)
          BY <3>2, ObjectFields DEF Inv, Typed
        <5>2. \A i \in DOMAIN store[o].pending : store[o].pending[i] \in Row
          BY <5>1, Elements
        <5> QED BY <5>2 DEF InStore, Row
      <4> QED BY <4>1, <4>2, <4>3, RecordedIs
    <3> HIDE DEF ws, s
    <3>5. \A r \in Scopes : AskedIn(r)' = AskedIn(r)
      BY <3>1 DEF AskedIn
    <3>6. \A r \in Scopes : KeptIn(r)' = IF r = s THEN KeptIn(r) \cup ws ELSE KeptIn(r)
      BY <3>3, <3>4, <3>5, AskedInIs DEF KeptIn
    <3>7. a' = a /\ k' = [k EXCEPT ![s] = @ \cup ws]
      BY <3>2, <3>5, <3>6
    <3>8. ws \subseteq a[s]
      BY <3>2, <3>3, AskedInIs
    <3>9. Scoped!Keep(s, ws)
      BY <3>1, <3>7, <3>8 DEF Scoped!Keep
    <3>10. ws \in SUBSET Writes
      BY DEF ws
    <3> QED BY <3>2, <3>9, <3>10 DEF Scoped!Next
  <2>4. ASSUME NEW t \in Threads, Return(t)
        PROVE  Scoped!Next \/ UNCHANGED <<asked, table, acked, told>>
    <3> SUFFICES ASSUME ~UNCHANGED <<asked, table, acked, told>> PROVE Scoped!Next
      OBVIOUS
    <3> DEFINE w == op[t].write
               key == op[t].key
               s == key[2]
    <3>1. /\ At(t, "return") /\ op[t].kind = "write" /\ acked' = acked \cup {w}
          /\ UNCHANGED <<asked, table, told>>
      BY <2>4 DEF Return, Proceed, Fail
    <3>2. Of(w, key, asked) /\ InTable(w, table)
      BY <3>1, Here DEF Stage, At, After
    <3>3. w \in Writes /\ s \in Scopes
      <4>1. asked \in Seq([proc : Procs, key : Keys]) /\ Len(asked) <= MaxWrites /\ MaxWrites \in Nat
        BY MemoryAssumption DEF Inv, Typed
      <4>2. DOMAIN asked = 1..Len(asked) /\ Len(asked) \in Nat /\ w \in DOMAIN asked
            /\ asked[w] \in [proc : Procs, key : Keys] /\ asked[w].key = key
        BY <3>2, <4>1, Elements DEF Of
      <4>3. w \in Writes
        BY <4>1, <4>2 DEF Writes
      <4>4. key \in Keys
        BY <4>2
      <4> QED BY <4>3, <4>4 DEF Keys
    <3> HIDE DEF w, key
    <3>4. w \in k[s]
      BY <3>2, <3>3, RecordedIs, AskedInIs DEF KeptIn, Of
    <3>5. \A r \in Scopes : AskedIn(r)' = AskedIn(r) /\ KeptIn(r)' = KeptIn(r)
      BY <3>1 DEF AskedIn, KeptIn, Recorded
    <3>6. a' = a /\ k' = k
      BY <3>5
    <3> HIDE DEF s, k, a
    <3>7. Scoped!Ack(s, w)
      BY <3>1, <3>4, <3>6 DEF Scoped!Ack, k, a
    <3> QED BY <3>3, <3>7 DEF Scoped!Next
  <2>5. ASSUME NEW t \in Threads, Answer(t) PROVE Scoped!Next
    <3> DEFINE ws == op[t].got
               s == op[t].key[2]
    <3>1. told' = [told EXCEPT ![s] = @ \cup ws] /\ UNCHANGED <<asked, table, acked>>
      BY <2>5 DEF Answer
    <3>2. ws \subseteq Writes /\ s \in Scopes
      BY <2>5, Here, Fields, KeysAre DEF Answer, At, Phase
    <3>3. ws \subseteq a[s]
      BY <3>2, Here, AskedInIs DEF Found
    <3>4. \A r \in Scopes : AskedIn(r)' = AskedIn(r) /\ KeptIn(r)' = KeptIn(r)
      BY <3>1 DEF AskedIn, KeptIn, Recorded
    <3>5. a' = a /\ k' = k
      BY <3>4
    <3> HIDE DEF ws, s
    <3>6. Scoped!Tell(s, ws)
      BY <3>1, <3>3, <3>5 DEF Scoped!Tell
    <3> QED BY <3>2, <3>6 DEF Scoped!Next
  <2>6. ASSUME NEW p \in Procs, Crash(p) PROVE UNCHANGED <<asked, table, acked, told>>
    BY <2>6 DEF Crash
  <2>7. UNCHANGED vars => UNCHANGED <<asked, table, acked, told>>
    BY DEF vars
  <2> HIDE DEF a, k
  <2> QED BY <2>1, <2>2, <2>3, <2>4, <2>5, <2>6, <2>7, StepsAre DEF Next
<1> QED BY <1>1, <1>2, InvAlways, PTL DEF Spec, ImplementsScopedMemory, Scoped!Spec, Scoped!vars

-----------------------------------------------------------------------------------
(* A process of one thread reads its own writes.                           *)
(*                                                                         *)
(* d is what the thread does, p its process, sh what its process has       *)
(* registered, st, tb, as and ac the stores, the tables, the writes asked  *)
(* for and those that returned.                                            *)

Loading == {"load", "select", "store", "return"}

\* The store is the process's, for the key: registered, or about to be.
Holds(d, sh, k, o) == sh[k] = o \/ (d.pc = "install" /\ d.obj = o /\ d.key = k)

\* What the process wrote under the key, and was told so, or is about to be.
Mine(d, p, k, as, ac) ==
  {w \in DOMAIN as : /\ as[w].proc = p /\ as[w].key = k
                     /\ w \in ac \/ (d.kind = "write" /\ d.pc \in Loading /\ d.write = w)}

\* It is in the cache, if there is one, and in the snapshot, if there is one.
Fresh(d, p, sh, st, tb, as, ac) ==
  \A k \in Keys, o \in Stores : Holds(d, sh, k, o) =>
    \A w \in Mine(d, p, k, as, ac) :
      /\ st[o].cache # NoCache => w \in st[o].cache
      /\ st[o].tx = "read" => \E i \in DOMAIN tb[k] : i <= st[o].seen /\ tb[k][i].write = w

\* The thread uses the stores its process has registered.
Using(d, sh, st) ==
  /\ d.obj # NoStore /\ d.pc # "install" => sh[st[d.obj].key] = d.obj
  /\ \A o \in d.left : sh[st[o].key] = o
  /\ d.pc \in {"build", "install"} => sh[d.key] = NoStore

\* It is in what the thread has read; from the commit on there is no transaction.
Reading(d, p, st, as, ac) ==
  /\ d.pc = "store" => Mine(d, p, st[d.obj].key, as, ac) \subseteq d.rows
  /\ d.kind = "write" => as[d.write].proc = p
  /\ d.kind = "write" /\ d.pc \in After => st[d.obj].tx = "none"
  /\ d.due \subseteq ac

Private(d, p, sh, st, tb, as, ac) ==
  Fresh(d, p, sh, st, tb, as, ac) /\ Using(d, sh, st) /\ Reading(d, p, st, as, ac)

\* No two threads have a store in common.
Sole ==
  \A t, u \in Threads, k, j \in Keys, o \in Stores :
    Holds(op[t], shards[ProcOf[t]], k, o) /\ Holds(op[u], shards[ProcOf[u]], j, o) => t = u

Readers ==
  /\ \A t \in Threads :
       Private(op[t], ProcOf[t], shards[ProcOf[t]], store, table, asked, acked)
  /\ Sole

\* A process is a thread.
Single == \A t, u \in Threads : ProcOf[t] = ProcOf[u] => t = u

\* The caches and snapshots serve as long as they are only dropped, and no write is added.
LEMMA FreshKept ==
  ASSUME NEW d, NEW n, NEW p, NEW sh, NEW sh2, NEW st, NEW st2, NEW tb, NEW tb2,
         NEW as, NEW as2, NEW ac, NEW ac2,
         Fresh(d, p, sh, st, tb, as, ac),
         \A k \in Keys, o \in Stores : Holds(n, sh2, k, o) =>
           /\ Holds(d, sh, k, o)
           /\ Mine(n, p, k, as2, ac2) \subseteq Mine(d, p, k, as, ac)
           /\ st2[o].cache = st[o].cache \/ st2[o].cache = NoCache
           /\ st2[o].tx = "read" => st[o].tx = "read" /\ st2[o].seen = st[o].seen,
         \A k \in Keys : \A i \in DOMAIN tb[k] : i \in DOMAIN tb2[k] /\ tb2[k][i] = tb[k][i]
  PROVE  Fresh(n, p, sh2, st2, tb2, as2, ac2)
<1> SUFFICES ASSUME NEW k \in Keys, NEW o \in Stores, Holds(n, sh2, k, o),
                    NEW w \in Mine(n, p, k, as2, ac2)
             PROVE  /\ st2[o].cache # NoCache => w \in st2[o].cache
                    /\ st2[o].tx = "read" =>
                         \E i \in DOMAIN tb2[k] : i <= st2[o].seen /\ tb2[k][i].write = w
  BY DEF Fresh
<1>1. /\ Holds(d, sh, k, o) /\ w \in Mine(d, p, k, as, ac)
      /\ st2[o].cache = st[o].cache \/ st2[o].cache = NoCache
      /\ st2[o].tx = "read" => st[o].tx = "read" /\ st2[o].seen = st[o].seen
  OBVIOUS
<1>2. /\ st[o].cache # NoCache => w \in st[o].cache
      /\ st[o].tx = "read" => \E i \in DOMAIN tb[k] : i <= st[o].seen /\ tb[k][i].write = w
  BY <1>1 DEF Fresh
<1>3. st2[o].cache # NoCache => w \in st2[o].cache
  BY <1>1, <1>2
<1>4. ASSUME st2[o].tx = "read"
      PROVE  \E i \in DOMAIN tb2[k] : i <= st2[o].seen /\ tb2[k][i].write = w
  <2>1. PICK i \in DOMAIN tb[k] : i <= st[o].seen /\ tb[k][i].write = w
    BY <1>1, <1>2, <1>4
  <2>2. i \in DOMAIN tb2[k] /\ tb2[k][i] = tb[k][i] /\ st2[o].seen = st[o].seen
    BY <1>1, <1>4
  <2> QED BY <2>1, <2>2
<1> QED BY <1>3, <1>4

\* A store of the process is in use by somebody.
LEMMA HeldIsLive ==
  ASSUME Inv, NEW t \in Threads, NEW k \in Keys, NEW o \in Stores,
         Holds(op[t], shards[ProcOf[t]], k, o)
  PROVE  Live(o) /\ store[o].key = k
<1>1. ProcOf[t] \in Procs /\ o # NoStore
  BY NoStoreIsNone DEF Procs
<1>2. CASE shards[ProcOf[t]][k] = o
  <2> DEFINE p == ProcOf[t]
  <2>1. p \in Procs /\ shards[p][k] = o
    BY <1>1, <1>2
  <2> HIDE DEF p
  <2> QED BY <1>1, <2>1 DEF Live, Inv, Registered
<1>3. CASE op[t].pc = "install" /\ op[t].obj = o /\ op[t].key = k
  BY <1>1, <1>3, Here DEF Live, Refers
<1> QED BY <1>2, <1>3 DEF Holds

\* The stores a thread refers to are held by it.
LEMMA UsedAreHeld ==
  ASSUME Inv, NEW t \in Threads, Using(op[t], shards[ProcOf[t]], store)
  PROVE  /\ op[t].obj # NoStore =>
              /\ op[t].obj \in Stores /\ store[op[t].obj].key \in Keys
              /\ Holds(op[t], shards[ProcOf[t]], store[op[t].obj].key, op[t].obj)
         /\ \A o \in op[t].left :
              o \in Stores /\ store[o].key \in Keys
              /\ Holds(op[t], shards[ProcOf[t]], store[o].key, o)
<1>1. /\ op[t].obj \in Stores \cup {NoStore} /\ op[t].left \subseteq Stores
      /\ Refers(op[t], store)
  BY Here
<1> QED BY <1>1 DEF Using, Refers, Holds

\* A thread keeps its view while another process moves.
LEMMA PrivateKept ==
  ASSUME Inv, NEW u \in Threads,
         Private(op[u], ProcOf[u], shards[ProcOf[u]], store, table, asked, acked),
         op'[u] = op[u], shards'[ProcOf[u]] = shards[ProcOf[u]],
         \A k \in Keys, o \in Stores :
           Holds(op[u], shards[ProcOf[u]], k, o) => store'[o] = store[o],
         \A k \in Keys : \A i \in DOMAIN table[k] :
           i \in DOMAIN table'[k] /\ table'[k][i] = table[k][i],
         \A w \in DOMAIN asked : w \in DOMAIN asked' /\ asked'[w] = asked[w],
         \A w \in acked' : w \in DOMAIN asked /\ (w \in acked \/ asked[w].proc # ProcOf[u]),
         acked \subseteq acked'
  PROVE  Private(op'[u], ProcOf[u], shards'[ProcOf[u]], store', table', asked', acked')
<1> DEFINE d == op[u]
           p == ProcOf[u]
           sh == shards[p]
<1>1. Fresh(d, p, sh, store, table, asked, acked) /\ Using(d, sh, store)
      /\ Reading(d, p, store, asked, acked)
  BY DEF Private
<1>2. /\ d.obj # NoStore => d.obj \in Stores /\ store[d.obj].key \in Keys /\ store'[d.obj] = store[d.obj]
      /\ \A o \in d.left : store'[o] = store[o]
  BY <1>1, UsedAreHeld
<1>3. d.kind = "write" => d.write \in DOMAIN asked
  BY Here DEF Stage, Of
<1>4. \A k \in Keys : Mine(d, p, k, asked', acked') \subseteq Mine(d, p, k, asked, acked)
  <2> SUFFICES ASSUME NEW k \in Keys, NEW w \in Mine(d, p, k, asked', acked')
               PROVE  w \in Mine(d, p, k, asked, acked)
    OBVIOUS
  <2>1. /\ w \in DOMAIN asked' /\ asked'[w].proc = p /\ asked'[w].key = k
        /\ w \in acked' \/ (d.kind = "write" /\ d.pc \in Loading /\ d.write = w)
    BY DEF Mine
  <2>2. w \in DOMAIN asked /\ asked'[w] = asked[w]
    BY <1>3, <2>1
  <2> QED BY <2>1, <2>2 DEF Mine
<1>5. Fresh(d, p, sh, store', table', asked', acked')
  BY <1>1, <1>4, FreshKept
<1>6. Using(d, sh, store')
  BY <1>1, <1>2 DEF Using
<1>7. d.pc \in After => d.obj # NoStore
  BY Here DEF Phase, Holding, After
<1>8. Reading(d, p, store', asked', acked')
  <2>1. d.pc = "store" => Mine(d, p, store'[d.obj].key, asked', acked') \subseteq d.rows
    BY <1>1, <1>2, <1>4, <1>7 DEF Reading, After
  <2>2. d.kind = "write" => asked'[d.write].proc = p
    BY <1>1, <1>3 DEF Reading
  <2>3. d.kind = "write" /\ d.pc \in After => store'[d.obj].tx = "none"
    BY <1>1, <1>2, <1>7 DEF Reading
  <2>4. d.due \subseteq acked'
    BY <1>1 DEF Reading
  <2> QED BY <2>1, <2>2, <2>3, <2>4 DEF Reading
<1> QED BY <1>5, <1>6, <1>8 DEF Private

\* A thread moves, with the stores of its process.
LEMMA Aside ==
  ASSUME Inv, Single, Readers, NEW t \in Threads, NEW n \in Doing, Set(t, n),
         \A p \in Procs : p # ProcOf[t] => shards'[p] = shards[p],
         \A o \in Stores : \/ store'[o] = store[o] \/ ~Live(o)
                           \/ \E k \in Keys : Holds(op[t], shards[ProcOf[t]], k, o),
         \A k \in Keys : \A i \in DOMAIN table[k] :
           i \in DOMAIN table'[k] /\ table'[k][i] = table[k][i],
         \A w \in DOMAIN asked : w \in DOMAIN asked' /\ asked'[w] = asked[w],
         \A w \in acked' : w \in DOMAIN asked /\ (w \in acked \/ asked[w].proc = ProcOf[t]),
         acked \subseteq acked',
         \A k \in Keys, o \in Stores : Holds(n, shards'[ProcOf[t]], k, o) =>
           ~Live(o) \/ \E j \in Keys : Holds(op[t], shards[ProcOf[t]], j, o),
         Private(n, ProcOf[t], shards'[ProcOf[t]], store', table', asked', acked')
  PROVE  Readers'
<1>1. op'[t] = n /\ \A u \in Threads : u # t => op'[u] = op[u]
  BY OneThread DEF Inv
<1>2. \A u \in Threads : u # t => ProcOf[u] # ProcOf[t] /\ shards'[ProcOf[u]] = shards[ProcOf[u]]
  BY DEF Single, Procs
<1>3. \A u \in Threads : u # t => \A k \in Keys, o \in Stores :
        Holds(op[u], shards[ProcOf[u]], k, o) =>
          Live(o) /\ \A j \in Keys : ~Holds(op[t], shards[ProcOf[t]], j, o)
  BY HeldIsLive DEF Readers, Sole
<1>4. ASSUME NEW u \in Threads, u # t
      PROVE  Private(op'[u], ProcOf[u], shards'[ProcOf[u]], store', table', asked', acked')
  <2>1. \A k \in Keys, o \in Stores :
          Holds(op[u], shards[ProcOf[u]], k, o) => store'[o] = store[o]
    BY <1>3, <1>4
  <2>2. \A w \in acked' : w \in DOMAIN asked /\ (w \in acked \/ asked[w].proc # ProcOf[u])
    BY <1>2, <1>4
  <2>3. Private(op[u], ProcOf[u], shards[ProcOf[u]], store, table, asked, acked)
    BY DEF Readers
  <2>4. op'[u] = op[u] /\ shards'[ProcOf[u]] = shards[ProcOf[u]]
    BY <1>1, <1>2, <1>4
  <2> QED BY <2>1, <2>2, <2>3, <2>4, PrivateKept
<1>5. ASSUME NEW u \in Threads, NEW v \in Threads, NEW k \in Keys, NEW j \in Keys, NEW o \in Stores,
             Holds(op'[u], shards'[ProcOf[u]], k, o), Holds(op'[v], shards'[ProcOf[v]], j, o)
      PROVE  u = v
  <2>1. \A x \in Threads, y \in Keys : x # t /\ Holds(op'[x], shards'[ProcOf[x]], y, o) =>
          Holds(op[x], shards[ProcOf[x]], y, o)
    BY <1>1, <1>2
  <2>2. \A y \in Keys : Holds(op'[t], shards'[ProcOf[t]], y, o) =>
           ~Live(o) \/ \E z \in Keys : Holds(op[t], shards[ProcOf[t]], z, o)
    BY <1>1
  <2>3. CASE u # t /\ v # t
    BY <1>5, <2>1, <2>3 DEF Readers, Sole
  <2>4. CASE u = t /\ v # t
    BY <1>3, <1>5, <2>1, <2>2, <2>4
  <2>5. CASE u # t /\ v = t
    BY <1>3, <1>5, <2>1, <2>2, <2>5
  <2> QED BY <2>3, <2>4, <2>5
<1>6. Sole'
  BY <1>5 DEF Sole
<1> QED BY <1>1, <1>4, <1>6 DEF Readers

\* Only the thread moves, and reads nothing.
LEMMA Glides ==
  ASSUME Inv, Single, Readers, NEW t \in Threads, NEW n \in Doing, Set(t, n),
         UNCHANGED <<shards, store, table, asked, acked>>,
         n.pc # "install", n.pc # "store", n.due \subseteq acked,
         n.kind = "write" => /\ op[t].kind = "write" /\ n.write = op[t].write
                             /\ n.pc \in After => op[t].pc \in Loading /\ n.obj = op[t].obj,
         Using(n, shards[ProcOf[t]], store)
  PROVE  Readers'
<1> DEFINE d == op[t]
           p == ProcOf[t]
           sh == shards[p]
<1>1. Fresh(d, p, sh, store, table, asked, acked) /\ Reading(d, p, store, asked, acked)
  BY DEF Readers, Private
<1>2. Loading \subseteq After
  BY DEF Loading, After
<1>3. \A k \in Keys : Mine(n, p, k, asked, acked) \subseteq Mine(d, p, k, asked, acked)
  BY <1>2 DEF Mine
<1>4. \A k, o : Holds(n, sh, k, o) => Holds(d, sh, k, o)
  BY DEF Holds
<1>5. Fresh(n, p, sh, store, table, asked, acked)
  BY <1>1, <1>3, <1>4, FreshKept
<1>6. Reading(n, p, store, asked, acked)
  BY <1>1, <1>2 DEF Reading
<1>7. Private(n, p, shards'[p], store', table', asked', acked')
  BY <1>5, <1>6 DEF Private
<1>8. \A w \in acked' : w \in DOMAIN asked /\ w \in acked
  BY DEF Inv, Typed
<1>9. \A k \in Keys, o \in Stores : Holds(n, shards'[p], k, o) => Holds(d, sh, k, o)
  BY <1>4
<1> HIDE DEF d, sh
<1> QED BY <1>7, <1>8, <1>9, Aside DEF d, sh

\* What the proof has of a thread.
LEMMA View ==
  ASSUME Readers, NEW t \in Threads
  PROVE  /\ Fresh(op[t], ProcOf[t], shards[ProcOf[t]], store, table, asked, acked)
         /\ Using(op[t], shards[ProcOf[t]], store)
         /\ Reading(op[t], ProcOf[t], store, asked, acked)
BY DEF Readers, Private

\* A thread between two calls.
LEMMA IdleReads ==
  ASSUME NEW p, NEW sh, NEW st, NEW as, NEW ac
  PROVE  /\ Idle \in Doing /\ Idle.pc = "idle" /\ Idle.kind = "search" /\ Idle.due = {}
         /\ Using(Idle, sh, st) /\ Reading(Idle, p, st, as, ac)
<1>1. /\ Idle.pc = "idle" /\ Idle.kind = "search" /\ Idle.obj = NoStore /\ Idle.left = {}
      /\ Idle.due = {}
  BY DEF Idle
<1> QED BY <1>1, IdleIsGood DEF Using, Reading

\* The call is over.
LEMMA Stops ==
  ASSUME Inv, Single, Readers, NEW t \in Threads, Set(t, Idle),
         UNCHANGED <<shards, store, table, asked, acked>>
  PROVE  Readers'
BY IdleReads, Glides

LEMMA BeginSearchReads ==
  ASSUME Inv, Single, Readers, NEW t \in Threads, NEW scope \in Scopes, BeginSearch(t, scope)
  PROVE  Readers'
<1> DEFINE n == [Idle EXCEPT !.pc = "touch", !.key = <<NoStore, scope>>, !.touch = Types,
                             !.due = acked]
<1>1. Set(t, n) /\ UNCHANGED <<shards, store, table, asked, acked>>
  BY DEF BeginSearch
<1>2. acked \subseteq Writes
  <2>1. asked \in Seq([proc : Procs, key : Keys]) /\ Len(asked) <= MaxWrites
        /\ acked \subseteq DOMAIN asked /\ MaxWrites \in Nat
    BY MemoryAssumption DEF Inv, Typed
  <2>2. DOMAIN asked = 1..Len(asked) /\ Len(asked) \in Nat
    BY <2>1, Elements
  <2> QED BY <2>1, <2>2 DEF Writes
<1>3. /\ n.pc = "touch" /\ n.kind = "search" /\ n.obj = NoStore /\ n.left = {} /\ n.due = acked
  BY DEF Idle
<1>4. n \in Doing
  BY <1>2, KeysAre, IdleIsGood DEF Doing, Pcs
<1> HIDE DEF n
<1>5. Using(n, shards[ProcOf[t]], store)
  BY <1>3 DEF Using
<1> QED BY <1>1, <1>3, <1>4, <1>5, Glides

LEMMA TouchReads ==
  ASSUME Inv, Single, Readers, NEW t \in Threads, NEW type \in Types, Touch(t, type)
  PROVE  Readers'
<1> DEFINE d == op[t]
           k == <<type, d.key[2]>>
           n == [d EXCEPT !.pc = IF DbOf(k) \in files THEN "shard" ELSE "touch",
                          !.key = k, !.touch = @ \ {type}]
<1>1. Set(t, n) /\ UNCHANGED <<shards, store, table, asked, acked>> /\ d.pc = "touch"
  BY DEF Touch, At
<1>2. d \in Doing /\ d.kind = "search" /\ d.obj = NoStore /\ d.key \in Named
  BY <1>1, Here DEF Phase, Holding
<1>3. k \in Keys /\ k \in Named /\ k[2] = d.key[2]
  BY <1>2, KeysAre
<1>4. n \in Doing
  BY <1>2, <1>3 DEF Doing, Pcs
<1>5. /\ n.pc \in {"shard", "touch"} /\ n.kind = "search" /\ n.obj = NoStore
      /\ n.left = d.left /\ n.due = d.due
  BY <1>2 DEF Doing
<1> HIDE DEF n, k
<1>6. Using(n, shards[ProcOf[t]], store) /\ n.due \subseteq acked
  BY <1>5, View DEF Using, Reading
<1> QED BY <1>1, <1>4, <1>5, <1>6, Glides

LEMMA LookupReads ==
  ASSUME Inv, Single, Readers, NEW t \in Threads, Lookup(t)
  PROVE  Readers'
<1> DEFINE d == op[t]
           found == shards[ProcOf[t]][d.key]
<1>1. UNCHANGED <<shards, store, table, asked, acked>> /\ d.pc = "shard"
  BY DEF Lookup, At
<1>2. /\ d \in Doing /\ d.obj = NoStore /\ d.key \in Keys /\ d.kind \in {"search", "write"}
  BY <1>1, Here DEF Phase, Holding
<1>3. found \in Stores \cup {NoStore} /\ (found # NoStore => store[found].key = d.key)
  BY <1>2 DEF Inv, Typed, Registered, Procs
<1>4. CASE found = NoStore
  <2> DEFINE n == [d EXCEPT !.pc = "build"]
  <2>1. Set(t, n)
    BY <1>4 DEF Lookup, Goto
  <2>2. n \in Doing
    BY <1>2 DEF Doing, Pcs
  <2>3. /\ n.pc = "build" /\ n.kind = d.kind /\ n.key = d.key /\ n.obj = NoStore
        /\ n.left = d.left /\ n.write = d.write /\ n.due = d.due
    BY <1>2 DEF Doing
  <2> HIDE DEF n
  <2>4. Using(n, shards[ProcOf[t]], store) /\ n.due \subseteq acked
    BY <1>4, <2>3, View DEF Using, Reading
  <2> QED BY <1>1, <2>1, <2>2, <2>3, <2>4, Glides DEF After
<1>5. CASE found # NoStore /\ d.kind = "write"
  <2> DEFINE n == [d EXCEPT !.pc = "count", !.obj = found]
  <2>1. Set(t, n)
    BY <1>5 DEF Lookup
  <2>2. n \in Doing
    BY <1>2, <1>3 DEF Doing, Pcs
  <2>3. /\ n.pc = "count" /\ n.kind = "write" /\ n.obj = found
        /\ n.left = d.left /\ n.write = d.write /\ n.due = d.due
    BY <1>2, <1>5 DEF Doing
  <2> HIDE DEF n
  <2>4. Using(n, shards[ProcOf[t]], store) /\ n.due \subseteq acked
    BY <1>3, <1>5, <2>3, View DEF Using, Reading
  <2> HIDE DEF found
  <2> QED BY <1>1, <1>5, <2>1, <2>2, <2>3, <2>4, Glides DEF After
<1>6. CASE found # NoStore /\ d.kind = "search"
  <2> DEFINE n == [d EXCEPT !.pc = "touch", !.obj = NoStore]
  <2>1. Set(t, n)
    BY <1>6 DEF Lookup
  <2>2. n \in Doing
    BY <1>2, <1>3 DEF Doing, Pcs
  <2>3. /\ n.pc = "touch" /\ n.kind = "search" /\ n.obj = NoStore
        /\ n.left = d.left /\ n.due = d.due
    BY <1>2, <1>6 DEF Doing
  <2> HIDE DEF n
  <2>4. Using(n, shards[ProcOf[t]], store) /\ n.due \subseteq acked
    BY <2>3, View DEF Using, Reading
  <2> QED BY <1>1, <2>1, <2>2, <2>3, <2>4, Glides
<1> QED BY <1>2, <1>4, <1>5, <1>6

LEMMA CollectReads ==
  ASSUME Inv, Single, Readers, NEW t \in Threads, Collect(t)
  PROVE  Readers'
<1> DEFINE d == op[t]
           p == ProcOf[t]
           s == d.key[2]
           held == {shards[p][<<y, s>>] : y \in Types} \ {NoStore}
           n == [d EXCEPT !.pc = "contact", !.left = held]
<1>1. Set(t, n) /\ UNCHANGED <<shards, store, table, asked, acked>> /\ d.pc = "touch"
  BY DEF Collect, At
<1>2. d \in Doing /\ d.kind = "search" /\ d.obj = NoStore /\ d.key \in Named
  BY <1>1, Here DEF Phase, Holding
<1>3. p \in Procs
  BY DEF Procs
<1>4. \A o \in held : o \in Stores /\ shards[p][store[o].key] = o
  <2> SUFFICES ASSUME NEW o \in held PROVE o \in Stores /\ shards[p][store[o].key] = o
    OBVIOUS
  <2>1. PICK y \in Types : o = shards[p][<<y, s>>]
    OBVIOUS
  <2> DEFINE k == <<y, s>>
  <2>2. k \in Keys /\ o # NoStore /\ o = shards[p][k]
    BY <1>2, <2>1, KeysAre
  <2> HIDE DEF k, p, held, s
  <2> QED BY <1>3, <2>2 DEF Inv, Typed, Registered
<1> HIDE DEF held
<1>5. n \in Doing
  BY <1>2, <1>4 DEF Doing, Pcs
<1>6. /\ n.pc = "contact" /\ n.kind = "search" /\ n.obj = NoStore /\ n.left = held /\ n.due = d.due
  BY <1>2 DEF Doing
<1> HIDE DEF n
<1>7. Using(n, shards[ProcOf[t]], store) /\ n.due \subseteq acked
  BY <1>4, <1>6, View DEF Using, Reading
<1> QED BY <1>1, <1>5, <1>6, <1>7, Glides

LEMMA ContactReads ==
  ASSUME Inv, Single, Readers, NEW t \in Threads, NEW o \in Stores, Contact(t, o)
  PROVE  Readers'
<1> DEFINE d == op[t]
           n == [d EXCEPT !.pc = "load", !.obj = o, !.left = @ \ {o}]
<1>1. /\ Set(t, n) /\ UNCHANGED <<shards, store, table, asked, acked>>
      /\ d.pc = "contact" /\ o \in d.left
  BY DEF Contact, At
<1>2. d \in Doing /\ d.kind = "search"
  BY <1>1, Here DEF Phase
<1>3. n \in Doing
  BY <1>2 DEF Doing, Pcs
<1>4. /\ n.pc = "load" /\ n.kind = "search" /\ n.obj = o /\ n.left = d.left \ {o} /\ n.due = d.due
  BY <1>2 DEF Doing
<1> HIDE DEF n
<1>5. Using(n, shards[ProcOf[t]], store) /\ n.due \subseteq acked
  BY <1>1, <1>4, View DEF Using, Reading
<1> QED BY <1>1, <1>3, <1>4, <1>5, Glides

LEMMA LoadReads ==
  ASSUME Inv, Single, Readers, NEW t \in Threads, Load(t)
  PROVE  Readers'
<1> DEFINE d == op[t]
           n == [d EXCEPT !.pc = IF Conn(t).cache # NoCache THEN "return" ELSE "select"]
<1>1. Set(t, n) /\ UNCHANGED <<shards, store, table, asked, acked>> /\ d.pc = "load"
  BY DEF Load, At, Goto
<1>2. d \in Doing
  BY Here
<1>3. n \in Doing
  BY <1>2 DEF Doing, Pcs
<1>4. /\ n.pc \in {"return", "select"} /\ n.kind = d.kind /\ n.obj = d.obj
      /\ n.left = d.left /\ n.write = d.write /\ n.due = d.due
  BY <1>2 DEF Doing
<1> HIDE DEF n
<1>5. Using(n, shards[ProcOf[t]], store) /\ n.due \subseteq acked
  BY <1>1, <1>4, View DEF Using, Reading
<1>6. n.kind = "write" => /\ d.kind = "write" /\ n.write = d.write
                          /\ n.pc \in After => d.pc \in Loading /\ n.obj = d.obj
  BY <1>1, <1>4 DEF Loading
<1> QED BY <1>1, <1>3, <1>4, <1>5, <1>6, Glides

\* The thread moves, and its store changes its transaction or its cache, or its table grows.
LEMMA Alters ==
  ASSUME Inv, Single, Readers, NEW t \in Threads, NEW n \in Doing, Set(t, n), NEW o \in Stores, NEW b,
         op[t].obj = o, op[t].pc # "install", n.pc \notin {"build", "install"},
         n.obj \in {o, NoStore}, n.left \subseteq op[t].left,
         UNCHANGED <<shards, asked, acked>>,
         store' = [store EXCEPT ![o] = b], b.key = store[o].key,
         \A k \in Keys : \A i \in DOMAIN table[k] :
           i \in DOMAIN table'[k] /\ table'[k][i] = table[k][i],
         \A k \in Keys \ {b.key} : Mine(n, ProcOf[t], k, asked, acked)
                                     \subseteq Mine(op[t], ProcOf[t], k, asked, acked),
         \A w \in Mine(n, ProcOf[t], b.key, asked, acked) :
           /\ b.cache # NoCache => w \in b.cache
           /\ b.tx = "read" =>
                \E i \in DOMAIN table'[b.key] : i <= b.seen /\ table'[b.key][i].write = w,
         Reading(n, ProcOf[t], store', asked, acked)
  PROVE  Readers'
<1> DEFINE d == op[t]
           p == ProcOf[t]
           sh == shards[p]
<1>1. Fresh(d, p, sh, store, table, asked, acked) /\ Using(d, sh, store)
  BY View
<1>2. /\ store'[o] = b /\ \A q \in Stores : q # o => store'[q] = store[q]
      /\ \A q \in Stores : store'[q].key = store[q].key
  BY DEF Inv, Typed
<1>3. b.key \in Keys /\ Holds(d, sh, b.key, o) /\ d.left \subseteq Stores
  BY <1>1, UsedAreHeld, NoStoreIsNone, Here
<1>4. \A k, q : Holds(n, sh, k, q) => Holds(d, sh, k, q)
  BY DEF Holds
<1>5. Fresh(n, p, sh, store', table', asked, acked)
  <2> SUFFICES ASSUME NEW k \in Keys, NEW q \in Stores, Holds(n, sh, k, q),
                      NEW w \in Mine(n, p, k, asked, acked)
               PROVE  /\ store'[q].cache # NoCache => w \in store'[q].cache
                      /\ store'[q].tx = "read" =>
                           \E i \in DOMAIN table'[k] : i <= store'[q].seen /\ table'[k][i].write = w
    BY DEF Fresh
  <2>1. store[q].key = k
    BY <1>4, HeldIsLive
  <2>2. CASE q = o
    BY <1>2, <2>1, <2>2
  <2>3. CASE q # o
    <3>1. Holds(d, sh, k, q) /\ store'[q] = store[q]
      BY <1>2, <1>4, <2>3
    <3>2. k # b.key
      BY <1>1, <1>3, <2>3, NoStoreIsNone DEF Using, Holds
    <3>3. w \in Mine(d, p, k, asked, acked)
      BY <3>2
    <3>4. /\ store[q].cache # NoCache => w \in store[q].cache
          /\ store[q].tx = "read" =>
               \E i \in DOMAIN table[k] : i <= store[q].seen /\ table[k][i].write = w
      BY <1>1, <3>1, <3>3 DEF Fresh
    <3> QED BY <3>1, <3>4
  <2> QED BY <2>2, <2>3
<1>6. Using(n, sh, store')
  <2>1. o # NoStore /\ sh[store[o].key] = o /\ \A q \in d.left : sh[store[q].key] = q
    BY <1>1, NoStoreIsNone DEF Using
  <2> QED BY <1>2, <1>3, <2>1 DEF Using
<1>7. Private(n, p, shards'[p], store', table', asked', acked')
  BY <1>5, <1>6 DEF Private
<1>8. \A w \in acked' : w \in DOMAIN asked /\ w \in acked
  BY DEF Inv, Typed
<1>9. \A k \in Keys, q \in Stores : Holds(n, shards'[p], k, q) => Holds(d, sh, k, q)
  BY <1>4
<1>10. \A q \in Stores : store'[q] = store[q] \/ \E k \in Keys : Holds(d, sh, k, q)
  BY <1>2, <1>3
<1> HIDE DEF d, sh
<1> QED BY <1>7, <1>8, <1>9, <1>10, Aside DEF d, sh

\* A thread that is not loading has no write to add to those that returned.
LEMMA MineShrinks ==
  ASSUME NEW d, NEW n, NEW p, NEW as, NEW ac,
         n.kind = "write" /\ n.pc \in Loading =>
           d.kind = "write" /\ d.pc \in Loading /\ n.write = d.write
  PROVE  \A k : Mine(n, p, k, as, ac) \subseteq Mine(d, p, k, as, ac)
BY DEF Mine

\* A thread that has a store in use, and that store.
LEMMA InUse ==
  ASSUME Inv, Readers, NEW t \in Threads, op[t].obj # NoStore, op[t].pc # "install"
  PROVE  /\ op[t].obj \in Stores /\ store[op[t].obj] \in Object /\ store[op[t].obj].key \in Keys
         /\ store \in [Stores -> Object]
         /\ \A w \in Mine(op[t], ProcOf[t], store[op[t].obj].key, asked, acked) :
              /\ store[op[t].obj].cache # NoCache => w \in store[op[t].obj].cache
              /\ store[op[t].obj].tx = "read" =>
                   \E i \in DOMAIN table[store[op[t].obj].key] :
                     /\ i <= store[op[t].obj].seen
                     /\ table[store[op[t].obj].key][i].write = w
<1>1. /\ op[t].obj \in Stores /\ store[op[t].obj].key \in Keys
      /\ Holds(op[t], shards[ProcOf[t]], store[op[t].obj].key, op[t].obj)
  BY View, UsedAreHeld
<1>2. store \in [Stores -> Object] /\ store[op[t].obj] \in Object
  BY <1>1 DEF Inv, Typed
<1>3. Fresh(op[t], ProcOf[t], shards[ProcOf[t]], store, table, asked, acked)
  BY View
<1> HIDE DEF Holds
<1> QED BY <1>1, <1>2, <1>3 DEF Fresh

LEMMA InsertClashesReads ==
  ASSUME Inv, Single, Readers, NEW t \in Threads, InsertClashes(t)
  PROVE  Readers'
<1> DEFINE o == op[t].obj
           b == [store[o] EXCEPT !.tx = "write", !.seen = 0]
<1>1. op[t].pc = "insert" /\ o # NoStore
  BY Here DEF InsertClashes, At, Phase, Holding
<1>2. o \in Stores /\ store \in [Stores -> Object] /\ store[o] \in Object
  BY <1>1, InUse
<1>3. b.key = store[o].key /\ b.cache = store[o].cache /\ b.tx = "write"
  BY <1>2 DEF Object
<1>4. Set(t, Idle) /\ store' = [store EXCEPT ![o] = b] /\ UNCHANGED <<shards, table, asked, acked>>
  BY <1>2 DEF InsertClashes, Fail
<1>5. \A k : Mine(Idle, ProcOf[t], k, asked, acked) \subseteq Mine(op[t], ProcOf[t], k, asked, acked)
  BY IdleReads, MineShrinks
<1>6. \A w \in Mine(Idle, ProcOf[t], b.key, asked, acked) : b.cache # NoCache => w \in b.cache
  BY <1>1, <1>3, <1>5, InUse
<1>7. Idle.obj = NoStore /\ Idle.left = {}
  BY DEF Idle
<1> HIDE DEF b, o
<1> QED BY <1>1, <1>2, <1>3, <1>4, <1>5, <1>6, <1>7, IdleReads, Alters DEF o

LEMMA InsertBusyReads ==
  ASSUME Inv, Single, Readers, NEW t \in Threads, InsertBusy(t)
  PROVE  Readers'
<1> DEFINE o == op[t].obj
           b == [store[o] EXCEPT !.tx = IF @ = "none" THEN "open" ELSE @]
<1>1. op[t].pc = "insert" /\ o # NoStore
  BY Here DEF InsertBusy, At, Phase, Holding
<1>2. o \in Stores /\ store \in [Stores -> Object] /\ store[o] \in Object
  BY <1>1, InUse
<1>3. /\ b.key = store[o].key /\ b.cache = store[o].cache /\ b.seen = store[o].seen
      /\ b.tx = IF store[o].tx = "none" THEN "open" ELSE store[o].tx
  BY <1>2 DEF Object
<1>4. Set(t, Idle) /\ store' = [store EXCEPT ![o] = b] /\ UNCHANGED <<shards, table, asked, acked>>
  BY <1>2 DEF InsertBusy, Fail
<1>5. \A k : Mine(Idle, ProcOf[t], k, asked, acked) \subseteq Mine(op[t], ProcOf[t], k, asked, acked)
  BY IdleReads, MineShrinks
<1>6. \A w \in Mine(Idle, ProcOf[t], b.key, asked, acked) :
        /\ b.cache # NoCache => w \in b.cache
        /\ b.tx = "read" =>
             \E i \in DOMAIN table'[b.key] : i <= b.seen /\ table'[b.key][i].write = w
  BY <1>1, <1>3, <1>4, <1>5, InUse
<1>7. Idle.obj = NoStore /\ Idle.left = {}
  BY DEF Idle
<1> HIDE DEF b, o
<1> QED BY <1>1, <1>2, <1>3, <1>4, <1>5, <1>6, <1>7, IdleReads, Alters DEF o

LEMMA InsertReads ==
  ASSUME Inv, Single, Readers, NEW t \in Threads, Insert(t)
  PROVE  Readers'
<1> DEFINE d == op[t]
           o == d.obj
           b == [store[o] EXCEPT !.tx = "write", !.seen = 0,
                                 !.pending = Append(@, [id |-> d.id, write |-> d.write])]
           n == [d EXCEPT !.pc = "commit"]
<1>1. d.pc = "insert" /\ o # NoStore /\ d \in Doing
  BY Here DEF Insert, At, Phase, Holding
<1>2. o \in Stores /\ store \in [Stores -> Object] /\ store[o] \in Object
  BY <1>1, InUse
<1>3. b.key = store[o].key /\ b.cache = store[o].cache /\ b.tx = "write"
  BY <1>2 DEF Object
<1>4. Set(t, n) /\ store' = [store EXCEPT ![o] = b] /\ UNCHANGED <<shards, table, asked, acked>>
  BY <1>2 DEF Insert, Conn, Goto
<1>5. /\ n \in Doing /\ n.pc = "commit" /\ n.kind = d.kind /\ n.obj = o /\ n.left = d.left
      /\ n.write = d.write /\ n.due = d.due
  BY <1>1 DEF Doing, Pcs
<1> HIDE DEF b, n
<1>6. \A k : Mine(n, ProcOf[t], k, asked, acked) \subseteq Mine(d, ProcOf[t], k, asked, acked)
  BY <1>5, MineShrinks DEF Loading
<1>7. \A w \in Mine(n, ProcOf[t], b.key, asked, acked) : b.cache # NoCache => w \in b.cache
  BY <1>1, <1>3, <1>6, InUse
<1>8. Reading(n, ProcOf[t], store', asked, acked)
  BY <1>5, View DEF Reading, After
<1> HIDE DEF o
<1> QED BY <1>1, <1>2, <1>3, <1>4, <1>5, <1>6, <1>7, <1>8, Alters DEF o

LEMMA CommitReads ==
  ASSUME Inv, Single, Readers, NEW t \in Threads, Commit(t)
  PROVE  Readers'
<1> DEFINE d == op[t]
           o == d.obj
           k == store[o].key
           b == [store[o] EXCEPT !.tx = "none", !.seen = 0, !.pending = <<>>]
           n == [d EXCEPT !.pc = "invalidate"]
<1>1. d.pc = "commit" /\ o # NoStore /\ d \in Doing
  BY Here DEF Commit, At, Phase, Holding
<1>2. o \in Stores /\ store \in [Stores -> Object] /\ store[o] \in Object /\ k \in Keys
  BY <1>1, InUse
<1>3. b.key = k /\ b.cache = store[o].cache /\ b.tx = "none"
  BY <1>2 DEF Object
<1>4. /\ Set(t, n) /\ store' = [store EXCEPT ![o] = b] /\ UNCHANGED <<shards, asked, acked>>
      /\ table' = [table EXCEPT ![k] = Filled(o)]
  BY <1>2 DEF Commit, Conn, Goto, Db, DbOf, Filled
<1>5. /\ n \in Doing /\ n.pc = "invalidate" /\ n.kind = d.kind /\ n.obj = o /\ n.left = d.left
      /\ n.write = d.write /\ n.due = d.due
  BY <1>1 DEF Doing, Pcs
<1>6. \A j \in Keys : \A i \in DOMAIN table[j] : i \in DOMAIN table'[j] /\ table'[j][i] = table[j][i]
  <2>1. table \in [Keys -> Seq(Row)]
    BY DEF Inv, Typed
  <2>2. \A i \in DOMAIN table[k] : i \in DOMAIN Filled(o) /\ Filled(o)[i] = table[k][i]
    BY <1>2, CommitIs
  <2> HIDE DEF k, o, b
  <2> QED BY <1>2, <1>4, <2>1, <2>2
<1> HIDE DEF b, n
<1>7. \A j : Mine(n, ProcOf[t], j, asked, acked) \subseteq Mine(d, ProcOf[t], j, asked, acked)
  BY <1>5, MineShrinks DEF Loading
<1>8. \A w \in Mine(n, ProcOf[t], b.key, asked, acked) : b.cache # NoCache => w \in b.cache
  BY <1>1, <1>3, <1>7, InUse
<1>9. Reading(n, ProcOf[t], store', asked, acked)
  BY <1>2, <1>3, <1>4, <1>5, View DEF Reading
<1> HIDE DEF o, k
<1> QED BY <1>1, <1>2, <1>3, <1>4, <1>5, <1>6, <1>7, <1>8, <1>9, Alters DEF o, k

\* What the process wrote is in the table of its key.
LEMMA MineIsFiled ==
  ASSUME Inv, NEW t \in Threads, NEW k \in Keys, NEW w \in Mine(op[t], ProcOf[t], k, asked, acked)
  PROVE  \E i \in DOMAIN table[k] : table[k][i].write = w
<1>1. /\ asked[w].key = k
      /\ w \in acked \/ (op[t].kind = "write" /\ op[t].pc \in Loading /\ op[t].write = w)
  BY DEF Mine
<1>2. InTable(w, table)
  BY <1>1, Here DEF Inv, Recalled, Stage, After, Loading
<1>3. PICK j \in Keys : \E i \in DOMAIN table[j] : table[j][i].write = w
  BY <1>2 DEF InTable
<1>4. j = k
  BY <1>1, <1>3 DEF Inv, Filed, Of
<1> QED BY <1>3, <1>4

\* So it is among the rows a statement of its connection sees.
LEMMA MineIsSeen ==
  ASSUME Inv, Readers, NEW t \in Threads, op[t].obj # NoStore, op[t].pc # "install"
  PROVE  Mine(op[t], ProcOf[t], store[op[t].obj].key, asked, acked) \subseteq Seen(op[t].obj)
<1> DEFINE o == op[t].obj
           k == store[o].key
           s == table[k]
           p == store[o].pending
           m == store[o].seen
<1> SUFFICES ASSUME NEW w \in Mine(op[t], ProcOf[t], k, asked, acked) PROVE w \in Seen(o)
  OBVIOUS
<1>1. o \in Stores /\ store[o] \in Object /\ k \in Keys
  BY InUse
<1>2. s \in Seq(Row) /\ p \in Seq(Row) /\ m \in 0..MaxWrites /\ Db(o) = k
  BY <1>1, ObjectFields DEF Inv, Typed, Db, DbOf
<1>3. /\ Len(s) \in Nat /\ DOMAIN s = 1..Len(s) /\ \A i \in 1..Len(s) : s[i] \in Row
      /\ Len(p) \in Nat
  BY <1>2, Elements
<1>4. Visible(o) = CASE store[o].tx = "read" -> SubSeq(s, 1, m)
                     [] store[o].tx = "write" -> s \o p
                     [] OTHER -> s
  BY <1>2 DEF Visible
<1>5. SUFFICES \E i \in DOMAIN Visible(o) : Visible(o)[i].write = w
  BY DEF Seen, Range
<1>6. PICK i \in DOMAIN s : s[i].write = w
  BY <1>1, MineIsFiled
<1>7. CASE store[o].tx = "read"
  <2>1. PICK j \in DOMAIN s : j <= m /\ s[j].write = w
    BY <1>7, InUse
  <2>2. m \in Nat /\ m <= Len(s)
    BY <1>1, <1>2, <1>7, MemoryAssumption DEF Inv, Snapshots
  <2>3. \A x \in 1..m : x \in 1..Len(s) /\ s[x] \in Row
    BY <1>3, <2>2
  <2>4. /\ Len(SubSeq(s, 1, m)) = m /\ SubSeq(s, 1, m) \in Seq(Row)
        /\ \A x \in 1..m : SubSeq(s, 1, m)[x] = s[x]
    <3> HIDE DEF s, m, o
    <3> QED BY <1>2, <1>3, <2>2, <2>3, SubSeqProperties
  <2>5. DOMAIN SubSeq(s, 1, m) = 1..m
    BY <2>4, Elements
  <2>6. j \in 1..m
    BY <1>3, <2>1, <2>2
  <2> HIDE DEF s, m, o
  <2> QED BY <1>4, <1>7, <2>1, <2>4, <2>5, <2>6
<1>8. CASE store[o].tx = "write"
  <2>1. /\ DOMAIN (s \o p) = 1..Len(s) + Len(p)
        /\ \A x \in 1..Len(s) : (s \o p)[x] = s[x]
    <3>1. /\ s \o p \in Seq(Row) /\ Len(s \o p) = Len(s) + Len(p)
          /\ \A x \in 1..Len(s) + Len(p) : (s \o p)[x] = IF x <= Len(s) THEN s[x] ELSE p[x - Len(s)]
      BY <1>2, ConcatProperties
    <3>2. DOMAIN (s \o p) = 1..Len(s) + Len(p)
      BY <3>1, Elements
    <3> HIDE DEF s, p
    <3> QED BY <1>3, <3>1, <3>2
  <2> HIDE DEF s, p, o
  <2>2. i \in 1..Len(s) + Len(p) /\ i \in 1..Len(s)
    BY <1>3, <1>6
  <2> QED BY <1>4, <1>6, <1>8, <2>1, <2>2
<1>9. CASE store[o].tx \notin {"read", "write"}
  <2> HIDE DEF s, p, o
  <2> QED BY <1>4, <1>6, <1>9
<1> QED BY <1>7, <1>8, <1>9

LEMMA InvalidateReads ==
  ASSUME Inv, Single, Readers, NEW t \in Threads, Invalidate(t)
  PROVE  Readers'
<1> DEFINE d == op[t]
           o == d.obj
           b == [store[o] EXCEPT !.cache = NoCache]
           n == [d EXCEPT !.pc = "load"]
<1>1. d.pc = "invalidate" /\ o # NoStore /\ d \in Doing /\ d.kind = "write"
  BY Here DEF Invalidate, At, Phase, Holding
<1>2. o \in Stores /\ store \in [Stores -> Object] /\ store[o] \in Object
  BY <1>1, InUse
<1>3. b.key = store[o].key /\ b.cache = NoCache /\ b.tx = store[o].tx /\ store[o].tx = "none"
  BY <1>1, <1>2, View DEF Object, Reading, After
<1>4. Set(t, n) /\ store' = [store EXCEPT ![o] = b] /\ UNCHANGED <<shards, table, asked, acked>>
  BY <1>2 DEF Invalidate, Goto
<1>5. /\ n \in Doing /\ n.pc = "load" /\ n.kind = d.kind /\ n.obj = o /\ n.left = d.left
      /\ n.write = d.write /\ n.due = d.due
  BY <1>1 DEF Doing, Pcs
<1> HIDE DEF b, n
<1>6. \A k \in Keys \ {b.key} :
        Mine(n, ProcOf[t], k, asked, acked) \subseteq Mine(d, ProcOf[t], k, asked, acked)
  <2>1. asked[n.write].key = b.key
    BY <1>1, <1>3, <1>5, Here DEF Stage, Of, Refers
  <2> QED BY <2>1 DEF Mine
<1>7. Reading(n, ProcOf[t], store', asked, acked)
  BY <1>1, <1>2, <1>3, <1>4, <1>5, View DEF Reading
<1> HIDE DEF o
<1> QED BY <1>1, <1>2, <1>3, <1>4, <1>5, <1>6, <1>7, Alters DEF o

LEMMA StoreReads ==
  ASSUME Inv, Single, Readers, NEW t \in Threads, Store(t)
  PROVE  Readers'
<1> DEFINE d == op[t]
           o == d.obj
           b == [store[o] EXCEPT !.cache = d.rows]
           n == [d EXCEPT !.pc = "return", !.rows = {}]
<1>1. d.pc = "store" /\ o # NoStore /\ d \in Doing
  BY Here DEF Store, At, Phase, Holding
<1>2. o \in Stores /\ store \in [Stores -> Object] /\ store[o] \in Object
  BY <1>1, InUse
<1>3. b.key = store[o].key /\ b.cache = d.rows /\ b.tx = store[o].tx /\ b.seen = store[o].seen
  BY <1>2 DEF Object
<1>4. Set(t, n) /\ store' = [store EXCEPT ![o] = b] /\ UNCHANGED <<shards, table, asked, acked>>
  BY <1>2 DEF Store
<1>5. /\ n \in Doing /\ n.pc = "return" /\ n.kind = d.kind /\ n.obj = o /\ n.left = d.left
      /\ n.write = d.write /\ n.due = d.due
  BY <1>1 DEF Doing, Pcs
<1> HIDE DEF b, n
<1>6. \A k : Mine(n, ProcOf[t], k, asked, acked) \subseteq Mine(d, ProcOf[t], k, asked, acked)
  BY <1>1, <1>5, MineShrinks DEF Loading
<1>7. \A w \in Mine(n, ProcOf[t], b.key, asked, acked) :
        /\ b.cache # NoCache => w \in b.cache
        /\ b.tx = "read" =>
             \E i \in DOMAIN table'[b.key] : i <= b.seen /\ table'[b.key][i].write = w
  <2>1. Mine(d, ProcOf[t], b.key, asked, acked) \subseteq d.rows
    BY <1>1, <1>3, View DEF Reading
  <2> QED BY <1>1, <1>3, <1>4, <1>6, <2>1, InUse
<1>8. Reading(n, ProcOf[t], store', asked, acked)
  BY <1>1, <1>2, <1>3, <1>4, <1>5, View DEF Reading, After
<1> HIDE DEF o
<1> QED BY <1>1, <1>2, <1>3, <1>4, <1>5, <1>6, <1>7, <1>8, Alters DEF o

\* A SELECT: the snapshot it takes has what the process wrote.
LEMMA Selects ==
  ASSUME Inv, Single, Readers, NEW t \in Threads, NEW n \in Doing, Set(t, n),
         op[t].obj # NoStore, op[t].pc # "install", Selected(op[t].obj),
         n.pc \notin {"build", "install"}, n.obj = op[t].obj, n.left = op[t].left,
         n.kind = op[t].kind, n.write = op[t].write, n.due = op[t].due,
         n.pc \in After => op[t].pc \in Loading,
         n.pc = "store" => n.rows = Seen(op[t].obj),
         UNCHANGED <<shards, table, asked, acked>>
  PROVE  Readers'
<1> DEFINE d == op[t]
           o == d.obj
           k == store[o].key
           b == IF store[o].tx = "open"
                  THEN [store[o] EXCEPT !.tx = "read", !.seen = Len(table[k])] ELSE store[o]
<1>1. o \in Stores /\ store \in [Stores -> Object] /\ store[o] \in Object /\ k \in Keys
  BY InUse
<1>2. store' = [store EXCEPT ![o] = b]
  BY <1>1 DEF Selected, Db, DbOf
<1>3. /\ b.key = k /\ b.cache = store[o].cache
      /\ b.tx = IF store[o].tx = "open" THEN "read" ELSE store[o].tx
      /\ b.seen = IF store[o].tx = "open" THEN Len(table[k]) ELSE store[o].seen
  BY <1>1 DEF Object
<1> HIDE DEF b
<1>4. Loading \subseteq After
  BY DEF Loading, After
<1>5. \A j : Mine(n, ProcOf[t], j, asked, acked) \subseteq Mine(d, ProcOf[t], j, asked, acked)
  BY <1>4, MineShrinks
<1>6. \A w \in Mine(n, ProcOf[t], b.key, asked, acked) :
        /\ b.cache # NoCache => w \in b.cache
        /\ b.tx = "read" =>
             \E i \in DOMAIN table'[b.key] : i <= b.seen /\ table'[b.key][i].write = w
  <2> SUFFICES ASSUME NEW w \in Mine(d, ProcOf[t], k, asked, acked)
               PROVE  /\ b.cache # NoCache => w \in b.cache
                      /\ b.tx = "read" => \E i \in DOMAIN table[k] : i <= b.seen /\ table[k][i].write = w
    BY <1>3, <1>5
  <2>1. CASE store[o].tx = "open"
    <3>1. PICK i \in DOMAIN table[k] : table[k][i].write = w
      BY <1>1, MineIsFiled
    <3>2. i <= Len(table[k])
      <4>1. table[k] \in Seq(Row)
        BY <1>1 DEF Inv, Typed
      <4>2. DOMAIN table[k] = 1..Len(table[k]) /\ Len(table[k]) \in Nat
        BY <4>1, Elements
      <4> QED BY <3>1, <4>2
    <3> QED BY <1>3, <2>1, <3>1, <3>2, InUse
  <2>2. CASE store[o].tx # "open"
    BY <1>3, <2>2, InUse
  <2> QED BY <2>1, <2>2
<1>7. Reading(n, ProcOf[t], store', asked, acked)
  <2>1. store'[o] = b
    BY <1>1, <1>2
  <2>2. n.pc = "store" => Mine(n, ProcOf[t], k, asked, acked) \subseteq n.rows
    BY <1>5, MineIsSeen
  <2>3. n.kind = "write" /\ n.pc \in After => b.tx = "none"
    BY <1>3, <1>4, View DEF Reading
  <2>4. (n.kind = "write" => asked[n.write].proc = ProcOf[t]) /\ n.due \subseteq acked
    BY View DEF Reading
  <2> QED BY <1>3, <2>1, <2>2, <2>3, <2>4 DEF Reading
<1> HIDE DEF o, k
<1> QED BY <1>1, <1>2, <1>3, <1>5, <1>6, <1>7, Alters DEF o, k

LEMMA CountReads ==
  ASSUME Inv, Single, Readers, NEW t \in Threads, Count(t)
  PROVE  Readers'
<1> DEFINE d == op[t]
           o == d.obj
           n == [d EXCEPT !.pc = "insert", !.id = Len(Visible(o))]
<1>1. /\ Set(t, n) /\ Selected(o) /\ UNCHANGED <<shards, table, asked, acked>> /\ d.pc = "count"
  BY DEF Count, At
<1>2. d \in Doing /\ o # NoStore
  BY <1>1, Here DEF Phase, Holding
<1>3. Len(Visible(o)) \in 0..MaxWrites
  BY <1>1, <1>2, InUse, VisibleIs
<1>4. /\ n \in Doing /\ n.pc = "insert" /\ n.kind = d.kind /\ n.obj = o /\ n.left = d.left
      /\ n.write = d.write /\ n.due = d.due
  BY <1>2, <1>3 DEF Doing, Pcs
<1> HIDE DEF n
<1> QED BY <1>1, <1>2, <1>4, Selects DEF After

LEMMA SelectReads ==
  ASSUME Inv, Single, Readers, NEW t \in Threads, Select(t)
  PROVE  Readers'
<1> DEFINE d == op[t]
           o == d.obj
           n == [d EXCEPT !.pc = "store", !.rows = Seen(o)]
<1>1. /\ Set(t, n) /\ Selected(o) /\ UNCHANGED <<shards, table, asked, acked>> /\ d.pc = "select"
  BY DEF Select, At
<1>2. d \in Doing /\ o # NoStore
  BY <1>1, Here DEF Phase, Holding
<1>3. Seen(o) \subseteq Writes
  BY <1>1, <1>2, InUse, VisibleIs
<1>4. /\ n \in Doing /\ n.pc = "store" /\ n.kind = d.kind /\ n.obj = o /\ n.left = d.left
      /\ n.write = d.write /\ n.due = d.due /\ n.rows = Seen(o)
  BY <1>2, <1>3 DEF Doing, Pcs
<1> HIDE DEF n
<1> QED BY <1>1, <1>2, <1>4, Selects DEF Loading

LEMMA ReturnReads ==
  ASSUME Inv, Single, Readers, NEW t \in Threads, Return(t)
  PROVE  Readers'
<1> DEFINE d == op[t]
           p == ProcOf[t]
           c == store[d.obj].cache
<1>1. d.pc = "return" /\ UNCHANGED <<shards, store, table, asked>>
  BY DEF Return, At
<1>2. /\ d \in Doing /\ d.obj \in Stores /\ d.kind \in {"search", "write"}
      /\ Stage(d, store, table, asked)
  BY <1>1, Here DEF Phase, Holding
<1>3. CASE c = NoCache
  <2>1. Set(t, Idle) /\ UNCHANGED acked
    BY <1>3 DEF Return, Fail, Conn
  <2> QED BY <1>1, <2>1, Stops
<1>4. CASE c # NoCache /\ d.kind = "write"
  <2>1. Set(t, Idle) /\ acked' = acked \cup {d.write}
    BY <1>4 DEF Return, Proceed, Conn
  <2>2. d.write \in DOMAIN asked /\ asked[d.write].proc = p /\ acked \subseteq DOMAIN asked
    BY <1>2, <1>4, View DEF Stage, Of, Reading, Inv, Typed
  <2>3. \A k \in Keys : Mine(Idle, p, k, asked, acked') \subseteq Mine(d, p, k, asked, acked)
    BY <1>1, <1>4, <2>1, IdleReads DEF Mine, Loading
  <2>4. \A k, o : Holds(Idle, shards[p], k, o) => Holds(d, shards[p], k, o)
    BY IdleReads DEF Holds
  <2>5. Fresh(d, p, shards[p], store, table, asked, acked)
    BY View
  <2>6. Fresh(Idle, p, shards[p], store, table, asked, acked')
    BY <2>3, <2>4, <2>5, FreshKept
  <2>7. Private(Idle, p, shards'[p], store', table', asked', acked')
    BY <1>1, <2>6, IdleReads DEF Private
  <2>8. \A w \in acked' : w \in DOMAIN asked /\ (w \in acked \/ asked[w].proc = p)
    BY <2>1, <2>2
  <2>9. \A k \in Keys, o \in Stores : Holds(Idle, shards'[p], k, o) =>
          ~Live(o) \/ \E j \in Keys : Holds(d, shards[p], j, o)
    BY <1>1, <2>4
  <2>10. /\ \A q \in Procs : q # p => shards'[q] = shards[q]
         /\ \A o \in Stores : store'[o] = store[o]
         /\ \A k \in Keys : \A i \in DOMAIN table[k] :
              i \in DOMAIN table'[k] /\ table'[k][i] = table[k][i]
         /\ \A w \in DOMAIN asked : w \in DOMAIN asked' /\ asked'[w] = asked[w]
         /\ acked \subseteq acked'
    BY <1>1, <2>1
  <2>11. Idle \in Doing
    BY IdleReads
  <2> HIDE DEF d, p
  <2> QED BY <2>1, <2>7, <2>8, <2>9, <2>10, <2>11, Aside DEF d, p
<1>5. CASE c # NoCache /\ d.kind = "search"
  <2> DEFINE n == [d EXCEPT !.pc = "contact", !.obj = NoStore, !.got = @ \cup c]
  <2>1. Set(t, n) /\ UNCHANGED acked
    BY <1>5 DEF Return, Proceed, Conn
  <2>2. c \subseteq Writes
    BY <1>2, <1>5, ObjectFields DEF Inv, Typed
  <2> HIDE DEF c
  <2>3. /\ n \in Doing /\ n.pc = "contact" /\ n.kind = "search" /\ n.obj = NoStore
        /\ n.left = d.left /\ n.due = d.due
    BY <1>2, <1>5, <2>2 DEF Doing, Pcs
  <2> HIDE DEF n
  <2>4. Using(n, shards[ProcOf[t]], store) /\ n.due \subseteq acked
    BY <2>3, View DEF Using, Reading
  <2> QED BY <1>1, <2>1, <2>3, <2>4, Glides
<1> QED BY <1>2, <1>3, <1>4, <1>5

LEMMA BeginWriteReads ==
  ASSUME Inv, Single, Readers, NEW t \in Threads, NEW key \in Keys, BeginWrite(t, key)
  PROVE  Readers'
<1> DEFINE l == Len(asked)
           p == ProcOf[t]
           d == op[t]
           a == [proc |-> p, key |-> key]
           n == [Idle EXCEPT !.pc = "shard", !.kind = "write", !.key = key, !.write = l + 1]
<1>1. /\ l < MaxWrites /\ asked' = Append(asked, a) /\ Set(t, n)
      /\ UNCHANGED <<shards, store, table, acked>>
  BY DEF BeginWrite
<1>2. /\ asked \in Seq([proc : Procs, key : Keys]) /\ a \in [proc : Procs, key : Keys]
      /\ MaxWrites \in Nat /\ acked \subseteq DOMAIN asked /\ a.proc = p
  BY MemoryAssumption DEF Inv, Typed, Procs
<1>3. /\ l \in Nat /\ DOMAIN asked = 1..l /\ DOMAIN asked' = 1..l + 1
      /\ \A w \in 1..l : asked'[w] = asked[w]
      /\ asked'[l + 1] = a
  BY <1>1, <1>2, Added, Elements
<1> HIDE DEF a, l
<1>4. /\ l + 1 \in 0..MaxWrites
      /\ \A w \in DOMAIN asked : w \in DOMAIN asked' /\ asked'[w] = asked[w]
  BY <1>1, <1>2, <1>3
<1>5. n \in Doing
  BY <1>4, KeysAre, IdleIsGood DEF Doing, Pcs
<1>6. /\ n.pc = "shard" /\ n.kind = "write" /\ n.obj = NoStore /\ n.write = l + 1 /\ n.left = {}
      /\ n.due = {}
  BY DEF Idle
<1> HIDE DEF n, d
<1>7. \A k : Mine(n, p, k, asked', acked) \subseteq Mine(d, p, k, asked, acked)
  BY <1>2, <1>4, <1>6 DEF Mine, Loading
<1>8. \A k, o : Holds(n, shards[p], k, o) => Holds(d, shards[p], k, o)
  BY <1>6 DEF Holds
<1>9. Fresh(d, p, shards[p], store, table, asked, acked)
  BY View DEF d
<1>10. Fresh(n, p, shards[p], store, table, asked', acked)
  BY <1>7, <1>8, <1>9, FreshKept
<1>11. Using(n, shards[p], store) /\ Reading(n, p, store, asked', acked)
  BY <1>2, <1>3, <1>6 DEF Using, Reading, After
<1>12. Private(n, p, shards'[p], store', table', asked', acked')
  BY <1>1, <1>10, <1>11 DEF Private
<1>13. \A k \in Keys, o \in Stores : Holds(n, shards'[p], k, o) =>
          ~Live(o) \/ \E j \in Keys : Holds(d, shards[p], j, o)
  BY <1>1, <1>8
<1>14. \A w \in acked' : w \in DOMAIN asked /\ w \in acked
  BY <1>1, <1>2
<1> QED BY <1>1, <1>4, <1>5, <1>12, <1>13, <1>14, Aside DEF d

LEMMA BuildReads ==
  ASSUME Inv, Single, Readers, NEW t \in Threads, Build(t)
  PROVE  Readers'
<1> DEFINE d == op[t]
           p == ProcOf[t]
           sh == shards[p]
           key == d.key
           o == CHOOSE q \in Stores : ~Live(q)
           c == {row.write : row \in Range(table[key])}
           b == [Unused EXCEPT !.key = key, !.cache = c]
           n == [d EXCEPT !.pc = "install", !.obj = o]
<1>1. /\ d.pc = "build" /\ Set(t, n) /\ store' = [store EXCEPT ![o] = b]
      /\ UNCHANGED <<shards, table, asked, acked>>
  BY DEF Build, At, DbOf
<1>2. o \in Stores /\ ~Live(o)
  BY DEF Build
<1>3. d \in Doing /\ key \in Keys
  BY <1>1, Here DEF Phase
<1> HIDE DEF o
<1>4. \A w : w \in c <=> \E i \in DOMAIN table[key] : table[key][i].write = w
  BY DEF Range
<1> HIDE DEF c
<1>5. b.key = key /\ b.cache = c /\ b.tx = "none"
  BY <1>3, UnusedIs DEF Object
<1>6. /\ n \in Doing /\ n.pc = "install" /\ n.kind = d.kind /\ n.key = key /\ n.obj = o
      /\ n.left = d.left /\ n.write = d.write /\ n.due = d.due
  BY <1>2, <1>3 DEF Doing, Pcs
<1> HIDE DEF b, n
<1>7. store'[o] = b /\ \A q \in Stores : q # o => store'[q] = store[q]
  BY <1>1, <1>2 DEF Inv, Typed
<1>8. /\ Fresh(d, p, sh, store, table, asked, acked) /\ Using(d, sh, store)
      /\ Reading(d, p, store, asked, acked)
  BY View
<1>9. \A k : Mine(n, p, k, asked, acked) \subseteq Mine(d, p, k, asked, acked)
  BY <1>6, MineShrinks DEF Loading
<1>10. \A k \in Keys, q \in Stores : Holds(d, sh, k, q) => q # o /\ store'[q] = store[q]
  BY <1>2, <1>7, HeldIsLive
<1>11. \A k \in Keys, q \in Stores : Holds(n, sh, k, q) => Holds(d, sh, k, q) \/ (q = o /\ k = key)
  BY <1>6 DEF Holds
<1>12. Fresh(n, p, sh, store', table, asked, acked)
  <2> SUFFICES ASSUME NEW k \in Keys, NEW q \in Stores, Holds(n, sh, k, q),
                      NEW w \in Mine(d, p, k, asked, acked)
               PROVE  /\ store'[q].cache # NoCache => w \in store'[q].cache
                      /\ store'[q].tx = "read" =>
                           \E i \in DOMAIN table[k] : i <= store'[q].seen /\ table[k][i].write = w
    BY <1>9 DEF Fresh
  <2>1. CASE Holds(d, sh, k, q)
    BY <1>8, <1>10, <2>1 DEF Fresh
  <2>2. CASE q = o /\ k = key
    <3>1. w \in c
      BY <1>4, <2>2, MineIsFiled
    <3> QED BY <1>5, <1>7, <2>2, <3>1
  <2> QED BY <1>11, <2>1, <2>2
<1>13. Using(n, sh, store')
  <2>1. \A q \in d.left : sh[store'[q].key] = q
    BY <1>8, <1>10, UsedAreHeld DEF Using
  <2>2. sh[key] = NoStore
    BY <1>1, <1>8 DEF Using
  <2> QED BY <1>6, <2>1, <2>2 DEF Using
<1>14. Reading(n, p, store', asked, acked)
  BY <1>6, <1>8 DEF Reading, After
<1>15. Private(n, p, shards'[p], store', table', asked', acked')
  BY <1>1, <1>12, <1>13, <1>14 DEF Private
<1>16. \A k \in Keys, q \in Stores : Holds(n, shards'[p], k, q) =>
          ~Live(q) \/ \E j \in Keys : Holds(d, sh, j, q)
  BY <1>1, <1>2, <1>11
<1>17. \A w \in acked' : w \in DOMAIN asked /\ w \in acked
  BY <1>1 DEF Inv, Typed
<1>18. \A q \in Stores : store'[q] = store[q] \/ ~Live(q)
  BY <1>2, <1>7
<1> HIDE DEF d, sh
<1> QED BY <1>1, <1>6, <1>15, <1>16, <1>17, <1>18, Aside DEF d, sh

LEMMA InstallReads ==
  ASSUME Inv, Single, Readers, NEW t \in Threads, Install(t)
  PROVE  Readers'
<1> DEFINE d == op[t]
           p == ProcOf[t]
           sh == shards[p]
           sh2 == [sh EXCEPT ![d.key] = d.obj]
           n == [d EXCEPT !.pc = "shard", !.obj = NoStore]
<1>1. /\ d.pc = "install" /\ Set(t, n) /\ shards' = [shards EXCEPT ![p][d.key] = d.obj]
      /\ UNCHANGED <<store, table, asked, acked>>
  BY DEF Install, At
<1>2. d \in Doing /\ d.obj \in Stores /\ d.key \in Keys /\ p \in Procs
  BY <1>1, Here DEF Phase, Holding, Procs
<1>3. shards'[p] = sh2 /\ \A q \in Procs : q # p => shards'[q] = shards[q]
  BY <1>1, <1>2 DEF Inv, Typed
<1>4. sh2[d.key] = d.obj /\ \A k \in Keys : k # d.key => sh2[k] = sh[k]
  <2>1. sh \in [Keys -> Stores \cup {NoStore}]
    BY <1>2 DEF Inv, Typed
  <2> HIDE DEF sh
  <2> QED BY <1>2, <2>1
<1> HIDE DEF sh2
<1>5. /\ n \in Doing /\ n.pc = "shard" /\ n.kind = d.kind /\ n.obj = NoStore
      /\ n.left = d.left /\ n.write = d.write /\ n.due = d.due
  BY <1>2 DEF Doing, Pcs
<1> HIDE DEF n
<1>6. /\ Fresh(d, p, sh, store, table, asked, acked) /\ Using(d, sh, store)
      /\ Reading(d, p, store, asked, acked)
  BY View
<1>7. \A k : Mine(n, p, k, asked, acked) \subseteq Mine(d, p, k, asked, acked)
  BY <1>5, MineShrinks DEF Loading
<1>8. \A k \in Keys, o \in Stores : Holds(n, sh2, k, o) => Holds(d, sh, k, o)
  BY <1>1, <1>4, <1>5 DEF Holds
<1>9. Fresh(n, p, sh2, store, table, asked, acked)
  BY <1>6, <1>7, <1>8, FreshKept
<1>10. Using(n, sh2, store)
  <2>1. \A o \in d.left : o \in Stores /\ store[o].key \in Keys /\ sh[store[o].key] = o
    BY <1>6, UsedAreHeld DEF Using
  <2>2. sh[d.key] = NoStore
    BY <1>1, <1>6 DEF Using
  <2> QED BY <1>4, <1>5, <2>1, <2>2, NoStoreIsNone DEF Using
<1>11. Reading(n, p, store, asked, acked)
  BY <1>5, <1>6 DEF Reading, After
<1>12. Private(n, p, shards'[p], store', table', asked', acked')
  BY <1>1, <1>3, <1>9, <1>10, <1>11 DEF Private
<1>13. \A k \in Keys, o \in Stores : Holds(n, shards'[p], k, o) =>
          ~Live(o) \/ \E j \in Keys : Holds(d, sh, j, o)
  BY <1>3, <1>8
<1>14. \A w \in acked' : w \in DOMAIN asked /\ w \in acked
  BY <1>1 DEF Inv, Typed
<1> HIDE DEF d, sh
<1> QED BY <1>1, <1>3, <1>5, <1>12, <1>13, <1>14, Aside DEF d, sh

LEMMA CrashReads ==
  ASSUME Inv, Single, Readers, NEW p \in Procs, Crash(p)
  PROVE  Readers'
<1> DEFINE none == [k \in Keys |-> NoStore]
<1>1. /\ op' = [t \in Threads |-> IF ProcOf[t] = p THEN Idle ELSE op[t]]
      /\ shards' = [shards EXCEPT ![p] = none]
      /\ store' = [o \in Stores |-> IF Live(o)' THEN store[o] ELSE Unused]
      /\ UNCHANGED <<table, asked, acked>>
  BY DEF Crash
<1>2. shards'[p] = none /\ \A q \in Procs : q # p => shards'[q] = shards[q]
  BY <1>1 DEF Inv, Typed
<1>3. \A t \in Threads : ProcOf[t] = p => op'[t] = Idle
  BY <1>1
<1>4. \A t \in Threads : ProcOf[t] # p => op'[t] = op[t] /\ shards'[ProcOf[t]] = shards[ProcOf[t]]
  BY <1>1, <1>2 DEF Procs
<1>5. \A t \in Threads, k \in Keys, o \in Stores :
        Holds(op'[t], shards'[ProcOf[t]], k, o) =>
          ProcOf[t] # p /\ Holds(op[t], shards[ProcOf[t]], k, o)
  BY <1>2, <1>3, <1>4, IdleReads, NoStoreIsNone DEF Holds
<1>6. ASSUME NEW t \in Threads
      PROVE  Private(op'[t], ProcOf[t], shards'[ProcOf[t]], store', table', asked', acked')
  <2>1. CASE ProcOf[t] = p
    <3>1. Fresh(op'[t], ProcOf[t], shards'[ProcOf[t]], store', table', asked', acked')
      BY <1>5, <2>1 DEF Fresh
    <3> QED BY <1>3, <2>1, <3>1, IdleReads DEF Private
  <2>2. CASE ProcOf[t] # p
    <3>1. \A k \in Keys, o \in Stores : Holds(op[t], shards[ProcOf[t]], k, o) => store'[o] = store[o]
      <4> SUFFICES ASSUME NEW k \in Keys, NEW o \in Stores, Holds(op[t], shards[ProcOf[t]], k, o)
                   PROVE  Live(o)'
        BY <1>1
      <4>1. CASE shards[ProcOf[t]][k] = o
        <5> DEFINE q == ProcOf[t]
        <5>1. q \in Procs /\ shards'[q][k] = o
          BY <1>4, <2>2, <4>1 DEF Procs
        <5> HIDE DEF q
        <5> QED BY <5>1 DEF Live
      <4>2. CASE op[t].obj = o
        BY <1>4, <2>2, <4>2 DEF Live
      <4> QED BY <4>1, <4>2 DEF Holds
    <3>2. \A w \in acked' : w \in DOMAIN asked /\ w \in acked
      BY <1>1 DEF Inv, Typed
    <3>3. Private(op[t], ProcOf[t], shards[ProcOf[t]], store, table, asked, acked)
      BY DEF Readers
    <3>4. op'[t] = op[t] /\ shards'[ProcOf[t]] = shards[ProcOf[t]]
      BY <1>4, <2>2
    <3> QED BY <1>1, <3>1, <3>2, <3>3, <3>4, PrivateKept
  <2> QED BY <2>1, <2>2
<1>7. Sole'
  BY <1>5 DEF Readers, Sole
<1> QED BY <1>6, <1>7 DEF Readers

LEMMA ReadersAtStart == Init => Readers
<1> SUFFICES ASSUME Init PROVE Readers
  OBVIOUS
<1>1. \A t \in Threads : op[t] = Idle /\ shards[ProcOf[t]] = [k \in Keys |-> NoStore]
  BY DEF Init, Procs
<1>2. \A t \in Threads, k \in Keys, o \in Stores : ~Holds(op[t], shards[ProcOf[t]], k, o)
  BY <1>1, IdleReads, NoStoreIsNone DEF Holds
<1> QED BY <1>1, <1>2, IdleReads DEF Readers, Sole, Private, Fresh

LEMMA ReadersNext == Single /\ Inv /\ Readers /\ [Next]_vars => Readers'
<1> SUFFICES ASSUME Single, Inv, Readers, [Next]_vars PROVE Readers'
  OBVIOUS
<1>1. ASSUME NEW t \in Threads, CollectRaises(t) PROVE Readers'
  BY <1>1, Stops DEF CollectRaises, Fail
<1>2. ASSUME NEW t \in Threads, Answer(t) PROVE Readers'
  BY <1>2, Stops DEF Answer
<1>3. ASSUME NEW t \in Threads, Step(t) PROVE Readers'
  BY <1>1, <1>2, <1>3, BeginWriteReads, BeginSearchReads, TouchReads, LookupReads, BuildReads,
     InstallReads, CollectReads, CountReads, InsertReads, InsertClashesReads, InsertBusyReads,
     CommitReads, InvalidateReads, ContactReads, LoadReads, SelectReads, StoreReads, ReturnReads
     DEF Step
<1>4. ASSUME NEW p \in Procs, Crash(p) PROVE Readers'
  BY <1>4, CrashReads
<1>5. CASE UNCHANGED vars
  <2>1. UNCHANGED <<op, shards, store, table, asked, acked>>
    BY <1>5 DEF vars
  <2> QED BY <2>1 DEF Readers, Sole
<1> QED BY <1>3, <1>4, <1>5 DEF Next

\* Where each process has one thread, a process reads its own writes: when a shard answers a
\* search, the cache it answers from has all that the process had written there, and been told
\* so, before the search began, although ids clash, locks are lost, snapshots grow old, other
\* processes write to the file, and either dies and is started again.
THEOREM OwnWritesAreRead == Single => (Spec => []ReadYourWrites)
<1> SUFFICES ASSUME Single PROVE Spec => []ReadYourWrites
  OBVIOUS
<1>1. Init => Inv /\ Readers
  BY InvAtStart, ReadersAtStart
<1>2. Inv /\ Readers /\ [Next]_vars => (Inv /\ Readers)'
  BY NextKeeps, ReadersNext
<1>3. Inv /\ Readers => ReadYourWrites
  <2> SUFFICES ASSUME Inv, Readers, NEW t \in Threads, Answering(t),
                      NEW w \in Due(t), asked[w].proc = ProcOf[t]
               PROVE  w \in Conn(t).cache
    BY DEF ReadYourWrites
  <2>1. op[t].pc = "return" /\ op[t].obj # NoStore /\ Conn(t).cache # NoCache
    BY Here DEF Answering, At, Phase, Holding
  <2>2. w \in acked /\ w \in DOMAIN asked
    BY View DEF Due, Reading, Inv, Typed
  <2>3. w \in Mine(op[t], ProcOf[t], Conn(t).key, asked, acked)
    BY <2>2 DEF Due, Mine
  <2> QED BY <2>1, <2>3, InUse DEF Conn
<1> QED BY <1>1, <1>2, <1>3, PTL DEF Spec

===================================================================================
