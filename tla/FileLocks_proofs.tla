---------------------------- MODULE FileLocks_proofs -----------------------------
(***************************************************************************)
(* Theorems about FileLocks, for any number of processes, sessions, names  *)
(* and files, any modes in use and any TTL.                                *)
(***************************************************************************)
EXTENDS FileLocks, TLAPS

-----------------------------------------------------------------------------------
(* The inductive invariant.                                                *)

\* Process p is past its claim on the name, or between its halves and undisturbed.
Writing(p, name) == At(p, "write") /\ op[p].name = name
CleanlyStamped(p, name) == At(p, "stamped") /\ op[p].name = name /\ op[p].clean

\* A claim being put cleanly is the youngest: every process now writing under the name,
\* and the last write made, had claimed before the lock file was truncated.
ClaimIsYoungest ==
  \A p \in Procs, n \in Names : CleanlyStamped(p, n) =>
    /\ \A q \in Procs : Writing(q, n) => op[p].stamp <= op[q].stamp
    /\ lastWrite[n] # NoWrite => op[p].stamp <= lastWrite[n].age

\* The lock file can be relied upon.
Reliable(n) == n \notin disturbed /\ ~BeingClaimed(n)

\* A reliable lock file holds a claim no older than the one behind the last write.
WriteIsClaimed ==
  \A n \in Names : (Reliable(n) /\ lastWrite[n] # NoWrite) =>
    lock[n] \in Claims /\ lock[n].age <= lastWrite[n].age

\* ... and no older than the one behind a write about to happen.
WriterIsClaimed ==
  \A p \in Procs, n \in Names : (Reliable(n) /\ Writing(p, n)) =>
    lock[n] \in Claims /\ lock[n].age <= op[p].stamp

IInv == TypeOK /\ ClaimIsYoungest /\ WriteIsClaimed /\ WriterIsClaimed

-----------------------------------------------------------------------------------
(* Facts about ages and records.                                           *)

\* A claim is told apart from the three values that are not claims.
LEMMA ClaimsAreReal == {NoLock, Torn, NoWrite} \cap Claims = {}
  BY LockAssumption DEF Claims, Sessions, Ages

\* Ages stay in range, and what was no older is no older a second later.
LEMMA AgesKeepOrder ==
  /\ \A a \in Ages : Older(a) \in Ages
  /\ \A a, b \in Ages : a <= b => Older(a) <= Older(b)
  BY LockAssumption DEF Ages, Older

\* A claim aged is a claim of the same session; a non-claim does not change.
LEMMA AgedClaims ==
  /\ \A c \in Claims : /\ Aged(c) \in Claims
                       /\ Aged(c).age = Older(c.age)
                       /\ Aged(c).session = c.session
  /\ Aged(NoLock) = NoLock /\ Aged(Torn) = Torn /\ Aged(NoWrite) = NoWrite
<1>1. ASSUME NEW c \in Claims
      PROVE  /\ Aged(c) = [c EXCEPT !.age = Older(c.age)]
             /\ c = [session |-> c.session, age |-> c.age]
             /\ c.session \in Sessions /\ c.age \in Ages
  BY ClaimsAreReal DEF Aged, Claims
<1>2. ASSUME NEW c \in Claims
      PROVE  Aged(c) \in Claims /\ Aged(c).age = Older(c.age) /\ Aged(c).session = c.session
  BY <1>1, AgesKeepOrder DEF Claims
<1>3. Aged(NoLock) = NoLock /\ Aged(Torn) = Torn /\ Aged(NoWrite) = NoWrite
  BY DEF Aged
<1> QED BY <1>2, <1>3

\* A process that is neither idle nor dead is in a call, and so is one that moves on.
LEMMA CallsAreCalls ==
  ASSUME TypeOK, NEW p \in Procs, ~At(p, "idle"), ~At(p, "dead")
  PROVE  /\ op[p] \in Calls
         /\ op[p].tool \in LOCKABLE_TOOLS /\ op[p].name \in Names /\ op[p].warned \in BOOLEAN
         /\ op[p].stamp \in Ages /\ op[p].clean \in BOOLEAN /\ op[p].buf \in SUBSET Procs
         /\ FileOf[op[p].name] \in Files
         /\ Claim(p) \in Claims
<1>1. op[p] \in Calls \cup {Idle, Dead}
  BY DEF TypeOK
<1>2. op[p] # Idle /\ op[p] # Dead
  BY DEF At, Idle, Dead
<1>3. op[p] \in Calls
  BY <1>1, <1>2
<1>4. /\ op[p].tool \in LOCKABLE_TOOLS /\ op[p].name \in Names /\ op[p].warned \in BOOLEAN
      /\ op[p].stamp \in Ages /\ op[p].clean \in BOOLEAN /\ op[p].buf \in SUBSET Procs
  BY <1>3 DEF Calls
<1> QED
  BY <1>3, <1>4 DEF Files, Claim, Claims, Sessions

-----------------------------------------------------------------------------------
(* Type correctness.                                                       *)

LEMMA TypeInit == Init => TypeOK
  BY DEF Init, TypeOK, Files

\* Every step of a process keeps the shapes.
LEMMA TypeStep ==
  ASSUME TypeOK, NEW p \in Procs, Step(p)
  PROVE  TypeOK'
<1> USE DEF TypeOK
<1>1. ASSUME NEW tool \in LOCKABLE_TOOLS, NEW name \in Names, Check(p, tool, name)
      PROVE  TypeOK'
  <2>1. PICK mode \in Modes :
          op' = [op EXCEPT ![p] =
                   [pc     |-> IF Decide(mode, tool, FALSE, Contested(p, name)) = "ask"
                                 THEN "asking" ELSE "dispatch",
                    tool   |-> tool,
                    name   |-> name,
                    warned |-> Decide(mode, tool, FALSE, Contested(p, name)) = "ask"
                                 /\ Contested(p, name),
                    stamp  |-> 0,
                    clean  |-> FALSE,
                    buf    |-> {}]]
    BY <1>1 DEF Check
  <2>2. 0 \in Ages
    BY LockAssumption DEF Ages
  <2>3. op'[p] \in Calls
    BY <2>1, <2>2 DEF Calls
  <2> QED
    BY <1>1, <2>1, <2>3 DEF Check
<1>2. CASE Approve(p)
  <2>1. op[p] \in Calls
    BY <1>2, CallsAreCalls DEF Approve, At
  <2>2. [op[p] EXCEPT !.pc = "dispatch"] \in Calls
    BY <2>1 DEF Calls
  <2> QED BY <1>2, <2>2 DEF Approve, Goto
<1>3. CASE Refuse(p) \/ Raise(p) \/ Crash(p) \/ Resume(p)
  <2>1. op' \in [Procs -> Calls \cup {Idle, Dead}]
    BY <1>3 DEF Refuse, Raise, Crash, Resume, Return
  <2>2. disturbed' \subseteq Names
    <3>1. CASE Crash(p) /\ At(p, "stamped")
      <4>1. op[p].name \in Names
        BY <3>1, CallsAreCalls DEF At
      <4> QED BY <3>1, <4>1 DEF Crash
    <3>2. CASE ~(Crash(p) /\ At(p, "stamped"))
      BY <1>3, <3>2 DEF Crash, Refuse, Raise, Resume
    <3> QED BY <3>1, <3>2
  <2>3. content' \in [Files -> SUBSET Procs]
    BY <1>3 DEF Refuse, Raise, Crash, Resume
  <2> QED BY <1>3, <2>1, <2>2, <2>3 DEF Refuse, Raise, Crash, Resume
<1>4. CASE Open(p)
  <2>1. op[p] \in Calls /\ FileOf[op[p].name] \in Files
    BY <1>4, CallsAreCalls DEF Open, At
  <2>2. ReadBuffer(p) \in SUBSET Procs
    BY <2>1 DEF ReadBuffer
  <2>3. [op[p] EXCEPT !.pc = "claim", !.buf = ReadBuffer(p)] \in Calls
    BY <2>1, <2>2 DEF Calls
  <2> QED BY <1>4, <2>3 DEF Open
<1>5. CASE ClaimTruncate(p)
  <2>1. op[p] \in Calls /\ op[p].name \in Names
    BY <1>5, CallsAreCalls DEF ClaimTruncate, At
  <2>2. 0 \in Ages
    BY LockAssumption DEF Ages
  <2>3. [op[p] EXCEPT !.pc = "stamped", !.stamp = 0, !.clean = TRUE] \in Calls
    BY <2>1, <2>2 DEF Calls
  <2> QED BY <1>5, <2>1, <2>3 DEF ClaimTruncate
<1>6. CASE ClaimWrite(p)
  <2>1. op[p] \in Calls /\ op[p].name \in Names /\ Claim(p) \in Claims
    BY <1>6, CallsAreCalls DEF ClaimWrite, At
  <2>2. lock' \in [Names -> Claims \cup {NoLock, Torn}] /\ disturbed' \subseteq Names
    BY <1>6, <2>1 DEF ClaimWrite
  <2>3. ASSUME NEW q \in Procs PROVE op'[q] \in Calls \cup {Idle, Dead}
    <3>1. [op[p] EXCEPT !.pc = "write"] \in Calls
      BY <2>1 DEF Calls
    <3>2. ASSUME At(q, "stamped") PROVE [op[q] EXCEPT !.clean = FALSE] \in Calls
      <4>1. op[q] \in Calls
        BY <3>2, CallsAreCalls DEF At
      <4> QED BY <4>1 DEF Calls
    <3> QED BY <1>6, <3>1, <3>2 DEF ClaimWrite
  <2> QED BY <1>6, <2>2, <2>3 DEF ClaimWrite
<1>7. CASE Write(p)
  <2>1. /\ op[p].name \in Names /\ Claim(p) \in Claims /\ op[p].buf \in SUBSET Procs
        /\ FileOf[op[p].name] \in Files
    BY <1>7, CallsAreCalls DEF Write, At
  <2> QED BY <1>7, <2>1 DEF Write, Return
<1> QED
  BY <1>1, <1>2, <1>3, <1>4, <1>5, <1>6, <1>7 DEF Step

\* So does a second passing.
LEMMA TypeTick == TypeOK /\ Tick => TypeOK'
<1> SUFFICES ASSUME TypeOK, Tick PROVE TypeOK'
  OBVIOUS
<1> USE DEF TypeOK
<1>1. ASSUME NEW n \in Names
      PROVE  Aged(lock[n]) \in Claims \cup {NoLock, Torn} /\ Aged(lastWrite[n]) \in Claims \cup {NoWrite}
  BY AgedClaims
<1>2. ASSUME NEW p \in Procs, op[p].pc \in {"stamped", "write"}
      PROVE  [op[p] EXCEPT !.stamp = Older(op[p].stamp)] \in Calls
  <2>1. op[p] \in Calls /\ op[p].stamp \in Ages
    BY <1>2, CallsAreCalls DEF At
  <2> QED BY <2>1, AgesKeepOrder DEF Calls
<1> QED BY <1>1, <1>2 DEF Tick

LEMMA TypeInvariant == TypeOK /\ [Next]_vars => TypeOK'
<1>1. TypeOK /\ UNCHANGED vars => TypeOK'
  BY DEF TypeOK, vars
<1> QED BY <1>1, TypeStep, TypeTick DEF Next

\* The calls in progress, the lock files, the files and the history keep the shapes the
\* handlers give them, whatever is interleaved, crashed and resumed.
THEOREM TypeCorrect == Spec => []TypeOK
  BY TypeInit, TypeInvariant, PTL DEF Spec

-----------------------------------------------------------------------------------
(* Claim before write.                                                     *)

LEMMA IInit == Init => IInv
<1>1. Init => ClaimIsYoungest /\ WriteIsClaimed /\ WriterIsClaimed
  BY DEF Init, ClaimIsYoungest, WriteIsClaimed, WriterIsClaimed, CleanlyStamped, Writing, At, Idle
<1> QED BY <1>1, TypeInit DEF IInv

\* A step of p that neither claims nor writes leaves the files' claims alone, and what p
\* was doing is over or goes on elsewhere: the invariant has nothing new to show.
LEMMA QuietStep ==
  ASSUME IInv, TypeOK', NEW p \in Procs,
         lock' = lock, lastWrite' = lastWrite,
         \A q \in Procs : q # p => op'[q] = op[q],
         op'[p].pc \notin {"stamped", "write"},
         disturbed' = IF At(p, "stamped") THEN disturbed \cup {op[p].name} ELSE disturbed
  PROVE  IInv'
<1> USE DEF IInv
<1>1. ASSUME NEW q \in Procs, NEW n \in Names
      PROVE  /\ Writing(q, n)' => Writing(q, n) /\ op'[q] = op[q]
             /\ CleanlyStamped(q, n)' => CleanlyStamped(q, n) /\ op'[q] = op[q]
  BY DEF Writing, CleanlyStamped, At
<1>2. ASSUME NEW n \in Names, Reliable(n)' PROVE Reliable(n)
  BY <1>2 DEF Reliable, BeingClaimed, At
<1>3. ClaimIsYoungest'
  BY <1>1 DEF ClaimIsYoungest
<1>4. WriteIsClaimed' /\ WriterIsClaimed'
  BY <1>1, <1>2 DEF WriteIsClaimed, WriterIsClaimed, Claims
<1> QED BY <1>3, <1>4

\* The lock file is truncated: the name is being claimed, by the youngest claim of all.
LEMMA TruncateStep ==
  ASSUME IInv, TypeOK', NEW p \in Procs, ClaimTruncate(p)
  PROVE  IInv'
<1> USE DEF IInv
<1> DEFINE name == op[p].name
<1>1. /\ op[p] \in Calls /\ name \in Names
      /\ op'[p] = [op[p] EXCEPT !.pc = "stamped", !.stamp = 0, !.clean = TRUE]
      /\ \A q \in Procs : q # p => op'[q] = op[q]
      /\ At(p, "claim")
  BY CallsAreCalls DEF ClaimTruncate, At, TypeOK
<1>2. /\ op'[p].pc = "stamped" /\ op'[p].stamp = 0 /\ op'[p].name = name
  BY <1>1 DEF Calls
<1>3. ASSUME NEW q \in Procs, NEW n \in Names, Writing(q, n)'
      PROVE  Writing(q, n) /\ op'[q] = op[q] /\ op[q].stamp \in Ages
  BY <1>1, <1>2, <1>3, CallsAreCalls DEF Writing, At
<1>4. ASSUME NEW n \in Names, Reliable(n)' PROVE n # name /\ Reliable(n) /\ lock'[n] = lock[n]
  BY <1>1, <1>2, <1>4 DEF Reliable, BeingClaimed, At, ClaimTruncate, TypeOK
<1>5. ClaimIsYoungest'
  <2> SUFFICES ASSUME NEW q \in Procs, NEW n \in Names, CleanlyStamped(q, n)'
               PROVE  /\ \A r \in Procs : Writing(r, n)' => op'[q].stamp <= op'[r].stamp
                      /\ lastWrite'[n] # NoWrite => op'[q].stamp <= lastWrite'[n].age
    BY DEF ClaimIsYoungest
  <2>1. CASE q = p
    <3>1. lastWrite[n] # NoWrite => lastWrite[n].age \in Ages
      BY DEF TypeOK, Claims
    <3> QED BY <1>2, <1>3, <2>1, <3>1, LockAssumption DEF ClaimTruncate, Ages
  <2>2. CASE q # p
    <3>1. CleanlyStamped(q, n) /\ op'[q] = op[q]
      BY <1>1, <2>2 DEF CleanlyStamped, At
    <3> QED BY <1>3, <3>1 DEF ClaimIsYoungest, ClaimTruncate
  <2> QED BY <2>1, <2>2
<1>6. WriteIsClaimed' /\ WriterIsClaimed'
  BY <1>3, <1>4 DEF WriteIsClaimed, WriterIsClaimed, ClaimTruncate, Claims
<1> QED BY <1>5, <1>6

\* The record is written: a clean claim is on file and no older than what it stands for;
\* an overlapping one leaves the name disturbed.
LEMMA RecordStep ==
  ASSUME IInv, TypeOK', NEW p \in Procs, ClaimWrite(p)
  PROVE  IInv'
<1> USE DEF IInv
<1> DEFINE name == op[p].name
<1>1. /\ At(p, "stamped") /\ op[p] \in Calls /\ name \in Names
      /\ op[p].stamp \in Ages /\ op[p].clean \in BOOLEAN
      /\ Claim(p) \in Claims /\ Claim(p).age = op[p].stamp
  BY CallsAreCalls DEF ClaimWrite, At, Claim
<1>2. /\ op'[p] = [op[p] EXCEPT !.pc = "write"]
      /\ \A q \in Procs : q # p =>
           op'[q] = IF At(q, "stamped") /\ op[q].name = name
                      THEN [op[q] EXCEPT !.clean = FALSE] ELSE op[q]
  BY DEF ClaimWrite
<1>3. /\ op'[p].pc = "write" /\ op'[p].name = name /\ op'[p].stamp = op[p].stamp
  BY <1>1, <1>2 DEF Calls
<1>4. ASSUME NEW q \in Procs, q # p
      PROVE  /\ op'[q].pc = op[q].pc
             /\ At(q, "stamped") => op'[q].name = op[q].name
             /\ op[q].pc # "stamped" => op'[q] = op[q]
             /\ (At(q, "stamped") /\ op[q].name = name) => op'[q].clean = FALSE
             /\ (At(q, "stamped") /\ op[q].name # name) => op'[q] = op[q]
  <2>1. CASE At(q, "stamped")
    <3>1. op[q] \in Calls
      BY <2>1, CallsAreCalls DEF At
    <3> QED BY <1>2, <1>4, <2>1, <3>1 DEF Calls, At
  <2>2. CASE ~At(q, "stamped")
    BY <1>2, <1>4, <2>2 DEF At
  <2> QED BY <2>1, <2>2
<1>5. ASSUME NEW q \in Procs, NEW n \in Names, CleanlyStamped(q, n)'
      PROVE  q # p /\ n # name /\ CleanlyStamped(q, n) /\ op'[q] = op[q]
  BY <1>3, <1>4, <1>5 DEF CleanlyStamped, At
<1>6. ASSUME NEW q \in Procs, NEW n \in Names, Writing(q, n)'
      PROVE  IF q = p THEN n = name ELSE Writing(q, n) /\ op'[q] = op[q]
  BY <1>3, <1>4, <1>6 DEF Writing, At
<1>7. ClaimIsYoungest'
  BY <1>5, <1>6 DEF ClaimIsYoungest, ClaimWrite
<1>8. ASSUME NEW n \in Names, n # name, Reliable(n)'
      PROVE  Reliable(n) /\ lock'[n] = lock[n]
  <2>1. lock'[n] = lock[n] /\ n \notin disturbed
    BY <1>1, <1>8 DEF ClaimWrite, Reliable, TypeOK
  <2>2. ~BeingClaimed(n)
    BY <1>3, <1>4, <1>8 DEF Reliable, BeingClaimed, At
  <2> QED BY <2>1, <2>2 DEF Reliable
<1>9. ASSUME NEW n \in Names, n = name, Reliable(n)'
      PROVE  CleanlyStamped(p, n) /\ lock'[n] = Claim(p)
  <2>1. op[p].clean
    BY <1>1, <1>9 DEF Reliable, ClaimWrite
  <2> QED BY <1>1, <1>9, <2>1 DEF ClaimWrite, TypeOK, CleanlyStamped
<1>10. WriteIsClaimed'
  <2> SUFFICES ASSUME NEW n \in Names, Reliable(n)', lastWrite[n] # NoWrite
               PROVE  lock'[n] \in Claims /\ lock'[n].age <= lastWrite[n].age
    BY DEF WriteIsClaimed, ClaimWrite, Claims, Sessions
  <2>1. CASE n = name
    BY <1>1, <1>9, <2>1 DEF ClaimIsYoungest
  <2>2. CASE n # name
    BY <1>8, <2>2 DEF WriteIsClaimed
  <2> QED BY <2>1, <2>2
<1>11. WriterIsClaimed'
  <2> SUFFICES ASSUME NEW q \in Procs, NEW n \in Names, Reliable(n)', Writing(q, n)'
               PROVE  lock'[n] \in Claims /\ lock'[n].age <= op'[q].stamp
    BY DEF WriterIsClaimed, Claims, Sessions
  <2>1. CASE q = p
    BY <1>1, <1>3, <1>6, <1>9, <2>1 DEF Ages
  <2>2. CASE q # p /\ n = name
    <3>1. CleanlyStamped(p, n) /\ lock'[n] = Claim(p)
      BY <1>9, <2>2
    <3>2. Writing(q, n) /\ op'[q] = op[q]
      BY <1>6, <2>2
    <3> QED BY <1>1, <3>1, <3>2 DEF ClaimIsYoungest
  <2>3. CASE q # p /\ n # name
    BY <1>6, <1>8, <2>3 DEF WriterIsClaimed
  <2> QED BY <2>1, <2>2, <2>3
<1> QED BY <1>7, <1>10, <1>11

\* The write itself: its claim becomes the last write's.
LEMMA WriteStep ==
  ASSUME IInv, TypeOK', NEW p \in Procs, Write(p)
  PROVE  IInv'
<1> USE DEF IInv
<1> DEFINE name == op[p].name
<1>1. /\ At(p, "write") /\ name \in Names /\ Claim(p) \in Claims /\ Claim(p).age = op[p].stamp
      /\ Writing(p, name)
  BY CallsAreCalls DEF Write, At, Claim, Writing
<1>2. /\ op'[p] = Idle /\ \A q \in Procs : q # p => op'[q] = op[q]
      /\ lock' = lock /\ disturbed' = disturbed
      /\ \A n \in Names : lastWrite'[n] = IF n = name THEN Claim(p) ELSE lastWrite[n]
  BY DEF Write, Return, TypeOK
<1>3. ASSUME NEW q \in Procs, NEW n \in Names
      PROVE  /\ Writing(q, n)' => Writing(q, n) /\ op'[q] = op[q]
             /\ CleanlyStamped(q, n)' => CleanlyStamped(q, n) /\ op'[q] = op[q]
  BY <1>2 DEF Writing, CleanlyStamped, At, Idle
<1>4. ASSUME NEW n \in Names, Reliable(n)' PROVE Reliable(n)
  BY <1>1, <1>2, <1>4 DEF Reliable, BeingClaimed, At, Idle
<1>5. ClaimIsYoungest'
  BY <1>1, <1>2, <1>3 DEF ClaimIsYoungest
<1>6. WriteIsClaimed'
  BY <1>1, <1>2, <1>4 DEF WriteIsClaimed, WriterIsClaimed, Claims, Sessions
<1>7. WriterIsClaimed'
  BY <1>2, <1>3, <1>4 DEF WriterIsClaimed, Claims, Sessions
<1> QED BY <1>5, <1>6, <1>7

\* A second passes: every age moves on together.
LEMMA TickStep == IInv /\ TypeOK' /\ Tick => IInv'
<1> SUFFICES ASSUME IInv, TypeOK', Tick PROVE IInv'
  OBVIOUS
<1> USE DEF IInv
<1>1. ASSUME NEW q \in Procs
      PROVE  /\ op'[q].pc = op[q].pc
             /\ op[q].pc \in {"stamped", "write"} =>
                  /\ op'[q].stamp = Older(op[q].stamp) /\ op[q].stamp \in Ages
                  /\ op'[q].name = op[q].name /\ op'[q].clean = op[q].clean
  <2>1. CASE op[q].pc \in {"stamped", "write"}
    <3>1. op[q] \in Calls /\ op[q].stamp \in Ages
      BY <2>1, CallsAreCalls DEF At
    <3> QED BY <2>1, <3>1 DEF Tick, Calls
  <2>2. CASE op[q].pc \notin {"stamped", "write"}
    BY <2>2 DEF Tick
  <2> QED BY <2>1, <2>2
<1>2. ASSUME NEW n \in Names
      PROVE  /\ lock[n] \in Claims =>
                  lock'[n] \in Claims /\ lock'[n].age = Older(lock[n].age) /\ lock[n].age \in Ages
             /\ lastWrite'[n] # NoWrite =>
                  /\ lastWrite[n] # NoWrite /\ lastWrite[n].age \in Ages
                  /\ lastWrite'[n].age = Older(lastWrite[n].age)
  BY AgedClaims DEF Tick, TypeOK, Claims
<1>3. ASSUME NEW n \in Names, Reliable(n)' PROVE Reliable(n)
  BY <1>1, <1>3 DEF Reliable, BeingClaimed, At, Tick
<1>4. ASSUME NEW q \in Procs, NEW n \in Names
      PROVE  (Writing(q, n)' => Writing(q, n)) /\ (CleanlyStamped(q, n)' => CleanlyStamped(q, n))
  BY <1>1 DEF Writing, CleanlyStamped, At
<1>5. ClaimIsYoungest'
  BY <1>1, <1>2, <1>4, AgesKeepOrder DEF ClaimIsYoungest, Writing, CleanlyStamped, At
<1>6. WriteIsClaimed'
  BY <1>2, <1>3, AgesKeepOrder DEF WriteIsClaimed, Claims, Sessions
<1>7. WriterIsClaimed'
  BY <1>1, <1>2, <1>3, <1>4, AgesKeepOrder DEF WriterIsClaimed, Writing, At, Claims, Sessions
<1> QED BY <1>5, <1>6, <1>7

LEMMA Invariance == IInv /\ [Next]_vars => IInv'
<1> SUFFICES ASSUME IInv, [Next]_vars PROVE IInv'
  OBVIOUS
<1>1. TypeOK /\ TypeOK'
  BY TypeInvariant DEF IInv
<1>2. CASE UNCHANGED vars
  BY <1>2 DEF vars, IInv, TypeOK, ClaimIsYoungest, WriteIsClaimed, WriterIsClaimed, Reliable,
              BeingClaimed, Writing, CleanlyStamped, At
<1>3. CASE Tick
  BY <1>1, <1>3, TickStep
<1>4. ASSUME NEW p \in Procs, Step(p) PROVE IInv'
  <2>1. ASSUME \/ \E tool \in LOCKABLE_TOOLS, name \in Names : Check(p, tool, name)
               \/ Approve(p) \/ Refuse(p) \/ Open(p) \/ Raise(p) \/ Crash(p) \/ Resume(p)
        PROVE  IInv'
    <3>1. /\ lock' = lock /\ lastWrite' = lastWrite
          /\ \A q \in Procs : q # p => op'[q] = op[q]
          /\ disturbed' = IF At(p, "stamped") THEN disturbed \cup {op[p].name} ELSE disturbed
      BY <1>1, <2>1 DEF Check, Approve, Refuse, Open, Raise, Crash, Resume, Goto, Return, At, TypeOK
    <3>2. op'[p].pc \notin {"stamped", "write"}
      <4>1. CASE \E tool \in LOCKABLE_TOOLS, name \in Names : Check(p, tool, name)
        BY <1>1, <4>1 DEF Check, TypeOK
      <4>2. CASE Approve(p) \/ Open(p)
        <5>1. op[p] \in Calls
          BY <1>1, <4>2, CallsAreCalls DEF Approve, Open, At
        <5>2. CASE Approve(p)
          <6>1. op'[p] = [op[p] EXCEPT !.pc = "dispatch"]
            BY <1>1, <5>2 DEF Approve, Goto, TypeOK
          <6> QED BY <5>1, <6>1 DEF Calls
        <5>3. CASE Open(p)
          <6>1. op'[p] = [op[p] EXCEPT !.pc = "claim", !.buf = ReadBuffer(p)]
            BY <1>1, <5>3 DEF Open, TypeOK
          <6> QED BY <5>1, <6>1 DEF Calls
        <5> QED BY <4>2, <5>2, <5>3
      <4>3. CASE Refuse(p) \/ Raise(p) \/ Crash(p) \/ Resume(p)
        BY <1>1, <4>3 DEF Refuse, Raise, Crash, Resume, Return, Idle, Dead, TypeOK
      <4> QED BY <2>1, <4>1, <4>2, <4>3
    <3> QED BY <1>1, <3>1, <3>2, QuietStep
  <2>2. CASE ClaimTruncate(p)
    BY <1>1, <2>2, TruncateStep
  <2>3. CASE ClaimWrite(p)
    BY <1>1, <2>3, RecordStep
  <2>4. CASE Write(p)
    BY <1>1, <2>4, WriteStep
  <2> QED BY <1>4, <2>1, <2>2, <2>3, <2>4 DEF Step
<1> QED BY <1>2, <1>3, <1>4 DEF Next

LEMMA Inductive == Spec => []IInv
  BY IInit, Invariance, PTL DEF Spec

\* As long as the claim behind a write has not expired, a claim at least as young is on
\* record: the handlers claim before they write, under any interleaving and any crash.
THEOREM WritesAreClaimed == Spec => []RecentWriteIsClaimed
<1>1. IInv => RecentWriteIsClaimed
  BY ClaimsAreReal DEF IInv, WriteIsClaimed, RecentWriteIsClaimed, Recent, Reliable
<1> QED BY <1>1, Inductive, PTL

-----------------------------------------------------------------------------------
(* Warnings.                                                               *)

\* A check that lets a call through unwarned saw no live claim of another session.
LEMMA SilentCheck ==
  ASSUME TypeOK, TypeOK', [Next]_vars, NEW p \in Procs, NEW n \in Names, SilentlyChecks(p, n)
  PROVE  ~Contested(p, n)
<1>1. op'[p] # op[p]
  BY DEF SilentlyChecks
<1>2. ASSUME NEW q \in Procs, Step(q), q # p
      PROVE  op'[p] = op[p]
  BY <1>2 DEF Step, Check, Approve, Refuse, Open, Raise, ClaimTruncate, ClaimWrite, Write, Crash,
              Resume, Goto, Return, TypeOK, SilentlyChecks, At
<1>3. ASSUME Tick PROVE op'[p] = op[p]
  BY <1>3 DEF Tick, SilentlyChecks
<1>4. Step(p)
  BY <1>1, <1>2, <1>3 DEF Next, vars
<1>5. ~At(p, "dispatch") /\ ~At(p, "asking") /\ ~At(p, "claim") /\ ~At(p, "stamped")
      /\ ~At(p, "write") /\ ~At(p, "dead")
  BY DEF SilentlyChecks, At
<1>6. op'[p] # Dead /\ op'[p] # Idle
  BY DEF SilentlyChecks, Dead, Idle
<1>7. PICK tool \in LOCKABLE_TOOLS, name \in Names : Check(p, tool, name)
  BY <1>4, <1>5, <1>6 DEF Step, Approve, Refuse, Open, Raise, ClaimTruncate, ClaimWrite, Write, Crash,
              Resume, Return, TypeOK
<1>8. PICK mode \in Modes :
        /\ op'[p].name = name
        /\ op'[p].warned <=> Decide(mode, tool, FALSE, Contested(p, name)) = "ask" /\ Contested(p, name)
  <2>1. PICK mode \in Modes :
          op' = [op EXCEPT ![p] =
                   [pc     |-> IF Decide(mode, tool, FALSE, Contested(p, name)) = "ask"
                                 THEN "asking" ELSE "dispatch",
                    tool   |-> tool,
                    name   |-> name,
                    warned |-> Decide(mode, tool, FALSE, Contested(p, name)) = "ask"
                                 /\ Contested(p, name),
                    stamp  |-> 0,
                    clean  |-> FALSE,
                    buf    |-> {}]]
    BY <1>7 DEF Check
  <2>2. /\ op'[p].name = name
        /\ op'[p].warned <=> Decide(mode, tool, FALSE, Contested(p, name)) = "ask" /\ Contested(p, name)
    BY <2>1 DEF TypeOK
  <2> QED BY <2>2
<1>9. n = name /\ ~op'[p].warned
  BY <1>8 DEF SilentlyChecks
<1>10. Contested(p, name) => Decide(mode, tool, FALSE, Contested(p, name)) = "ask"
  BY DEF Decide, Escalated, LOCKABLE_TOOLS, READ_ONLY_TOOLS
<1> QED BY <1>8, <1>9, <1>10

\* No call is let through unwarned on a file another session recently wrote, unless this
\* session's own claim has superseded that session's or the lock file could not be read.
THEOREM RecentWritersAreWarnedOf == Spec => OthersWritesAreWarnedOf
<1> DEFINE Warned(p, n) ==
      \/ ~Recent(n) \/ lastWrite[n].session = SessionOf[p]
      \/ IsLive(lock[n]) /\ lock[n].session = SessionOf[p]
      \/ n \in disturbed \/ BeingClaimed(n)
<1>1. ASSUME IInv, TypeOK', [Next]_vars, NEW p \in Procs, NEW n \in Names, SilentlyChecks(p, n)
      PROVE  Warned(p, n)
  <2>1. ~Contested(p, n)
    BY <1>1, SilentCheck DEF IInv
  <2>2. ASSUME Recent(n), n \notin disturbed, ~BeingClaimed(n)
        PROVE  lock[n] \in Claims /\ lock[n].age <= TTL
    <3>1. lock[n] \in Claims /\ lock[n].age <= lastWrite[n].age
      BY <1>1, <2>2 DEF IInv, WriteIsClaimed, Reliable, Recent
    <3>2. lastWrite[n].age \in Ages /\ lastWrite[n].age <= TTL /\ lock[n].age \in Ages
      BY <1>1, <2>2, <3>1 DEF IInv, TypeOK, Recent, Claims
    <3> QED BY <3>1, <3>2, LockAssumption DEF Ages
  <2> QED BY <2>1, <2>2, ClaimsAreReal DEF Contested, IsLive
<1>2. IInv /\ IInv' /\ [Next]_vars =>
        [\A p \in Procs, n \in Names : SilentlyChecks(p, n) => Warned(p, n)]_vars
  BY <1>1 DEF IInv
<1> QED BY <1>2, Inductive, PTL DEF Spec, OthersWritesAreWarnedOf

==================================================================================
