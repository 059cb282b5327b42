-------------------------------- MODULE FileLocks ---------------------------------
(***************************************************************************)
(* Several lulu processes writing files of one project under the advisory  *)
(* claims of lulu/locks.py: PermissionChecker.check reads the claim, the   *)
(* write_file and edit_file handlers (lulu/tools/file_tools.py) put one    *)
(* and then write.  Nothing is atomic across processes: each file access   *)
(* is a step, a process may die at any of them and be resumed under the    *)
(* same session id.                                                        *)
(*                                                                         *)
(* Time is kept as ages, which stop counting just past the TTL: check_lock *)
(* tells no more apart.  A file's content is the set of processes whose    *)
(* edits it holds.                                                         *)
(***************************************************************************)
EXTENDS Permissions, Integers

CONSTANTS
  Procs,      \* processes: one agent loop each
  SessionOf,  \* process -> session id (two processes may resume the same session)
  Names,      \* the path strings tools are called with
  FileOf,     \* path string -> the file it resolves to
  Modes,      \* the attention modes in use
  TTL,        \* LOCK_TTL_SECONDS
  NoLock, Torn, NoWrite

ASSUME LockAssumption ==
  /\ Names # {} /\ Modes \subseteq AttentionModes
  /\ TTL \in Nat
  /\ {NoLock, Torn, NoWrite} \cap [session : {SessionOf[p] : p \in Procs}, age : 0..TTL + 1] = {}

Sessions == {SessionOf[p] : p \in Procs}
Files == {FileOf[n] : n \in Names}
Ages == 0..TTL + 1
Claims == [session : Sessions, age : Ages]

VARIABLES
  op,         \* process -> the tool call it is executing
  lock,       \* path string -> its lock file: NoLock, Torn (unreadable), or a claim
  content,    \* file -> {} (missing or empty) or the processes whose edits it holds
  lastWrite,  \* history: path string -> the last write through it, aged from its claim
  disturbed   \* history: path strings whose lock file a crash or an overlap spoiled

vars == <<op, lock, content, lastWrite, disturbed>>

\* warned: the human was asked because of another session's claim.
\* stamp: the age of the claim's timestamp.  clean: nobody wrote the lock file since
\* this process truncated it.  buf: what edit_file has read.
Calls == [pc : {"asking", "dispatch", "claim", "stamped", "write"},
          tool : LOCKABLE_TOOLS, name : Names, warned : BOOLEAN, stamp : Ages,
          clean : BOOLEAN, buf : SUBSET Procs]
Idle == [pc |-> "idle"]
Dead == [pc |-> "dead"]

At(p, pc) == op[p].pc = pc
Goto(p, pc) == op' = [op EXCEPT ![p].pc = pc]
Return(p) == op' = [op EXCEPT ![p] = Idle]

-----------------------------------------------------------------------------------
(* locks.py                                                                *)

\* Mutants of IsLive: the boundary is excluded; a claim never ages out.
IsLiveStrict(claim) == claim \notin {NoLock, Torn} /\ claim.age < TTL
IsLiveForever(claim) == claim \notin {NoLock, Torn}

\* check_lock returns a claim: there is a readable one, not older than the TTL.
IsLive(claim) == claim \notin {NoLock, Torn} /\ claim.age <= TTL

\* PermissionChecker.check: a live claim of a different session.
Contested(p, name) == IsLive(lock[name]) /\ lock[name].session # SessionOf[p]

\* The age of a timestamp a second later; check_lock tells nothing apart past the TTL.
Older(age) == IF age <= TTL THEN age + 1 ELSE age

-----------------------------------------------------------------------------------
Init ==
  /\ op = [p \in Procs |-> Idle]
  /\ lock = [n \in Names |-> NoLock]
  /\ content = [f \in Files |-> {}]
  /\ lastWrite = [n \in Names |-> NoWrite]
  /\ disturbed = {}

\* _execute: check the call, then ask or dispatch; a denied call changes nothing.
Check(p, tool, name) ==
  /\ At(p, "idle")
  /\ \E mode \in Modes :
       LET decision == Decide(mode, tool, FALSE, Contested(p, name)) IN
       /\ decision # "deny"
       /\ op' = [op EXCEPT ![p] =
                   [pc     |-> IF decision = "ask" THEN "asking" ELSE "dispatch",
                    tool   |-> tool,
                    name   |-> name,
                    warned |-> decision = "ask" /\ Contested(p, name),
                    stamp  |-> 0,
                    clean  |-> FALSE,
                    buf    |-> {}]]
  /\ UNCHANGED <<lock, content, lastWrite, disturbed>>

\* The human takes any time to answer; the claim is not checked again.
Approve(p) ==
  /\ At(p, "asking")
  /\ Goto(p, "dispatch")
  /\ UNCHANGED <<lock, content, lastWrite, disturbed>>

Refuse(p) ==
  /\ At(p, "asking")
  /\ Return(p)
  /\ UNCHANGED <<lock, content, lastWrite, disturbed>>

\* What the handler starts from: write_file has nothing to read.
Readable(p) == op[p].tool = "edit_file" => content[FileOf[op[p].name]] # {}
ReadBuffer(p) == IF op[p].tool = "edit_file" THEN content[FileOf[op[p].name]] ELSE {}

\* Mutant of Open: the handler writes without claiming.
OpenWithoutClaim(p) ==
  /\ At(p, "dispatch")
  /\ Readable(p)
  /\ op' = [op EXCEPT ![p] = [@ EXCEPT !.pc = "write", !.buf = ReadBuffer(p)]]
  /\ UNCHANGED <<lock, content, lastWrite, disturbed>>

\* The handler's part before the claim: edit_file reads the file it will rewrite.
Open(p) ==
  /\ At(p, "dispatch")
  /\ Readable(p)
  /\ op' = [op EXCEPT ![p] = [@ EXCEPT !.pc = "claim", !.buf = ReadBuffer(p)]]
  /\ UNCHANGED <<lock, content, lastWrite, disturbed>>

\* The handler raises before it claims: the path escapes the root, the file is missing,
\* old_string is absent or ambiguous.  dispatch() returns an error result.
Raise(p) ==
  /\ At(p, "dispatch")
  /\ Return(p)
  /\ UNCHANGED <<lock, content, lastWrite, disturbed>>

\* claim_lock, first half: the record is stamped, the lock file truncated.
ClaimTruncate(p) ==
  /\ At(p, "claim")
  /\ op' = [op EXCEPT ![p] = [@ EXCEPT !.pc = "stamped", !.stamp = 0, !.clean = TRUE]]
  /\ lock' = [lock EXCEPT ![op[p].name] = Torn]
  /\ UNCHANGED <<content, lastWrite, disturbed>>

Claim(p) == [session |-> SessionOf[p], age |-> op[p].stamp]

\* claim_lock, second half: the record is written at the start of the file.  If another
\* process wrote its record since the truncation, the tail of a longer one may remain,
\* and the record that stands may be the older of the two.
ClaimWrite(p) ==
  LET name == op[p].name
      rivals == {q \in Procs \ {p} : At(q, "stamped") /\ op[q].name = name}
  IN
  /\ At(p, "stamped")
  /\ \E record \in {Claim(p)} \cup (IF op[p].clean THEN {} ELSE {Torn}) :
       lock' = [lock EXCEPT ![name] = record]
  /\ disturbed' = IF op[p].clean THEN disturbed \ {name} ELSE disturbed \cup {name}
  /\ op' = [q \in Procs |->
              IF q = p THEN [op[q] EXCEPT !.pc = "write"]
              ELSE IF q \in rivals THEN [op[q] EXCEPT !.clean = FALSE]
              ELSE op[q]]
  /\ UNCHANGED <<content, lastWrite>>

\* path.write_text: what the tool was asked to write, or the edited copy of what it read.
Write(p) ==
  LET name == op[p].name IN
  /\ At(p, "write")
  /\ content' = [content EXCEPT ![FileOf[name]] = op[p].buf \cup {p}]
  /\ lastWrite' = [lastWrite EXCEPT ![name] = Claim(p)]
  /\ Return(p)
  /\ UNCHANGED <<lock, disturbed>>

\* The process dies wherever it is: between the halves of claim_lock it leaves an
\* unreadable lock file, in path.write_text it may leave a truncated file.
Crash(p) ==
  /\ ~At(p, "dead")
  /\ op' = [op EXCEPT ![p] = Dead]
  /\ disturbed' = IF At(p, "stamped") THEN disturbed \cup {op[p].name} ELSE disturbed
  /\ content' \in {content} \cup (IF At(p, "write")
                                   THEN {[content EXCEPT ![FileOf[op[p].name]] = {}]}
                                   ELSE {})
  /\ UNCHANGED <<lock, lastWrite>>

\* lulu --resume: the same session id in a new process.
Resume(p) ==
  /\ At(p, "dead")
  /\ Return(p)
  /\ UNCHANGED <<lock, content, lastWrite, disturbed>>

Aged(claim) == IF claim \in {NoLock, Torn, NoWrite} THEN claim
               ELSE [claim EXCEPT !.age = Older(@)]

\* A second passes.
Tick ==
  /\ lock' = [n \in Names |-> Aged(lock[n])]
  /\ lastWrite' = [n \in Names |-> Aged(lastWrite[n])]
  /\ op' = [p \in Procs |-> IF op[p].pc \in {"stamped", "write"}
                              THEN [op[p] EXCEPT !.stamp = Older(@)]
                              ELSE op[p]]
  /\ UNCHANGED <<content, disturbed>>

Step(p) ==
  \/ \E tool \in LOCKABLE_TOOLS, name \in Names : Check(p, tool, name)
  \/ Approve(p)
  \/ Refuse(p)
  \/ Open(p)
  \/ Raise(p)
  \/ ClaimTruncate(p)
  \/ ClaimWrite(p)
  \/ Write(p)
  \/ Crash(p)
  \/ Resume(p)

Next == Tick \/ \E p \in Procs : Step(p)

\* Time passes; nothing else is promised to happen.
Spec == Init /\ [][Next]_vars /\ WF_vars(Tick)

-----------------------------------------------------------------------------------
(* Properties.                                                             *)

\* The lock files, the calls and the history have the shapes the code gives them.
TypeOK ==
  /\ op \in [Procs -> Calls \cup {Idle, Dead}]
  /\ lock \in [Names -> Claims \cup {NoLock, Torn}]
  /\ content \in [Files -> SUBSET Procs]
  /\ lastWrite \in [Names -> Claims \cup {NoWrite}]
  /\ disturbed \subseteq Names

\* Somebody is between the two halves of claim_lock on this name.
BeingClaimed(name) == \E p \in Procs : At(p, "stamped") /\ op[p].name = name

\* The last write through the name was claimed no longer than the TTL ago.
Recent(name) == lastWrite[name] # NoWrite /\ lastWrite[name].age <= TTL

\* Claim before write (file_tools.py): as long as the claim behind a write has not
\* expired, a claim at least as young is on record for every later check to see,
\* unless the lock file is being rewritten or a crash or an overlap spoiled it.
RecentWriteIsClaimed ==
  \A n \in Names : (Recent(n) /\ n \notin disturbed /\ ~BeingClaimed(n)) =>
    lock[n] \notin {NoLock, Torn} /\ lock[n].age <= lastWrite[n].age

\* Process p's check has just let a call on the name go ahead without warning anybody.
SilentlyChecks(p, name) ==
  /\ op[p].pc = "idle" /\ op'[p].pc \in {"asking", "dispatch"}
  /\ op'[p].name = name /\ ~op'[p].warned

\* A call is let through without a warning only when no write of another session is
\* recent, or this session's own claim superseded it (it was let through before), or the
\* lock file could not be read: what locks.py's fail-open costs and nothing more.
OthersWritesAreWarnedOf ==
  [][ \A p \in Procs, n \in Names : SilentlyChecks(p, n) =>
        \/ ~Recent(n) \/ lastWrite[n].session = SessionOf[p]
        \/ IsLive(lock[n]) /\ lock[n].session = SessionOf[p]
        \/ n \in disturbed \/ BeingClaimed(n) ]_vars

\* "A dead session's lock expires, nothing has to clean it up": once every process of a
\* session is gone for good, its claims stop counting for good.
DeadSessionsBlockNothing ==
  \A s \in Sessions :
    (<>[](\A p \in Procs : SessionOf[p] = s => At(p, "dead")))
      => <>[](\A n \in Names : IsLive(lock[n]) => lock[n].session # s)

-----------------------------------------------------------------------------------
(* What the documentation says and the code does not do.                   *)

\* locks.py: "it stops two agents from silently overwriting each other": an edit nobody
\* was warned about keeps every other edit the file holds.
NoSilentOverwrite ==
  [][ \A p \in Procs :
        (At(p, "write") /\ op'[p].pc = "idle" /\ op[p].tool = "edit_file" /\ ~op[p].warned)
           => content[FileOf[op[p].name]] \subseteq content'[FileOf[op[p].name]] ]_vars

==================================================================================
