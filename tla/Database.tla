------------------------------- MODULE Database -------------------------------
(***************************************************************************)
(* DPL::DB: the connection each thread keeps in ThreadDatabaseSupport, the *)
(* nested ScopedTransactions over it, the queries of the ORM with their    *)
(* cached commands, and the retry loops of SqlConnection.  Threads are     *)
(* threads of one process, each with its own connection to one database.   *)
(*                                                                         *)
(* SQLite is external: deferred transactions in rollback-journal mode.  A  *)
(* reader holds SHARED, a writer RESERVED, a commit that waits for readers *)
(* PENDING; a transaction keeps its lock until it ends.  A call answered   *)
(* SQLITE_BUSY is retried for ever, so it is an action that stays disabled *)
(* until SQLite can answer otherwise.                                      *)
(*                                                                         *)
(* Queries stand for the static thread-local Select, Insert, ... objects   *)
(* of the DAOs (WRT_DB_SELECT and its like): each is prepared once for a   *)
(* thread, used many times, and destroyed when the thread exits.           *)
(***************************************************************************)
EXTENDS Integers, Sequences, SequencesExt, FiniteSets

CONSTANTS
  Threads,
  Reads, Writes, \* the queries: those that select and those that modify
  Failures,      \* what may fail: prepare, statement, abort, commit
  Repeats,       \* a scope may be committed again, in a loop
  SizeT,         \* the number of values of a size_t
  MaxAttach,     \* bound: how often a thread is attached at a time
  MaxScopes,     \* bound: nested scopes of a thread
  MaxCalls       \* bound: scopes opened, queries executed, commits repeated and failures

ASSUME DatabaseAssumption ==
  /\ Reads \cap Writes = {} /\ IsFiniteSet(Reads) /\ IsFiniteSet(Writes)
  /\ Failures \subseteq {"prepare", "statement", "abort", "commit"}
  /\ Repeats \in BOOLEAN
  /\ MaxAttach \in Nat /\ MaxScopes \in Nat /\ MaxCalls \in Nat
  /\ SizeT \in Nat /\ SizeT > MaxCalls + 1

Queries == Reads \cup Writes

VARIABLES
  tls,     \* the thread-local values of ThreadDatabaseSupport
  command, \* m_command of each query: null, ready, or failed when not reset
  scopes,  \* m_commited of the ScopedTransactions that live, outermost first
  call,    \* what a thread does: body, prepare or step of a query, commit, throw,
           \* exited, terminated
  calls,   \* how many calls were made, and how many failed
  sql,     \* SQLite's side of the connection
  ghost    \* history of the outermost scope, and the faults met: see TypeOK

vars == <<tls, command, scopes, call, calls, sql, ghost>>

Closed == [m_connection |-> FALSE, m_linger |-> FALSE, m_refCounter |-> 0,
           m_attachCount |-> 0, m_transactionDepth |-> 0, m_transactionCancel |-> FALSE]
Idle == [open |-> FALSE, lock |-> "none", unsaved |-> 0]
NoHistory == [written |-> 0, durable |-> 0, outcome |-> "none", seen |-> "nothing",
              faults |-> {}]

Init ==
  /\ tls = [t \in Threads |-> Closed]
  /\ command = [t \in Threads |-> [q \in Queries |-> "null"]]
  /\ scopes = [t \in Threads |-> <<>>]
  /\ call = [t \in Threads |-> <<"body">>]
  /\ calls = 0
  /\ sql = [t \in Threads |-> Idle]
  /\ ghost = [t \in Threads |-> NoHistory]

At(t, where) == call[t][1] = where
Goto(t, where) == call' = [call EXCEPT ![t] = <<where>>]
Run(t, where, q) == call' = [call EXCEPT ![t] = <<where, q>>]
QueryOf(t) == call[t][2]
Blame(t, what) == ghost' = [ghost EXCEPT ![t].faults = @ \cup {what}]
Count == calls < MaxCalls /\ calls' = calls + 1

InScope(t) == scopes[t] # <<>>
\* After its Commit a scope is only left, except in the loop that goes on to
\* insert the next row and to commit again.
Over(t) == InScope(t) /\ Last(scopes[t])
Working(t) == At(t, "body") /\ (Over(t) => Repeats)
Blamed(t) == IF Over(t) THEN [ghost[t] EXCEPT !.faults = @ \cup {"repeat"}] ELSE ghost[t]
(***************************************************************************)
(* SQLite.                                                                 *)
(***************************************************************************)
NobodyElse(t, locks) == \A u \in Threads \ {t} : sql[u].lock \notin locks

MayRead(t) == sql[t].lock # "none" \/ NobodyElse(t, {"pending"})
MayReserve(t) ==
  \/ sql[t].lock \in {"reserved", "pending"}
  \/ MayRead(t) /\ NobodyElse(t, {"reserved", "pending"})
MaySave(t) == NobodyElse(t, {"shared", "reserved", "pending"})

\* n writes of thread t become durable, and what others have read is out of
\* date; the ghost of t becomes mine.
Save(t, n, mine) ==
  ghost' = [u \in Threads |->
    IF u = t THEN mine
    ELSE IF n > 0 /\ ghost[u].seen = "current" THEN [ghost[u] EXCEPT !.seen = "stale"]
    ELSE ghost[u]]

(***************************************************************************)
(* The connection of a thread.                                             *)
(***************************************************************************)
\* Mutant: the commands that live are not looked at.
DeleteUnchecked(v) == IF v.m_attachCount > 0 THEN v ELSE Closed

CheckedConnectionDelete(v) ==
  IF v.m_refCounter > 0 \/ v.m_attachCount > 0 THEN v ELSE Closed

\* The values of t become v; a connection that is deleted closes its side of SQLite.
Keep(t, v) ==
  /\ tls' = [tls EXCEPT ![t] = v]
  /\ sql' = IF v.m_connection THEN sql ELSE [sql EXCEPT ![t] = Idle]

AttachToThread(t) ==
  /\ At(t, "body") /\ ~InScope(t)
  /\ tls[t].m_attachCount < MaxAttach
  /\ IF tls[t].m_connection
     THEN /\ tls' = [tls EXCEPT ![t].m_linger = FALSE, ![t].m_attachCount = @ + 1]
          /\ UNCHANGED ghost
     ELSE /\ tls' = [tls EXCEPT ![t] = [Closed EXCEPT !.m_connection = TRUE,
                                                     !.m_attachCount = 1]]
          /\ ghost' = [ghost EXCEPT ![t] = NoHistory]
  /\ UNCHANGED <<command, scopes, call, calls, sql>>

DetachFromThread(t) ==
  /\ At(t, "body") /\ ~InScope(t)
  /\ tls[t].m_attachCount > 0
  /\ LET v == [tls[t] EXCEPT !.m_attachCount = @ - 1]
     IN Keep(t, IF v.m_attachCount > 0 THEN v
                ELSE CheckedConnectionDelete([v EXCEPT !.m_linger = TRUE]))
  /\ UNCHANGED <<command, scopes, call, calls, ghost>>

\* FreeDataCommand, for n commands.
Freed(v, n) ==
  LET w == [v EXCEPT !.m_refCounter = @ - n]
  IN IF n > 0 /\ w.m_linger THEN CheckedConnectionDelete(w) ELSE w

\* The destructors of the thread-local queries free their commands.
ExitThread(t) ==
  /\ At(t, "body") /\ ~InScope(t)
  /\ Keep(t, Freed(tls[t], Cardinality({q \in Queries : command[t][q] # "null"})))
  /\ command' = [command EXCEPT ![t] = [q \in Queries |-> "null"]]
  /\ Goto(t, "exited")
  /\ UNCHANGED <<scopes, calls, ghost>>

(***************************************************************************)
(* Queries.  Execute of Select, Insert, Update and Delete: prepare once,   *)
(* bind, step, reset.                                                      *)
(***************************************************************************)
AllocDataCommand(t) == tls' = [tls EXCEPT ![t].m_refCounter = @ + 1]

\* Binding to a command that was not reset after an error is a misuse, which throws.
Execute(t, q) ==
  /\ Working(t) /\ tls[t].m_attachCount > 0
  /\ Count
  /\ \/ /\ command[t][q] = "null"
        /\ AllocDataCommand(t)
        /\ Run(t, "prepare", q)
     \/ /\ command[t][q] = "ready"
        /\ Run(t, "step", q) /\ UNCHANGED tls
     \/ /\ command[t][q] = "failed"
        /\ Goto(t, "throw") /\ UNCHANGED tls
  /\ ghost' = [ghost EXCEPT ![t] = Blamed(t)]
  /\ UNCHANGED <<command, scopes, sql>>

PrepareReturns(t) ==
  /\ At(t, "prepare")
  /\ MayRead(t)
  /\ command' = [command EXCEPT ![t][QueryOf(t)] = "ready"]
  /\ Run(t, "step", QueryOf(t))
  /\ UNCHANGED <<tls, scopes, calls, sql, ghost>>

\* The reference AllocDataCommand has added is not taken back.
PrepareFails(t) ==
  /\ At(t, "prepare")
  /\ Count
  /\ "prepare" \in Failures
  /\ Goto(t, "throw") /\ Blame(t, "prepare")
  /\ UNCHANGED <<tls, command, scopes, sql>>

\* Mutant: the command is not reset after its last row.
LockNotReset(t) == IF sql[t].lock = "none" THEN "shared" ELSE sql[t].lock

\* The lock after a query has read and was reset.
LockAfterRead(t) == IF sql[t].open /\ sql[t].lock = "none" THEN "shared" ELSE sql[t].lock

StepRead(t) ==
  /\ At(t, "step") /\ QueryOf(t) \in Reads
  /\ MayRead(t)
  /\ sql' = [sql EXCEPT ![t].lock = LockAfterRead(t)]
  /\ ghost' = IF ghost[t].outcome \in {"open", "doomed"} /\ ghost[t].seen = "nothing"
              THEN [ghost EXCEPT ![t].seen = "current"] ELSE ghost
  /\ Goto(t, "body")
  /\ UNCHANGED <<tls, command, scopes, calls>>

MayWrite(t) ==
  /\ At(t, "step") /\ QueryOf(t) \in Writes
  /\ MayReserve(t)

WriteOf(t) == IF InScope(t) THEN [ghost[t] EXCEPT !.written = @ + 1] ELSE ghost[t]

StepWrite(t) ==
  /\ MayWrite(t) /\ sql[t].open
  /\ sql' = [sql EXCEPT ![t].unsaved = @ + 1,
                        ![t].lock = IF @ = "pending" THEN @ ELSE "reserved"]
  /\ ghost' = [ghost EXCEPT ![t] = WriteOf(t)]
  /\ Goto(t, "body")
  /\ UNCHANGED <<tls, command, scopes, calls>>

\* Without a transaction the statement commits itself; refused, it keeps no lock.
StepWriteAlone(t) ==
  /\ MayWrite(t) /\ ~sql[t].open
  /\ MaySave(t)
  /\ Save(t, 1, [WriteOf(t) EXCEPT !.durable = IF InScope(t) THEN @ + 1 ELSE @])
  /\ Goto(t, "body")
  /\ UNCHANGED <<tls, command, scopes, calls, sql>>

\* Step throws, so Reset is not called.  The worse errors (a full disk, no
\* memory) make SQLite roll back the whole transaction by itself.
StepFails(t) ==
  /\ At(t, "step")
  /\ Count
  /\ command' = [command EXCEPT ![t][QueryOf(t)] = "failed"]
  /\ Goto(t, "throw")
  /\ \/ /\ "statement" \in Failures
        /\ UNCHANGED <<sql, ghost>>
     \/ /\ "abort" \in Failures /\ sql[t].open
        /\ sql' = [sql EXCEPT ![t] = Idle]
        /\ Blame(t, "abort")
  /\ UNCHANGED <<tls, scopes>>

(***************************************************************************)
(* Transactions: TransactionBegin, Commit and Rollback, called by the      *)
(* scopes.                                                                 *)
(***************************************************************************)
Begun(v) ==
  LET depth == (v.m_transactionDepth + 1) % SizeT
  IN [v EXCEPT !.m_transactionDepth = depth,
               !.m_transactionCancel = IF depth = 1 THEN FALSE ELSE @]

\* Mutant: the innermost scope that ends is taken for the outermost.
UnrefAll(v) == [v EXCEPT !.m_transactionDepth = 0]

TransactionUnref(v) == [v EXCEPT !.m_transactionDepth = (@ - 1) % SizeT]

\* Mutant: only the scope that fails is rolled back.
UncancelledUnref(v) == TransactionUnref(v)

CancelledUnref(v) == [TransactionUnref(v) EXCEPT !.m_transactionCancel = TRUE]

Rollback(t) == [sql EXCEPT ![t] = Idle]

Mark(t) == scopes' = [scopes EXCEPT ![t][Len(scopes[t])] = TRUE]

\* The commit of the outermost scope settles what all its scopes have done.
Settled(t, g) ==
  IF Len(scopes[t]) > 1 THEN g
  ELSE [g EXCEPT !.seen = "nothing",
                 !.outcome = IF @ = "doomed" THEN "rolledback" ELSE "committed"]

\* A BEGIN inside a transaction is an error: the constructor throws.
OpenScope(t) ==
  /\ At(t, "body") /\ ~Over(t) /\ tls[t].m_attachCount > 0
  /\ Len(scopes[t]) < MaxScopes
  /\ Count
  /\ tls' = [tls EXCEPT ![t] = Begun(@)]
  /\ IF Begun(tls[t]).m_transactionDepth = 1 /\ sql[t].open
     THEN Goto(t, "throw") /\ UNCHANGED <<scopes, sql>>
     ELSE /\ scopes' = [scopes EXCEPT ![t] = Append(@, FALSE)]
          /\ sql' = [sql EXCEPT ![t].open = @ \/ Begun(tls[t]).m_transactionDepth = 1]
          /\ UNCHANGED call
  /\ ghost' = IF InScope(t) THEN ghost
              ELSE [ghost EXCEPT ![t] = [@ EXCEPT !.written = 0, !.durable = 0,
                                                  !.outcome = "open", !.seen = "nothing"]]
  /\ UNCHANGED command

\* A transaction that was cancelled inside is rolled back, and Commit returns.
Commit(t) ==
  /\ Working(t) /\ InScope(t)
  /\ IF Over(t) THEN Count ELSE UNCHANGED calls
  /\ tls' = [tls EXCEPT ![t] = TransactionUnref(@)]
  /\ LET outermost == TransactionUnref(tls[t]).m_transactionDepth = 0
         cancel == tls[t].m_transactionCancel
     IN \/ /\ ~outermost
           /\ Mark(t) /\ ghost' = [ghost EXCEPT ![t] = Blamed(t)]
           /\ UNCHANGED <<call, sql>>
        \/ /\ outermost /\ cancel /\ sql[t].open
           /\ sql' = Rollback(t)
           /\ Mark(t) /\ ghost' = [ghost EXCEPT ![t] = Settled(t, Blamed(t))]
           /\ UNCHANGED call
        \/ /\ outermost
           /\ IF cancel THEN ~sql[t].open /\ Goto(t, "throw") ELSE Goto(t, "commit")
           /\ ghost' = [ghost EXCEPT ![t] = Blamed(t)]
           /\ UNCHANGED <<scopes, sql>>
  /\ UNCHANGED command

CommitReturns(t) ==
  /\ At(t, "commit") /\ sql[t].open
  /\ sql[t].lock \in {"none", "shared"} \/ MaySave(t)
  /\ sql' = [sql EXCEPT ![t] = Idle]
  /\ Save(t, sql[t].unsaved, [Settled(t, ghost[t]) EXCEPT !.durable = @ + sql[t].unsaved])
  /\ Mark(t) /\ Goto(t, "body")
  /\ UNCHANGED <<tls, command, calls>>

\* The first COMMIT refused for a reader keeps new readers away.
CommitWaits(t) ==
  /\ At(t, "commit")
  /\ sql[t].lock = "reserved" /\ ~MaySave(t)
  /\ sql' = [sql EXCEPT ![t].lock = "pending"]
  /\ UNCHANGED <<tls, command, scopes, call, calls, ghost>>

\* The depth was counted down before, and the scope is not marked.
CommitFails(t) ==
  /\ At(t, "commit") /\ sql[t].open
  /\ "commit" \in Failures
  /\ Count
  /\ Goto(t, "throw") /\ Blame(t, "commit")
  /\ UNCHANGED <<tls, command, scopes, sql>>

\* SQLite has no transaction to commit.
CommitRefused(t) ==
  /\ At(t, "commit") /\ ~sql[t].open
  /\ Goto(t, "throw")
  /\ UNCHANGED <<tls, command, scopes, calls, sql, ghost>>

\* The innermost scope is destroyed, at the end of its block or by an
\* exception.  A ROLLBACK that fails throws from the destructor.
LeaveScope(t) ==
  /\ call[t][1] \in {"body", "throw"} /\ InScope(t)
  /\ scopes' = [scopes EXCEPT ![t] = Front(@)]
  /\ IF Last(scopes[t]) THEN UNCHANGED <<tls, sql, call, ghost>>
     ELSE LET last == CancelledUnref(tls[t]).m_transactionDepth = 0
              outer == Len(scopes[t]) = 1
          IN /\ tls' = [tls EXCEPT ![t] = CancelledUnref(@)]
             /\ sql' = IF last THEN Rollback(t) ELSE sql
             /\ IF last /\ ~sql[t].open
                THEN Goto(t, IF At(t, "throw") THEN "terminated" ELSE "throw")
                ELSE UNCHANGED call
             /\ ghost' = [ghost EXCEPT
                  ![t].seen = IF outer THEN "nothing" ELSE @,
                  ![t].outcome = IF outer THEN "rolledback"
                                 ELSE IF @ = "open" THEN "doomed" ELSE @]
  /\ UNCHANGED <<command, calls>>

\* Some caller handles the exception.
Catch(t) ==
  /\ At(t, "throw")
  /\ Goto(t, "body")
  /\ UNCHANGED <<tls, command, scopes, calls, sql, ghost>>

\* What goes on by itself: SQLite answers, and a function that has opened a
\* scope leaves it.
Progress(t) ==
  \/ PrepareReturns(t) \/ StepRead(t) \/ StepWrite(t) \/ StepWriteAlone(t)
  \/ CommitReturns(t) \/ CommitWaits(t) \/ CommitRefused(t) \/ LeaveScope(t)

\* std::terminate ends every thread.
Next ==
  /\ \A t \in Threads : ~At(t, "terminated")
  /\ \E t \in Threads :
       \/ AttachToThread(t) \/ DetachFromThread(t) \/ ExitThread(t)
       \/ \E q \in Queries : Execute(t, q)
       \/ PrepareFails(t) \/ StepFails(t) \/ CommitFails(t)
       \/ OpenScope(t) \/ Commit(t) \/ Catch(t)
       \/ Progress(t)

Spec == Init /\ [][Next]_vars
FairSpec ==
  Spec /\ \A t \in Threads : WF_vars((\A u \in Threads : ~At(u, "terminated")) /\ Progress(t))

-----------------------------------------------------------------------------
TypeOK ==
  /\ tls \in [Threads -> [m_connection : BOOLEAN, m_linger : BOOLEAN,
                          m_refCounter : 0..MaxCalls, m_attachCount : 0..MaxAttach,
                          m_transactionDepth : 0..(SizeT - 1),
                          m_transactionCancel : BOOLEAN]]
  /\ command \in [Threads -> [Queries -> {"null", "ready", "failed"}]]
  /\ scopes \in [Threads -> BoundedSeq(BOOLEAN, MaxScopes)]
  /\ call \in [Threads ->
       {<<where>> : where \in {"body", "commit", "throw", "exited", "terminated"}}
         \cup ({"prepare", "step"} \X Queries)]
  /\ calls \in 0..MaxCalls
  /\ sql \in [Threads -> [open : BOOLEAN, unsaved : 0..MaxCalls,
                          lock : {"none", "shared", "reserved", "pending"}]]
  /\ ghost \in [Threads ->
       [written : 0..MaxCalls, durable : 0..MaxCalls,
        outcome : {"none", "open", "doomed", "committed", "rolledback"},
        seen : {"nothing", "current", "stale"},
        faults : SUBSET {"prepare", "abort", "commit", "repeat"}]]

\* The depth of the transaction no longer tells what SQLite does: a COMMIT
\* has failed, SQLite has rolled back by itself, or a scope was committed twice.
Astray(t) == ghost[t].faults \cap {"abort", "commit", "repeat"} # {}

\* What the scopes of a thread write together is saved together, and only
\* when each of them was committed; until the outermost is, nothing is.
AllOrNothing ==
  \A t \in Threads :
    Astray(t) \/ ghost[t].durable =
                 (IF ghost[t].outcome = "committed" THEN ghost[t].written ELSE 0)

\* m_transactionDepth counts the scopes not yet committed, and SQLite has a
\* transaction exactly when there is one.
DepthCountsScopes ==
  \A t \in Threads :
    Astray(t) \/ LET uncommitted == Len(scopes[t]) - (IF Over(t) THEN 1 ELSE 0)
                 IN /\ sql[t].open <=> uncommitted > 0
                    /\ tls[t].m_transactionDepth =
                         (IF At(t, "commit") THEN uncommitted - 1 ELSE uncommitted)

\* What a transaction has read holds until the transaction ends: a check and
\* the insert or update that follows it are one step to the other threads.
ReadsStayValid == \A t \in Threads : Astray(t) \/ ghost[t].seen # "stale"

\* The connection outlives the commands prepared on it.
CommandsHaveConnection ==
  \A t \in Threads :
    (\E q \in Queries : command[t][q] # "null") => tls[t].m_connection

\* A thread detached as often as attached leaves no connection behind when it
\* exits, unless the preparation of a query has failed.
ConnectionClosed ==
  \A t \in Threads :
    At(t, "exited") /\ tls[t].m_attachCount = 0 /\ "prepare" \notin ghost[t].faults
      => ~tls[t].m_connection

\* A thread outside its functions keeps no lock on the database.
NoLockKept ==
  \A t \in Threads :
    Astray(t) \/ (call[t][1] \in {"body", "throw", "exited"} /\ ~InScope(t)
                    => sql[t] = Idle)

\* Connections, commands and locks are released with what they are for.
ResourcesReleased == TypeOK /\ CommandsHaveConnection /\ ConnectionClosed /\ NoLockKept

-----------------------------------------------------------------------------
Retrying(t) == call[t][1] \in {"prepare", "step", "commit"}

\* Two transactions that have read: one wants to write, the other to commit.
Livelock ==
  \E t, u \in Threads :
    At(t, "step") /\ QueryOf(t) \in Writes /\ sql[t].lock = "shared" /\ sql[u].lock = "pending"

\* A call that SQLite keeps refusing returns at last, unless two transactions
\* refuse each other or a thread astray keeps its lock.
CallReturns ==
  \A t \in Threads :
    Retrying(t) ~> \/ ~Retrying(t) \/ Livelock
                   \/ \E u \in Threads : \/ Astray(u) /\ sql[u].lock # "none"
                                        \/ At(u, "terminated")

===============================================================================
