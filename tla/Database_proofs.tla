---------------------------- MODULE Database_proofs ----------------------------
(***************************************************************************)
(* Theorems about Database, for every set of threads and queries, every    *)
(* choice of failures, every nesting of scopes and every number of calls.  *)
(***************************************************************************)
EXTENDS Database, FiniteSetTheorems, TLAPS

Places == {"body", "commit", "throw", "exited", "terminated"}
Calls == {<<where>> : where \in Places} \cup ({"prepare", "step"} \X Queries)
Faults == {"prepare", "abort", "commit", "repeat"}

Connections ==
  [m_connection : BOOLEAN, m_linger : BOOLEAN, m_refCounter : Int, m_attachCount : Nat,
   m_transactionDepth : 0..(SizeT - 1), m_transactionCancel : BOOLEAN]

Sides ==
  [open : BOOLEAN, unsaved : Nat, lock : {"none", "shared", "reserved", "pending"}]

Histories ==
  [written : Nat, durable : Nat,
   outcome : {"none", "open", "doomed", "committed", "rolledback"},
   seen : {"nothing", "current", "stale"}, faults : SUBSET Faults]

Types ==
  /\ tls \in [Threads -> Connections]
  /\ scopes \in [Threads -> Seq(BOOLEAN)]
  /\ call \in [Threads -> Calls]
  /\ command \in [Threads -> [Queries -> {"null", "ready", "failed"}]]
  /\ calls \in 0..MaxCalls
  /\ sql \in [Threads -> Sides]
  /\ ghost \in [Threads -> Histories]

\* How many scopes of the thread are still to be committed or rolled back.
Uncommitted(t) == Len(scopes[t]) - (IF Over(t) THEN 1 ELSE 0)

\* A connection is there while a thread is attached, so while it uses it, and a
\* transaction is committed by a scope; once it is gone SQLite has nothing of it.
Connected(t) ==
  /\ tls[t].m_attachCount > 0 => tls[t].m_connection
  /\ ~tls[t].m_connection => sql[t] = Idle
  /\ InScope(t) \/ call[t][1] \in {"prepare", "step", "commit", "throw"} => tls[t].m_attachCount > 0
  /\ call[t][1] = "commit" => InScope(t)

\* SQLite: unsaved writes need the lock of a writer, locks a transaction.
LockedRight(t) ==
  /\ sql[t].unsaved > 0 => sql[t].lock \in {"reserved", "pending"}
  /\ sql[t].lock # "none" => sql[t].open

\* Only the innermost scope may be committed already.
MarkedLast(t) ==
  /\ Len(scopes[t]) <= calls
  /\ \A i \in 1..(Len(scopes[t]) - 1) : ~scopes[t][i]

\* The depth, SQLite's transaction and the history agree with the scopes.
Counted(t) ==
  /\ sql[t].open <=> Uncommitted(t) > 0
  /\ tls[t].m_transactionDepth =
       (IF At(t, "commit") THEN Uncommitted(t) - 1 ELSE Uncommitted(t))
  /\ call[t][1] \in {"prepare", "step", "commit"} => ~Over(t)
  /\ At(t, "commit") => /\ Uncommitted(t) = 1
                        /\ ~tls[t].m_transactionCancel

Recorded(t) ==
  IF Uncommitted(t) > 0
  THEN /\ ghost[t].outcome = (IF tls[t].m_transactionCancel THEN "doomed" ELSE "open")
       /\ ghost[t].durable = 0
       /\ sql[t].unsaved = ghost[t].written
  ELSE /\ ghost[t].outcome \in {"none", "committed", "rolledback"}
       /\ ghost[t].durable = (IF ghost[t].outcome = "committed" THEN ghost[t].written ELSE 0)

\* What was read is protected by a lock.
Protected(t) ==
  /\ ghost[t].seen # "stale"
  /\ ghost[t].seen = "current" => sql[t].lock # "none"

ThreadInv(t) ==
  /\ Connected(t) /\ LockedRight(t) /\ MarkedLast(t)
  /\ Astray(t) \/ (Counted(t) /\ Recorded(t) /\ Protected(t))

\* The inductive invariant.
DatabaseInv == Types /\ \A t \in Threads : ThreadInv(t)

-------------------------------------------------------------------------------
(***************************************************************************)
(* Lemmas about depths, stacks of scopes, and the other threads.           *)
(***************************************************************************)

LEMMA DepthsWrap ==
  /\ \A n \in Int : n % SizeT \in 0..(SizeT - 1)
  /\ \A n \in Nat : n < SizeT => n % SizeT = n
BY DatabaseAssumption

LEMMA ItemAppended ==
  ASSUME NEW S, NEW s \in Seq(S), NEW x \in S
  PROVE  LET n == Append(s, x)
         IN  /\ n \in Seq(S) /\ Len(n) = Len(s) + 1 /\ n # <<>>
             /\ n[Len(n)] = x
             /\ \A i \in 1..Len(s) : n[i] = s[i]
OBVIOUS

LEMMA EmptyIsNone ==
  ASSUME NEW S, NEW s \in Seq(S)
  PROVE  s = <<>> <=> Len(s) = 0
OBVIOUS

LEMMA LastReplaced ==
  ASSUME NEW S, NEW s \in Seq(S), s # <<>>, NEW x \in S
  PROVE  LET n == [s EXCEPT ![Len(s)] = x]
         IN  /\ n \in Seq(S) /\ Len(n) = Len(s) /\ n # <<>>
             /\ n[Len(n)] = x
             /\ \A i \in 1..(Len(s) - 1) : n[i] = s[i]
<1>. DEFINE n == [s EXCEPT ![Len(s)] = x]
<1>1. Len(s) \in Nat /\ Len(s) >= 1
  OBVIOUS
<1>2. n \in Seq(S) /\ Len(n) = Len(s)
  BY <1>1
<1>3. n # <<>>
  BY <1>1, <1>2, EmptyIsNone
<1>4. n[Len(s)] = x /\ \A i \in 1..(Len(s) - 1) : n[i] = s[i]
  BY <1>1
<1>. QED
  BY <1>2, <1>3, <1>4

LEMMA LastRemoved ==
  ASSUME NEW S, NEW s \in Seq(S), s # <<>>
  PROVE  LET n == Front(s)
         IN  /\ n \in Seq(S) /\ Len(n) = Len(s) - 1
             /\ n = <<>> <=> Len(s) = 1
             /\ \A i \in 1..(Len(s) - 1) : n[i] = s[i]
<1>1. Len(s) \in Nat /\ Len(s) >= 1
  OBVIOUS
<1>2. Front(s) = [i \in 1..(Len(s) - 1) |-> s[i]]
  BY <1>1 DEF Front
<1>3. Front(s) \in Seq(S) /\ Len(Front(s)) = Len(s) - 1
  BY <1>1, <1>2
<1>4. Front(s) = <<>> <=> Len(s) = 1
  BY <1>1, <1>3, EmptyIsNone
<1>5. \A i \in 1..(Len(s) - 1) : Front(s)[i] = s[i]
  BY <1>2
<1>. QED
  BY <1>3, <1>4, <1>5

\* A thread none of whose values change keeps its invariant.
LEMMA OthersKeep ==
  ASSUME DatabaseInv, Types', NEW u \in Threads,
         tls'[u] = tls[u], scopes'[u] = scopes[u], call'[u] = call[u], sql'[u] = sql[u],
         ghost'[u] = ghost[u], calls' >= calls
  PROVE  ThreadInv(u)'
<1>1. Len(scopes[u]) \in Nat /\ calls \in Nat /\ calls' \in Nat
  BY DEF DatabaseInv, Types
<1>2. /\ (InScope(u)' <=> InScope(u)) /\ (Over(u)' <=> Over(u)) /\ (Astray(u)' <=> Astray(u))
      /\ (At(u, "commit")' <=> At(u, "commit"))
  BY DEF InScope, Over, Astray, At
<1>3. Uncommitted(u)' = Uncommitted(u)
  BY <1>2 DEF Uncommitted
<1>4. ThreadInv(u)
  BY DEF DatabaseInv
<1>5. Connected(u)' /\ LockedRight(u)'
  BY <1>2, <1>4 DEF ThreadInv, Connected, LockedRight
<1>6. MarkedLast(u)'
  BY <1>1, <1>4 DEF ThreadInv, MarkedLast
<1>7. Astray(u) \/ (Counted(u)' /\ Recorded(u)' /\ Protected(u)')
  BY <1>2, <1>3, <1>4 DEF ThreadInv, Counted, Recorded, Protected
<1>. QED
  BY <1>2, <1>5, <1>6, <1>7 DEF ThreadInv

\* Of a thread that holds no lock only the history may be outdated by another.
LEMMA OutdatedKeeps ==
  ASSUME DatabaseInv, Types', NEW u \in Threads,
         tls'[u] = tls[u], scopes'[u] = scopes[u], call'[u] = call[u], sql'[u] = sql[u],
         sql[u].lock = "none", ghost[u].seen = "current",
         ghost'[u] = [ghost[u] EXCEPT !.seen = "stale"], calls' >= calls
  PROVE  ThreadInv(u)'
<1>1. Len(scopes[u]) \in Nat /\ calls \in Nat /\ calls' \in Nat
  BY DEF DatabaseInv, Types
<1>2. Astray(u) /\ Astray(u)'
  BY DEF DatabaseInv, ThreadInv, Protected, Astray, Types, Histories
<1>. QED
  BY <1>1, <1>2 DEF DatabaseInv, ThreadInv, Connected, LockedRight, MarkedLast, InScope, At

\* The facts a proof about thread t starts from.
FactsOf(t) ==
  /\ tls[t] \in Connections /\ sql[t] \in Sides /\ ghost[t] \in Histories
  /\ scopes[t] \in Seq(BOOLEAN) /\ Len(scopes[t]) \in Nat
  /\ InScope(t) <=> Len(scopes[t]) > 0
  /\ InScope(t) => Last(scopes[t]) = scopes[t][Len(scopes[t])] /\ Last(scopes[t]) \in BOOLEAN
  /\ Uncommitted(t) \in Nat

Sizes ==
  /\ calls \in Nat /\ calls <= MaxCalls /\ MaxCalls \in Nat
  /\ SizeT \in Nat /\ SizeT > MaxCalls + 1

LEMMA Facts ==
  ASSUME DatabaseInv, NEW t \in Threads
  PROVE  ThreadInv(t) /\ FactsOf(t) /\ Sizes
<1>1. /\ tls[t] \in Connections /\ sql[t] \in Sides /\ ghost[t] \in Histories
      /\ scopes[t] \in Seq(BOOLEAN) /\ Len(scopes[t]) \in Nat
  BY DEF DatabaseInv, Types
<1>2. Sizes
  BY DatabaseAssumption DEF DatabaseInv, Types, Sizes
<1>3. InScope(t) <=> Len(scopes[t]) > 0
  BY <1>1 DEF InScope
<1>4. InScope(t) => Last(scopes[t]) = scopes[t][Len(scopes[t])] /\ Last(scopes[t]) \in BOOLEAN
  BY <1>1, <1>3 DEF Last
<1>5. Uncommitted(t) \in Nat
  BY <1>1, <1>3 DEF Uncommitted, Over
<1>. QED
  BY <1>1, <1>2, <1>3, <1>4, <1>5 DEF FactsOf, DatabaseInv

LEMMA DatabaseInit == Init => DatabaseInv
<1>. SUFFICES ASSUME Init PROVE DatabaseInv
  OBVIOUS
<1>1. Types
  <2>1. Closed \in Connections /\ Idle \in Sides /\ NoHistory \in Histories /\ 0 \in 0..MaxCalls
    BY DatabaseAssumption DEF Closed, Connections, Idle, Sides, NoHistory, Histories
  <2>2. <<>> \in Seq(BOOLEAN) /\ <<"body">> \in Calls
    BY DEF Places, Calls
  <2>. QED
    BY <2>1, <2>2 DEF Init, Types
<1>2. ASSUME NEW t \in Threads PROVE ThreadInv(t)
  <2>1. /\ tls[t] = Closed /\ sql[t] = Idle /\ ghost[t] = NoHistory /\ scopes[t] = <<>>
        /\ Len(scopes[t]) = 0 /\ call[t][1] = "body" /\ calls = 0
    BY DEF Init
  <2>2. ~InScope(t) /\ ~Over(t) /\ Uncommitted(t) = 0
    BY <2>1 DEF InScope, Over, Uncommitted
  <2>. QED
    BY <2>1, <2>2 DEF ThreadInv, Connected, LockedRight, MarkedLast, Counted, Recorded, Protected,
       At, Closed, Idle, NoHistory
<1>. QED
  BY <1>1, <1>2 DEF DatabaseInv

-------------------------------------------------------------------------------
(***************************************************************************)
(* Steps of a thread, which change nothing of the others but what they     *)
(* have read.                                                              *)
(***************************************************************************)

OthersSame(t) ==
  \A u \in Threads : u # t =>
    /\ tls'[u] = tls[u] /\ scopes'[u] = scopes[u] /\ call'[u] = call[u] /\ sql'[u] = sql[u]
    /\ \/ ghost'[u] = ghost[u]
       \/ /\ sql[u].lock = "none" /\ ghost[u].seen = "current"
          /\ ghost'[u] = [ghost[u] EXCEPT !.seen = "stale"]

LEMMA ActorKeeps ==
  ASSUME DatabaseInv, Types', NEW t \in Threads, OthersSame(t), calls' >= calls, ThreadInv(t)'
  PROVE  DatabaseInv'
<1>1. ASSUME NEW u \in Threads, u # t PROVE ThreadInv(u)'
  BY <1>1, OthersKeep, OutdatedKeeps DEF OthersSame
<1>. QED
  BY <1>1 DEF DatabaseInv

\* The scopes stay.
LEMMA SameScopes ==
  ASSUME NEW t \in Threads, scopes' = scopes
  PROVE  /\ InScope(t)' <=> InScope(t)
         /\ Over(t)' <=> Over(t)
         /\ Uncommitted(t)' = Uncommitted(t)
BY DEF InScope, Over, Uncommitted

\* A thread outside its scopes has no transaction.
LEMMA OutsideIsIdle ==
  ASSUME DatabaseInv, NEW t \in Threads, ~InScope(t)
  PROVE  /\ ~Over(t) /\ Len(scopes[t]) = 0 /\ Uncommitted(t) = 0
         /\ ~Astray(t) => /\ ~sql[t].open /\ sql[t].lock = "none" /\ sql[t].unsaved = 0
                          /\ ghost[t].seen = "nothing"
<1>1. ThreadInv(t) /\ FactsOf(t)
  BY Facts
<1>2. ~Over(t) /\ Len(scopes[t]) = 0 /\ Uncommitted(t) = 0
  BY <1>1 DEF FactsOf, Over, Uncommitted
<1>3. ~Astray(t) => ~sql[t].open /\ sql[t].lock = "none"
  BY <1>1, <1>2 DEF ThreadInv, Counted, LockedRight
<1>4. ~Astray(t) => sql[t].unsaved = 0 /\ ghost[t].seen = "nothing"
  BY <1>1, <1>3 DEF ThreadInv, Protected, LockedRight, FactsOf, Sides, Histories
<1>. QED
  BY <1>2, <1>3, <1>4

LEMMA AttachKeeps ==
  ASSUME DatabaseInv, NEW t \in Threads, AttachToThread(t)
  PROVE  DatabaseInv'
<1>. USE DEF AttachToThread
<1>1. ThreadInv(t) /\ FactsOf(t) /\ Sizes
  BY Facts
<1>2. ~InScope(t) /\ call[t][1] = "body" /\ ~Over(t) /\ Uncommitted(t) = 0 /\ Len(scopes[t]) = 0
  BY OutsideIsIdle DEF At
<1>3. CASE tls[t].m_connection
  <2>. DEFINE v == [tls[t] EXCEPT !.m_linger = FALSE, !.m_attachCount = @ + 1]
  <2>1. tls' = [tls EXCEPT ![t] = v]
    BY <1>3
  <2>0. tls[t] \in Connections /\ tls[t].m_attachCount + 1 \in Nat /\ tls[t].m_attachCount + 1 > 0
    BY <1>1 DEF Connections, FactsOf
  <2>01. v \in Connections
    BY <2>0 DEF Connections
  <2>2. /\ v \in Connections /\ v.m_connection /\ v.m_attachCount > 0
        /\ v.m_transactionDepth = tls[t].m_transactionDepth
        /\ v.m_transactionCancel = tls[t].m_transactionCancel
    BY <1>3, <2>0, <2>01 DEF Connections
  <2>. HIDE DEF v
  <2>3. Types'
    BY <1>3, <2>1, <2>2 DEF DatabaseInv, Types
  <2>4. tls'[t] = v
    BY <2>1 DEF DatabaseInv, Types
  <2>5. ThreadInv(t)'
    BY <1>1, <1>2, <1>3, <2>2, <2>4, SameScopes
       DEF ThreadInv, Connected, LockedRight, MarkedLast, Counted, Recorded, Protected, Astray, At
  <2>6. OthersSame(t) /\ calls' >= calls
    BY <1>1, <1>3, <2>1 DEF OthersSame, DatabaseInv, Types, Sizes
  <2>. QED
    BY <2>3, <2>5, <2>6, ActorKeeps
<1>4. CASE ~tls[t].m_connection
  <2>. DEFINE v == [Closed EXCEPT !.m_connection = TRUE, !.m_attachCount = 1]
  <2>1. tls' = [tls EXCEPT ![t] = v] /\ ghost' = [ghost EXCEPT ![t] = NoHistory]
    BY <1>4
  <2>2. /\ v \in Connections /\ v.m_connection /\ v.m_attachCount = 1
        /\ v.m_transactionDepth = 0
    <3>1. Closed \in Connections
      BY <1>1 DEF Closed, Connections, Sizes
    <3>2. v \in Connections
      BY <3>1 DEF Connections
    <3>. QED
      BY <3>2 DEF Closed
  <2>3. NoHistory \in Histories
    BY DEF NoHistory, Histories
  <2>. HIDE DEF v
  <2>4. Types'
    BY <1>4, <2>1, <2>2, <2>3 DEF DatabaseInv, Types
  <2>5. tls'[t] = v /\ ghost'[t] = NoHistory /\ sql'[t] = Idle
    BY <1>1, <1>4, <2>1 DEF DatabaseInv, Types, ThreadInv, Connected
  <2>6. ThreadInv(t)'
    BY <1>1, <1>2, <2>2, <2>5, SameScopes
       DEF ThreadInv, Connected, LockedRight, MarkedLast, Counted, Recorded, Protected, Astray,
           At, Idle, NoHistory
  <2>7. OthersSame(t) /\ calls' >= calls
    BY <1>1, <1>4, <2>1 DEF OthersSame, DatabaseInv, Types, Sizes
  <2>. QED
    BY <2>4, <2>6, <2>7, ActorKeeps
<1>. QED
  BY <1>3, <1>4

\* The connection is kept, with the values v, or deleted.
LEMMA KeepKeeps ==
  ASSUME DatabaseInv, NEW t \in Threads, NEW v \in Connections, Keep(t, v),
         call[t][1] = "body", call'[t][1] \in {"body", "exited"}, ~InScope(t),
         call' \in [Threads -> Calls],
         \A u \in Threads : u # t => call'[u] = call[u],
         v = Closed \/ (/\ v.m_attachCount > 0 => v.m_connection
                        /\ v.m_transactionDepth = tls[t].m_transactionDepth
                        /\ v.m_transactionCancel = tls[t].m_transactionCancel),
         command' \in [Threads -> [Queries -> {"null", "ready", "failed"}]],
         UNCHANGED <<scopes, calls, ghost>>
  PROVE  DatabaseInv'
<1>1. ThreadInv(t) /\ FactsOf(t) /\ Sizes
  BY Facts
<1>2. /\ ~Over(t) /\ Uncommitted(t) = 0 /\ Len(scopes[t]) = 0
      /\ ~Astray(t) => ~sql[t].open /\ sql[t].lock = "none" /\ ghost[t].seen = "nothing"
  BY OutsideIsIdle
<1>3. Idle \in Sides
  BY DEF Idle, Sides
<1>4. tls' = [tls EXCEPT ![t] = v] /\ sql' = IF v.m_connection THEN sql ELSE [sql EXCEPT ![t] = Idle]
  BY DEF Keep
<1>5. Types'
  BY <1>3, <1>4 DEF DatabaseInv, Types
<1>6. /\ tls'[t] = v
      /\ sql'[t] = IF v.m_connection THEN sql[t] ELSE Idle
  BY <1>4 DEF DatabaseInv, Types
<1>7. ASSUME v = Closed PROVE ThreadInv(t)'
  <2>1. Connected(t)' /\ LockedRight(t)' /\ MarkedLast(t)'
    BY <1>1, <1>2, <1>6, <1>7, SameScopes
       DEF ThreadInv, Connected, LockedRight, MarkedLast, Idle, Closed
  <2>2. Astray(t) \/ (Counted(t)' /\ Recorded(t)' /\ Protected(t)')
    BY <1>1, <1>2, <1>6, <1>7, SameScopes
       DEF ThreadInv, Counted, Recorded, Protected, At, Idle, Closed
  <2>3. Astray(t)' <=> Astray(t)
    BY DEF Astray
  <2>. QED
    BY <2>1, <2>2, <2>3 DEF ThreadInv
<1>8. ASSUME v # Closed PROVE ThreadInv(t)'
  <2>1. Connected(t)' /\ LockedRight(t)' /\ MarkedLast(t)'
    BY <1>1, <1>2, <1>6, <1>8, SameScopes
       DEF ThreadInv, Connected, LockedRight, MarkedLast, Idle
  <2>2. Astray(t) \/ (Counted(t)' /\ Recorded(t)' /\ Protected(t)')
    BY <1>1, <1>2, <1>6, <1>8, SameScopes
       DEF ThreadInv, Counted, Recorded, Protected, At, Idle
  <2>3. Astray(t)' <=> Astray(t)
    BY DEF Astray
  <2>. QED
    BY <2>1, <2>2, <2>3 DEF ThreadInv
<1>9. OthersSame(t) /\ calls' >= calls
  BY <1>1, <1>4 DEF OthersSame, DatabaseInv, Types, Sizes
<1>. QED
  BY <1>5, <1>7, <1>8, <1>9, ActorKeeps

LEMMA DetachKeeps ==
  ASSUME DatabaseInv, NEW t \in Threads, DetachFromThread(t)
  PROVE  DatabaseInv'
<1>. DEFINE v == [tls[t] EXCEPT !.m_attachCount = @ - 1]
            w == IF v.m_attachCount > 0 THEN v
                 ELSE CheckedConnectionDelete([v EXCEPT !.m_linger = TRUE])
<1>1. ThreadInv(t) /\ FactsOf(t)
  BY Facts
<1>2. /\ call[t][1] = "body" /\ ~InScope(t) /\ tls[t].m_attachCount > 0 /\ Keep(t, w)
      /\ UNCHANGED <<command, scopes, call, calls, ghost>>
  BY DEF DetachFromThread, At
<1>3. tls[t].m_connection
  BY <1>1, <1>2 DEF ThreadInv, Connected
<1>4. tls[t] \in Connections /\ tls[t].m_attachCount - 1 \in Nat
  BY <1>1, <1>2 DEF FactsOf, Connections
<1>5. v \in Connections /\ [v EXCEPT !.m_linger = TRUE] \in Connections
  BY <1>4 DEF Connections
<1>6. Closed \in Connections
  BY DatabaseAssumption DEF Closed, Connections
<1>7. /\ v.m_connection /\ v.m_transactionDepth = tls[t].m_transactionDepth
      /\ v.m_transactionCancel = tls[t].m_transactionCancel
  BY <1>3, <1>4, <1>5 DEF Connections
<1>8. w = v \/ w = [v EXCEPT !.m_linger = TRUE] \/ w = Closed
  BY DEF CheckedConnectionDelete
<1>9. w \in Connections
  BY <1>5, <1>6, <1>8
<1>10. w = Closed \/ (/\ w.m_attachCount > 0 => w.m_connection
                     /\ w.m_transactionDepth = tls[t].m_transactionDepth
                     /\ w.m_transactionCancel = tls[t].m_transactionCancel)
  BY <1>5, <1>7, <1>8 DEF Connections
<1>. HIDE DEF w
<1>11. call' \in [Threads -> Calls] /\ command' \in [Threads -> [Queries -> {"null", "ready", "failed"}]]
  BY <1>2 DEF DatabaseInv, Types
<1>. QED
  BY <1>2, <1>9, <1>10, <1>11, KeepKeeps

LEMMA ExitKeeps ==
  ASSUME DatabaseInv, NEW t \in Threads, ExitThread(t)
  PROVE  DatabaseInv'
<1>. DEFINE n == Cardinality({q \in Queries : command[t][q] # "null"})
            v == [tls[t] EXCEPT !.m_refCounter = @ - n]
            w == Freed(tls[t], n)
<1>1. ThreadInv(t) /\ FactsOf(t)
  BY Facts
<1>2. /\ call[t][1] = "body" /\ ~InScope(t) /\ Keep(t, w)
      /\ command' = [command EXCEPT ![t] = [q \in Queries |-> "null"]]
      /\ call' = [call EXCEPT ![t] = <<"exited">>]
      /\ UNCHANGED <<scopes, calls, ghost>>
  BY DEF ExitThread, At, Goto
<1>3. n \in Nat
  <2>1. IsFiniteSet(Queries)
    BY DatabaseAssumption, FS_Union DEF Queries
  <2>2. IsFiniteSet({q \in Queries : command[t][q] # "null"})
    BY <2>1, FS_Subset
  <2>. QED
    BY <2>2, FS_CardinalityType
<1>4. tls[t] \in Connections /\ tls[t].m_refCounter - n \in Int
  BY <1>1, <1>3 DEF FactsOf, Connections
<1>5. v \in Connections
  BY <1>4 DEF Connections
<1>6. Closed \in Connections
  BY DatabaseAssumption DEF Closed, Connections
<1>7. /\ v.m_connection = tls[t].m_connection /\ v.m_attachCount = tls[t].m_attachCount
      /\ v.m_transactionDepth = tls[t].m_transactionDepth
      /\ v.m_transactionCancel = tls[t].m_transactionCancel
  BY <1>4, <1>5 DEF Connections
<1>8. w = v \/ w = Closed
  BY DEF Freed, CheckedConnectionDelete
<1>9. w \in Connections
  BY <1>5, <1>6, <1>8
<1>10. w = Closed \/ (/\ w.m_attachCount > 0 => w.m_connection
                     /\ w.m_transactionDepth = tls[t].m_transactionDepth
                     /\ w.m_transactionCancel = tls[t].m_transactionCancel)
  BY <1>1, <1>7, <1>8 DEF ThreadInv, Connected
<1>. HIDE DEF w
<1>11. <<"exited">> \in Calls
  BY DEF Calls, Places
<1>12. /\ call' \in [Threads -> Calls] /\ call'[t] = <<"exited">>
       /\ \A u \in Threads : u # t => call'[u] = call[u]
       /\ command' \in [Threads -> [Queries -> {"null", "ready", "failed"}]]
  BY <1>2, <1>11 DEF DatabaseInv, Types
<1>. QED
  BY <1>2, <1>9, <1>10, <1>12, KeepKeeps

\* A step that gives the values of thread t: it keeps the types and the other
\* threads; outdates tells that it makes what they have read out of date.
LEMMA StepTaken ==
  ASSUME DatabaseInv, NEW t \in Threads, NEW v \in Connections, NEW s \in Seq(BOOLEAN),
         NEW c \in Calls, NEW x \in Sides, NEW g \in Histories, NEW outdates \in BOOLEAN,
         tls' = [tls EXCEPT ![t] = v], scopes' = [scopes EXCEPT ![t] = s],
         call' = [call EXCEPT ![t] = c], sql' = [sql EXCEPT ![t] = x],
         ghost' = [u \in Threads |->
           IF u = t THEN g
           ELSE IF outdates /\ ghost[u].seen = "current" THEN [ghost[u] EXCEPT !.seen = "stale"]
           ELSE ghost[u]],
         outdates => \A u \in Threads \ {t} : sql[u].lock = "none",
         command' \in [Threads -> [Queries -> {"null", "ready", "failed"}]],
         calls' \in Nat, calls' >= calls, calls' <= MaxCalls, ThreadInv(t)'
  PROVE  DatabaseInv'
<1>1. \A u \in Threads : [ghost[u] EXCEPT !.seen = "stale"] \in Histories /\ ghost[u] \in Histories
  BY DEF DatabaseInv, Types, Histories
<1>2. ghost' \in [Threads -> Histories]
  BY <1>1
<1>3. Types'
  <2>1. tls' \in [Threads -> Connections] /\ scopes' \in [Threads -> Seq(BOOLEAN)]
    BY DEF DatabaseInv, Types
  <2>2. call' \in [Threads -> Calls] /\ sql' \in [Threads -> Sides]
    BY DEF DatabaseInv, Types
  <2>3. calls' \in 0..MaxCalls
    BY DatabaseAssumption
  <2>. QED
    BY <1>2, <2>1, <2>2, <2>3 DEF Types
<1>4. OthersSame(t)
  BY DEF OthersSame, DatabaseInv, Types
<1>. QED
  BY <1>3, <1>4, ActorKeeps

\* A step that gives the values of thread t and outdates nothing.
Gives(t, v, s, c, x, g) ==
  /\ v \in Connections /\ s \in Seq(BOOLEAN) /\ c \in Calls /\ x \in Sides /\ g \in Histories
  /\ tls' = [tls EXCEPT ![t] = v] /\ scopes' = [scopes EXCEPT ![t] = s]
  /\ call' = [call EXCEPT ![t] = c] /\ sql' = [sql EXCEPT ![t] = x]
  /\ ghost' = [ghost EXCEPT ![t] = g]

Rest ==
  /\ command' \in [Threads -> [Queries -> {"null", "ready", "failed"}]]
  /\ calls' \in Nat /\ calls' >= calls /\ calls' <= MaxCalls

LEMMA Given ==
  ASSUME DatabaseInv, NEW t \in Threads, NEW v, NEW s, NEW c, NEW x, NEW g,
         Gives(t, v, s, c, x, g)
  PROVE  tls'[t] = v /\ scopes'[t] = s /\ call'[t] = c /\ sql'[t] = x /\ ghost'[t] = g
BY DEF Gives, DatabaseInv, Types

LEMMA StepAlone ==
  ASSUME DatabaseInv, NEW t \in Threads, NEW v, NEW s, NEW c, NEW x, NEW g,
         Gives(t, v, s, c, x, g), Rest, ThreadInv(t)'
  PROVE  DatabaseInv'
<1>1. ghost' = [u \in Threads |->
        IF u = t THEN g
        ELSE IF FALSE /\ ghost[u].seen = "current" THEN [ghost[u] EXCEPT !.seen = "stale"]
        ELSE ghost[u]]
  BY DEF DatabaseInv, Types, Gives
<1>. QED
  BY <1>1, StepTaken DEF Gives, Rest

\* Values that a step leaves alone are values it gives again.
LEMMA Unchanged ==
  ASSUME DatabaseInv, NEW t \in Threads
  PROVE  /\ tls' = tls => tls' = [tls EXCEPT ![t] = tls[t]]
         /\ scopes' = scopes => scopes' = [scopes EXCEPT ![t] = scopes[t]]
         /\ call' = call => call' = [call EXCEPT ![t] = call[t]]
         /\ sql' = sql => sql' = [sql EXCEPT ![t] = sql[t]]
         /\ ghost' = ghost => ghost' = [ghost EXCEPT ![t] = ghost[t]]
         /\ command' = command =>
              command' \in [Threads -> [Queries -> {"null", "ready", "failed"}]]
BY DEF DatabaseInv, Types

\* Of a call: where it may go, and the query it is about.
LEMMA CallsAre ==
  ASSUME DatabaseInv, NEW t \in Threads
  PROVE  /\ call[t] \in Calls
         /\ call[t][1] \in {"prepare", "step"} => QueryOf(t) \in Queries
         /\ \A where \in Places : <<where>> \in Calls
         /\ \A q \in Queries : <<"prepare", q>> \in Calls /\ <<"step", q>> \in Calls
BY DEF DatabaseInv, Types, Calls, Places, QueryOf

-------------------------------------------------------------------------------
(***************************************************************************)
(* Queries.                                                                *)
(***************************************************************************)

LEMMA ExecuteKeeps ==
  ASSUME DatabaseInv, NEW t \in Threads, NEW q \in Queries, Execute(t, q)
  PROVE  DatabaseInv'
<1>1. ThreadInv(t) /\ FactsOf(t) /\ Sizes
  BY Facts
<1>2. /\ call[t][1] = "body" /\ tls[t].m_attachCount > 0
      /\ calls < MaxCalls /\ calls' = calls + 1 /\ UNCHANGED <<command, scopes, sql>>
      /\ ghost' = [ghost EXCEPT ![t] = Blamed(t)]
  BY DEF Execute, Working, At, Count
<1>3. calls' \in Nat /\ calls' >= calls /\ calls' <= MaxCalls
  BY <1>1, <1>2 DEF Sizes
<1>4. PICK c \in Calls : call' = [call EXCEPT ![t] = c] /\ c[1] \in {"prepare", "step", "throw"}
  BY CallsAre DEF Execute, Run, Goto, Places
<1>5. PICK v \in Connections : /\ tls' = [tls EXCEPT ![t] = v]
                               /\ v.m_connection = tls[t].m_connection
                               /\ v.m_attachCount = tls[t].m_attachCount
                               /\ v.m_transactionDepth = tls[t].m_transactionDepth
                               /\ v.m_transactionCancel = tls[t].m_transactionCancel
  <2>. DEFINE w == [tls[t] EXCEPT !.m_refCounter = @ + 1]
  <2>1. tls[t] \in Connections /\ tls[t].m_refCounter + 1 \in Int
    BY <1>1 DEF FactsOf, Connections
  <2>2. /\ w \in Connections /\ w.m_connection = tls[t].m_connection
        /\ w.m_attachCount = tls[t].m_attachCount
        /\ w.m_transactionDepth = tls[t].m_transactionDepth
        /\ w.m_transactionCancel = tls[t].m_transactionCancel
    BY <2>1 DEF Connections
  <2>3. tls' = [tls EXCEPT ![t] = w] \/ tls' = tls
    BY DEF Execute, AllocDataCommand
  <2>. HIDE DEF w
  <2>. QED
    BY <2>1, <2>2, <2>3, Unchanged
<1>6. /\ Blamed(t) \in Histories
      /\ Over(t) => "repeat" \in Blamed(t).faults
  BY <1>1 DEF Blamed, FactsOf, Histories, Faults
<1>7. Gives(t, v, scopes[t], c, sql[t], Blamed(t)) /\ Rest
  <2>1. /\ scopes' = [scopes EXCEPT ![t] = scopes[t]] /\ sql' = [sql EXCEPT ![t] = sql[t]]
        /\ command' \in [Threads -> [Queries -> {"null", "ready", "failed"}]]
    BY <1>2, Unchanged
  <2>2. scopes[t] \in Seq(BOOLEAN) /\ sql[t] \in Sides
    BY <1>1 DEF FactsOf
  <2>. QED
    BY <1>2, <1>3, <1>4, <1>5, <1>6, <2>1, <2>2 DEF Gives, Rest
<1>8. /\ tls'[t] = v /\ scopes'[t] = scopes[t] /\ call'[t] = c /\ sql'[t] = sql[t]
      /\ ghost'[t] = Blamed(t)
  BY <1>7, Given
<1>9. ThreadInv(t)'
  <2>1. Connected(t)' /\ LockedRight(t)'
    BY <1>1, <1>2, <1>4, <1>5, <1>8, SameScopes DEF ThreadInv, Connected, LockedRight
  <2>2. MarkedLast(t)'
    BY <1>1, <1>2, <1>3 DEF ThreadInv, MarkedLast, FactsOf, Sizes
  <2>3. Over(t) => Astray(t)'
    BY <1>6, <1>8 DEF Astray
  <2>4. ~Over(t) => Astray(t)' \/ (Counted(t)' /\ Recorded(t)' /\ Protected(t)')
    BY <1>1, <1>2, <1>4, <1>5, <1>8, SameScopes
       DEF ThreadInv, Astray, Counted, Recorded, Protected, Blamed, At
  <2>. QED
    BY <2>1, <2>2, <2>3, <2>4 DEF ThreadInv
<1>. QED
  BY <1>7, <1>9, StepAlone

\* Values of a thread that its steps start from.
LEMMA Ours ==
  ASSUME DatabaseInv, NEW t \in Threads
  PROVE  /\ tls[t] \in Connections /\ scopes[t] \in Seq(BOOLEAN) /\ call[t] \in Calls
         /\ sql[t] \in Sides /\ ghost[t] \in Histories /\ calls \in Nat /\ calls <= MaxCalls
BY DatabaseAssumption DEF DatabaseInv, Types

\* Steps that only move the thread on.
LEMMA MoveKeeps ==
  ASSUME DatabaseInv, NEW t \in Threads, NEW c \in Calls, NEW g \in Histories,
         call' = [call EXCEPT ![t] = c], ghost' = [ghost EXCEPT ![t] = g],
         UNCHANGED <<tls, scopes, sql>>, Rest,
         call[t][1] \in {"prepare", "step", "commit", "throw"},
         c[1] \in {"body", "prepare", "step", "throw"},
         At(t, "commit") => g.faults \cap {"abort", "commit", "repeat"} # {},
         c[1] \in {"prepare", "step"} => call[t][1] \in {"prepare", "step"},
         g.outcome = ghost[t].outcome /\ g.written = ghost[t].written
           /\ g.durable = ghost[t].durable /\ g.seen = ghost[t].seen
           /\ ghost[t].faults \subseteq g.faults
  PROVE  DatabaseInv'
<1>1. ThreadInv(t) /\ FactsOf(t) /\ Sizes
  BY Facts
<1>2. Gives(t, tls[t], scopes[t], c, sql[t], g)
  BY Ours, Unchanged DEF Gives
<1>3. tls'[t] = tls[t] /\ scopes'[t] = scopes[t] /\ call'[t] = c /\ sql'[t] = sql[t] /\ ghost'[t] = g
  BY <1>2, Given
<1>4. Connected(t)' /\ LockedRight(t)'
  BY <1>1, <1>3, SameScopes DEF ThreadInv, Connected, LockedRight
<1>5. MarkedLast(t)'
  BY <1>1, <1>3 DEF ThreadInv, MarkedLast, FactsOf, Sizes, Rest
<1>6. Astray(t) => Astray(t)'
  BY <1>3 DEF Astray
<1>7. At(t, "commit") => Astray(t)'
  BY <1>3 DEF Astray
<1>8. ~Astray(t) /\ ~At(t, "commit") => Counted(t)' /\ Recorded(t)' /\ Protected(t)'
  BY <1>1, <1>3, SameScopes DEF ThreadInv, Counted, Recorded, Protected, At
<1>. QED
  BY <1>2, <1>4, <1>5, <1>6, <1>7, <1>8, StepAlone DEF ThreadInv

LEMMA CommandSet ==
  ASSUME DatabaseInv, NEW t \in Threads, NEW q \in Queries,
         NEW x \in {"null", "ready", "failed"}, command' = [command EXCEPT ![t][q] = x]
  PROVE  command' \in [Threads -> [Queries -> {"null", "ready", "failed"}]]
<1>1. command \in [Threads -> [Queries -> {"null", "ready", "failed"}]]
  BY DEF DatabaseInv, Types
<1>. DEFINE r == [command[t] EXCEPT ![q] = x]
<1>2. r \in [Queries -> {"null", "ready", "failed"}]
  BY <1>1
<1>3. command' = [command EXCEPT ![t] = r]
  OBVIOUS
<1>. HIDE DEF r
<1>. QED
  BY <1>1, <1>2, <1>3

LEMMA PrepareReturnsKeeps ==
  ASSUME DatabaseInv, NEW t \in Threads, PrepareReturns(t)
  PROVE  DatabaseInv'
<1>1. call[t][1] = "prepare" /\ ~At(t, "commit") /\ QueryOf(t) \in Queries
  BY CallsAre DEF PrepareReturns, At
<1>2. <<"step", QueryOf(t)>> \in Calls
  BY <1>1, CallsAre
<1>3. ghost' = [ghost EXCEPT ![t] = ghost[t]]
  BY Unchanged DEF PrepareReturns
<1>4. Rest
  <2>1. command' \in [Threads -> [Queries -> {"null", "ready", "failed"}]]
    BY <1>1, CommandSet DEF PrepareReturns
  <2>. QED
    BY <2>1, Ours DEF PrepareReturns, Rest
<1>. DEFINE c == <<"step", QueryOf(t)>>
<1>5. c[1] = "step" /\ call' = [call EXCEPT ![t] = c] /\ UNCHANGED <<tls, scopes, sql>>
  BY DEF PrepareReturns, Run
<1>. HIDE DEF c
<1>6. c \in Calls
  BY <1>2 DEF c
<1>. QED
  BY <1>1, <1>3, <1>4, <1>5, <1>6, Ours, MoveKeeps

LEMMA PrepareFailsKeeps ==
  ASSUME DatabaseInv, NEW t \in Threads, PrepareFails(t)
  PROVE  DatabaseInv'
<1>. DEFINE c == <<"throw">>
            g == [ghost[t] EXCEPT !.faults = @ \cup {"prepare"}]
<1>1. call[t][1] = "prepare" /\ ~At(t, "commit") /\ UNCHANGED <<tls, scopes, sql>>
  BY DEF PrepareFails, At
<1>2. call' = [call EXCEPT ![t] = c] /\ c \in Calls /\ c[1] = "throw"
  BY CallsAre DEF PrepareFails, Goto, Places
<1>3. /\ g \in Histories /\ g.outcome = ghost[t].outcome /\ g.written = ghost[t].written
      /\ g.durable = ghost[t].durable /\ g.seen = ghost[t].seen
      /\ ghost[t].faults \subseteq g.faults
  BY Ours DEF Histories, Faults
<1>4. ghost' = [ghost EXCEPT ![t] = g]
  BY DEF PrepareFails, Blame
<1>5. Rest
  <2>1. calls < MaxCalls /\ calls' = calls + 1 /\ command' = command
    BY DEF PrepareFails, Count
  <2>. QED
    BY <2>1, Ours, Unchanged, DatabaseAssumption DEF Rest
<1>. HIDE DEF c, g
<1>. QED
  BY <1>1, <1>2, <1>3, <1>4, <1>5, MoveKeeps

LEMMA CommitFailsKeeps ==
  ASSUME DatabaseInv, NEW t \in Threads, CommitFails(t)
  PROVE  DatabaseInv'
<1>. DEFINE c == <<"throw">>
            g == [ghost[t] EXCEPT !.faults = @ \cup {"commit"}]
<1>1. call[t][1] = "commit" /\ UNCHANGED <<tls, scopes, sql>>
  BY DEF CommitFails, At
<1>2. call' = [call EXCEPT ![t] = c] /\ c \in Calls /\ c[1] = "throw"
  BY CallsAre DEF CommitFails, Goto, Places
<1>3. /\ g \in Histories /\ g.outcome = ghost[t].outcome /\ g.written = ghost[t].written
      /\ g.durable = ghost[t].durable /\ g.seen = ghost[t].seen
      /\ ghost[t].faults \subseteq g.faults /\ "commit" \in g.faults
  BY Ours DEF Histories, Faults
<1>4. ghost' = [ghost EXCEPT ![t] = g]
  BY DEF CommitFails, Blame
<1>5. Rest
  <2>1. calls < MaxCalls /\ calls' = calls + 1 /\ command' = command
    BY DEF CommitFails, Count
  <2>. QED
    BY <2>1, Ours, Unchanged, DatabaseAssumption DEF Rest
<1>. HIDE DEF c, g
<1>6. g.faults \cap {"abort", "commit", "repeat"} # {}
  BY <1>3
<1>. QED
  BY <1>1, <1>2, <1>3, <1>4, <1>5, <1>6, MoveKeeps

\* Only a thread astray is refused its COMMIT.
LEMMA CommitRefusedKeeps ==
  ASSUME DatabaseInv, NEW t \in Threads, CommitRefused(t)
  PROVE  DatabaseInv'
<1>. DEFINE c == <<"throw">>
<1>1. call[t][1] = "commit" /\ UNCHANGED <<tls, scopes, sql>> /\ ~sql[t].open
  BY DEF CommitRefused, At
<1>2. call' = [call EXCEPT ![t] = c] /\ c \in Calls /\ c[1] = "throw"
  BY CallsAre DEF CommitRefused, Goto, Places
<1>3. ghost' = [ghost EXCEPT ![t] = ghost[t]]
  BY Unchanged DEF CommitRefused
<1>4. Rest
  BY Ours DEF CommitRefused, Rest, DatabaseInv, Types
<1>5. Astray(t)
  <2>1. ThreadInv(t)
    BY Facts
  <2>. QED
    BY <1>1, <2>1 DEF ThreadInv, Counted, At
<1>6. ghost[t].faults \cap {"abort", "commit", "repeat"} # {}
  BY <1>5 DEF Astray
<1>. HIDE DEF c
<1>. QED
  BY <1>1, <1>2, <1>3, <1>4, <1>6, Ours, MoveKeeps

LEMMA CatchKeeps ==
  ASSUME DatabaseInv, NEW t \in Threads, Catch(t)
  PROVE  DatabaseInv'
<1>. DEFINE c == <<"body">>
<1>1. call[t][1] = "throw" /\ ~At(t, "commit") /\ UNCHANGED <<tls, scopes, sql>>
  BY DEF Catch, At
<1>2. call' = [call EXCEPT ![t] = c] /\ c \in Calls /\ c[1] = "body"
  BY CallsAre DEF Catch, Goto, Places
<1>3. ghost' = [ghost EXCEPT ![t] = ghost[t]]
  BY Unchanged DEF Catch
<1>4. Rest
  BY Ours DEF Catch, Rest, DatabaseInv, Types
<1>. HIDE DEF c
<1>. QED
  BY <1>1, <1>2, <1>3, <1>4, Ours, MoveKeeps

LEMMA StepReadKeeps ==
  ASSUME DatabaseInv, NEW t \in Threads, StepRead(t)
  PROVE  DatabaseInv'
<1>. DEFINE c == <<"body">>
            x == [sql[t] EXCEPT !.lock = LockAfterRead(t)]
            reads == ghost[t].outcome \in {"open", "doomed"} /\ ghost[t].seen = "nothing"
            g == IF reads THEN [ghost[t] EXCEPT !.seen = "current"] ELSE ghost[t]
<1>1. ThreadInv(t) /\ FactsOf(t) /\ Sizes
  BY Facts
<1>2. call[t][1] = "step" /\ UNCHANGED <<tls, scopes, command, calls>>
  BY DEF StepRead, At
<1>3. call' = [call EXCEPT ![t] = c] /\ c \in Calls /\ c[1] = "body"
  BY CallsAre DEF StepRead, Goto, Places
<1>4. x \in Sides /\ x.open = sql[t].open /\ x.unsaved = sql[t].unsaved /\ x.lock = LockAfterRead(t)
  BY Ours DEF Sides, LockAfterRead
<1>5. g \in Histories /\ g = IF reads THEN [ghost[t] EXCEPT !.seen = "current"] ELSE ghost[t]
  BY Ours DEF Histories
<1>6. sql' = [sql EXCEPT ![t] = x] /\ ghost' = [ghost EXCEPT ![t] = g]
  <2>1. sql' = [sql EXCEPT ![t] = x]
    BY DEF StepRead
  <2>2. ghost' = IF reads THEN [ghost EXCEPT ![t].seen = "current"] ELSE ghost
    BY DEF StepRead
  <2>. QED
    BY <2>1, <2>2, Unchanged
<1>7. g.outcome = ghost[t].outcome /\ g.written = ghost[t].written
      /\ g.durable = ghost[t].durable /\ g.faults = ghost[t].faults
      /\ g.seen = IF reads THEN "current" ELSE ghost[t].seen
  BY Ours DEF Histories
<1>. HIDE DEF c, x, g
<1>8. Gives(t, tls[t], scopes[t], c, x, g)
  BY <1>2, <1>3, <1>4, <1>5, <1>6, Ours, Unchanged DEF Gives
<1>9. tls'[t] = tls[t] /\ scopes'[t] = scopes[t] /\ call'[t] = c /\ sql'[t] = x /\ ghost'[t] = g
  BY <1>8, Given
<1>10. Rest
  BY <1>2, Ours, Unchanged DEF Rest
<1>11. Connected(t)' /\ LockedRight(t)' /\ MarkedLast(t)'
  <2>1. Connected(t)'
    BY <1>1, <1>2, <1>3, <1>4, <1>9, SameScopes DEF ThreadInv, Connected, Idle, LockAfterRead
  <2>2. LockedRight(t)'
    BY <1>1, <1>4, <1>9 DEF ThreadInv, LockedRight, LockAfterRead
  <2>3. MarkedLast(t)'
    BY <1>1, <1>2 DEF ThreadInv, MarkedLast
  <2>. QED
    BY <2>1, <2>2, <2>3
<1>12. Astray(t)' <=> Astray(t)
  BY <1>7, <1>9 DEF Astray
<1>13. ~Astray(t) => Counted(t)' /\ Recorded(t)' /\ Protected(t)'
  <2>. SUFFICES ASSUME ~Astray(t) PROVE Counted(t)' /\ Recorded(t)' /\ Protected(t)'
    OBVIOUS
  <2>1. Counted(t) /\ Recorded(t) /\ Protected(t)
    BY <1>1 DEF ThreadInv
  <2>2. Counted(t)'
    BY <1>2, <1>3, <1>4, <1>9, <2>1, SameScopes DEF Counted, At
  <2>3. Recorded(t)'
    BY <1>2, <1>4, <1>7, <1>9, <2>1, SameScopes DEF Recorded
  <2>4. Protected(t)'
    BY <1>4, <1>7, <1>9, <2>1 DEF Counted, Recorded, Protected, LockAfterRead
  <2>. QED
    BY <2>2, <2>3, <2>4
<1>. QED
  BY <1>8, <1>10, <1>11, <1>12, <1>13, StepAlone DEF ThreadInv

LEMMA StepWriteKeeps ==
  ASSUME DatabaseInv, NEW t \in Threads, StepWrite(t)
  PROVE  DatabaseInv'
<1>. DEFINE c == <<"body">>
            lock == IF sql[t].lock = "pending" THEN "pending" ELSE "reserved"
            x == [sql[t] EXCEPT !.unsaved = @ + 1, !.lock = lock]
            g == WriteOf(t)
<1>1. ThreadInv(t) /\ FactsOf(t) /\ Sizes
  BY Facts
<1>2. call[t][1] = "step" /\ UNCHANGED <<tls, scopes, command, calls>> /\ sql[t].open
  BY DEF StepWrite, MayWrite, At
<1>3. call' = [call EXCEPT ![t] = c] /\ c \in Calls /\ c[1] = "body"
  BY CallsAre DEF StepWrite, Goto, Places
<1>4. sql[t] \in Sides /\ sql[t].unsaved + 1 \in Nat /\ ghost[t] \in Histories /\ ghost[t].written + 1 \in Nat
  BY Ours DEF Sides, Histories
<1>5. x \in Sides /\ x.open = sql[t].open /\ x.unsaved = sql[t].unsaved + 1 /\ x.lock \in {"reserved", "pending"}
  BY <1>4 DEF Sides
<1>6. g \in Histories
  BY <1>4 DEF Histories, WriteOf
<1>7. sql' = [sql EXCEPT ![t] = x] /\ ghost' = [ghost EXCEPT ![t] = g]
  BY DEF StepWrite
<1>8. g.outcome = ghost[t].outcome /\ g.durable = ghost[t].durable /\ g.faults = ghost[t].faults
      /\ g.seen = ghost[t].seen
      /\ g.written = IF InScope(t) THEN ghost[t].written + 1 ELSE ghost[t].written
  BY <1>4 DEF Histories, WriteOf
<1>. HIDE DEF c, x, g
<1>9. Gives(t, tls[t], scopes[t], c, x, g)
  BY <1>2, <1>3, <1>5, <1>6, <1>7, Ours, Unchanged DEF Gives
<1>10. tls'[t] = tls[t] /\ scopes'[t] = scopes[t] /\ call'[t] = c /\ sql'[t] = x /\ ghost'[t] = g
  BY <1>9, Given
<1>11. Rest
  BY <1>2, Ours, Unchanged DEF Rest
<1>12. Connected(t)' /\ LockedRight(t)' /\ MarkedLast(t)'
  <2>1. Connected(t)'
    BY <1>1, <1>2, <1>3, <1>5, <1>10, SameScopes DEF ThreadInv, Connected, Idle
  <2>2. LockedRight(t)'
    BY <1>2, <1>5, <1>10 DEF LockedRight
  <2>3. MarkedLast(t)'
    BY <1>1, <1>2 DEF ThreadInv, MarkedLast
  <2>. QED
    BY <2>1, <2>2, <2>3
<1>13. Astray(t)' <=> Astray(t)
  BY <1>8, <1>10 DEF Astray
<1>14. ~Astray(t) => Counted(t)' /\ Recorded(t)' /\ Protected(t)'
  <2>. SUFFICES ASSUME ~Astray(t) PROVE Counted(t)' /\ Recorded(t)' /\ Protected(t)'
    OBVIOUS
  <2>1. Counted(t) /\ Recorded(t) /\ Protected(t)
    BY <1>1 DEF ThreadInv
  <2>2. Counted(t)'
    BY <1>2, <1>3, <1>5, <1>10, <2>1, SameScopes DEF Counted, At
  <2>3. Uncommitted(t) > 0 /\ InScope(t)
    BY <1>1, <1>2, <2>1 DEF Counted, Uncommitted, FactsOf
  <2>4. Recorded(t)'
    BY <1>2, <1>4, <1>5, <1>8, <1>10, <2>1, <2>3, SameScopes DEF Recorded
  <2>5. Protected(t)'
    BY <1>5, <1>8, <1>10, <2>1 DEF Protected
  <2>. QED
    BY <2>2, <2>4, <2>5
<1>. QED
  BY <1>9, <1>11, <1>12, <1>13, <1>14, StepAlone DEF ThreadInv

\* A step whose writes become durable.
Saves(t, v, s, c, x, g, n) ==
  /\ v \in Connections /\ s \in Seq(BOOLEAN) /\ c \in Calls /\ x \in Sides /\ g \in Histories
  /\ tls' = [tls EXCEPT ![t] = v] /\ scopes' = [scopes EXCEPT ![t] = s]
  /\ call' = [call EXCEPT ![t] = c] /\ sql' = [sql EXCEPT ![t] = x]
  /\ Save(t, n, g)
  /\ n > 0 => MaySave(t)

LEMMA Saved ==
  ASSUME DatabaseInv, NEW t \in Threads, NEW v, NEW s, NEW c, NEW x, NEW g, NEW n,
         Saves(t, v, s, c, x, g, n)
  PROVE  tls'[t] = v /\ scopes'[t] = s /\ call'[t] = c /\ sql'[t] = x /\ ghost'[t] = g
BY DEF Saves, Save, DatabaseInv, Types

LEMMA StepSaves ==
  ASSUME DatabaseInv, NEW t \in Threads, NEW v, NEW s, NEW c, NEW x, NEW g, NEW n,
         Saves(t, v, s, c, x, g, n), Rest, ThreadInv(t)'
  PROVE  DatabaseInv'
<1>. DEFINE outdates == n > 0
<1>1. outdates \in BOOLEAN
  BY DEF outdates
<1>2. ghost' = [u \in Threads |->
        IF u = t THEN g
        ELSE IF outdates /\ ghost[u].seen = "current" THEN [ghost[u] EXCEPT !.seen = "stale"]
        ELSE ghost[u]]
  BY DEF Saves, Save
<1>3. outdates => \A u \in Threads \ {t} : sql[u].lock = "none"
  BY DEF Saves, MaySave, NobodyElse, DatabaseInv, Types, Sides
<1>. HIDE DEF outdates
<1>. QED
  BY <1>1, <1>2, <1>3, StepTaken DEF Saves, Rest

\* Outside of a transaction only a thread astray is in a scope.
LEMMA StepWriteAloneKeeps ==
  ASSUME DatabaseInv, NEW t \in Threads, StepWriteAlone(t)
  PROVE  DatabaseInv'
<1>. DEFINE c == <<"body">>
            g == [WriteOf(t) EXCEPT !.durable = IF InScope(t) THEN @ + 1 ELSE @]
<1>1. ThreadInv(t) /\ FactsOf(t) /\ Sizes
  BY Facts
<1>2. call[t][1] = "step" /\ UNCHANGED <<tls, scopes, command, calls, sql>> /\ ~sql[t].open
      /\ MaySave(t) /\ Save(t, 1, g)
  BY DEF StepWriteAlone, MayWrite, At
<1>3. call' = [call EXCEPT ![t] = c] /\ c \in Calls /\ c[1] = "body"
  BY CallsAre DEF StepWriteAlone, Goto, Places
<1>4. ghost[t] \in Histories /\ ghost[t].written + 1 \in Nat /\ ghost[t].durable + 1 \in Nat
  BY Ours DEF Histories
<1>5. WriteOf(t) \in Histories /\ WriteOf(t).durable = ghost[t].durable
      /\ WriteOf(t).faults = ghost[t].faults
  BY <1>4 DEF Histories, WriteOf
<1>6. g \in Histories /\ g.faults = ghost[t].faults /\ (~InScope(t) => g = ghost[t])
  BY <1>4, <1>5 DEF Histories, WriteOf
<1>. HIDE DEF c, g
<1>7. Saves(t, tls[t], scopes[t], c, sql[t], g, 1)
  BY <1>2, <1>3, <1>6, Ours, Unchanged DEF Saves
<1>8. tls'[t] = tls[t] /\ scopes'[t] = scopes[t] /\ call'[t] = c /\ sql'[t] = sql[t] /\ ghost'[t] = g
  BY <1>7, Saved
<1>9. Rest
  BY <1>2, Ours, Unchanged DEF Rest
<1>10. Connected(t)' /\ LockedRight(t)' /\ MarkedLast(t)'
  <2>1. Connected(t)'
    BY <1>1, <1>2, <1>3, <1>8, SameScopes DEF ThreadInv, Connected
  <2>2. LockedRight(t)' /\ MarkedLast(t)'
    BY <1>1, <1>2 DEF ThreadInv, LockedRight, MarkedLast
  <2>. QED
    BY <2>1, <2>2
<1>11. Astray(t)' <=> Astray(t)
  BY <1>6, <1>8 DEF Astray
<1>12. ~Astray(t) => Counted(t)' /\ Recorded(t)' /\ Protected(t)'
  <2>. SUFFICES ASSUME ~Astray(t) PROVE Counted(t)' /\ Recorded(t)' /\ Protected(t)'
    OBVIOUS
  <2>1. Counted(t) /\ Recorded(t) /\ Protected(t)
    BY <1>1 DEF ThreadInv
  <2>2. ~InScope(t)
    BY <1>1, <1>2, <2>1 DEF Counted, Uncommitted, FactsOf
  <2>3. ghost'[t] = ghost[t]
    BY <1>6, <1>8, <2>2
  <2>. QED
    BY <1>2, <1>3, <1>8, <2>1, <2>3, SameScopes DEF Counted, Recorded, Protected, At
<1>. QED
  BY <1>7, <1>9, <1>10, <1>11, <1>12, StepSaves DEF ThreadInv

LEMMA StepFailsKeeps ==
  ASSUME DatabaseInv, NEW t \in Threads, StepFails(t)
  PROVE  DatabaseInv'
<1>. DEFINE c == <<"throw">>
            g == [ghost[t] EXCEPT !.faults = @ \cup {"abort"}]
<1>1. ThreadInv(t) /\ FactsOf(t) /\ Sizes
  BY Facts
<1>2. call[t][1] = "step" /\ ~At(t, "commit") /\ UNCHANGED <<tls, scopes>>
  BY DEF StepFails, At
<1>3. call' = [call EXCEPT ![t] = c] /\ c \in Calls /\ c[1] = "throw"
  BY CallsAre DEF StepFails, Goto, Places
<1>4. Rest
  <2>1. calls < MaxCalls /\ calls' = calls + 1
    BY DEF StepFails, Count
  <2>2. command' \in [Threads -> [Queries -> {"null", "ready", "failed"}]]
    BY <1>2, CallsAre, CommandSet DEF StepFails
  <2>. QED
    BY <2>1, <2>2, Ours, DatabaseAssumption DEF Rest
<1>5. g \in Histories /\ "abort" \in g.faults
  BY Ours DEF Histories, Faults
<1>. HIDE DEF c, g
<1>6. CASE UNCHANGED <<sql, ghost>>
  BY <1>2, <1>3, <1>4, <1>6, Ours, Unchanged, MoveKeeps
<1>7. CASE sql' = [sql EXCEPT ![t] = Idle] /\ ghost' = [ghost EXCEPT ![t] = g]
  <2>1. Idle \in Sides
    BY DEF Idle, Sides
  <2>2. Gives(t, tls[t], scopes[t], c, Idle, g)
    BY <1>2, <1>3, <1>5, <1>7, <2>1, Ours, Unchanged DEF Gives
  <2>3. tls'[t] = tls[t] /\ scopes'[t] = scopes[t] /\ call'[t] = c /\ sql'[t] = Idle /\ ghost'[t] = g
    BY <2>2, Given
  <2>4. Connected(t)' /\ LockedRight(t)'
    BY <1>1, <1>2, <1>3, <2>3, SameScopes DEF ThreadInv, Connected, LockedRight, Idle
  <2>5. MarkedLast(t)'
    BY <1>1, <1>2, <1>4 DEF ThreadInv, MarkedLast, FactsOf, Sizes, Rest
  <2>6. Astray(t)'
    BY <1>5, <2>3 DEF Astray
  <2>. QED
    BY <1>4, <2>2, <2>4, <2>5, <2>6, StepAlone DEF ThreadInv
<1>8. UNCHANGED <<sql, ghost>> \/ (sql' = [sql EXCEPT ![t] = Idle] /\ ghost' = [ghost EXCEPT ![t] = g])
  BY DEF StepFails, Blame, g
<1>. QED
  BY <1>6, <1>7, <1>8

-------------------------------------------------------------------------------
(***************************************************************************)
(* Transactions.                                                           *)
(***************************************************************************)

LEMMA CommitWaitsKeeps ==
  ASSUME DatabaseInv, NEW t \in Threads, CommitWaits(t)
  PROVE  DatabaseInv'
<1>. DEFINE x == [sql[t] EXCEPT !.lock = "pending"]
<1>1. ThreadInv(t) /\ FactsOf(t) /\ Sizes
  BY Facts
<1>2. /\ call[t][1] = "commit" /\ sql[t].lock = "reserved" /\ sql' = [sql EXCEPT ![t] = x]
      /\ UNCHANGED <<tls, command, scopes, call, calls, ghost>>
  BY DEF CommitWaits, At
<1>3. x \in Sides /\ x.open = sql[t].open /\ x.unsaved = sql[t].unsaved /\ x.lock = "pending"
  BY Ours DEF Sides
<1>. HIDE DEF x
<1>4. Gives(t, tls[t], scopes[t], call[t], x, ghost[t])
  BY <1>2, <1>3, Ours, Unchanged DEF Gives
<1>5. sql'[t] = x
  BY <1>4, Given
<1>6. Rest
  <2>1. calls' = calls /\ command' = command
    BY <1>2
  <2>. QED
    BY <2>1, Ours, Unchanged DEF Rest
<1>7. Connected(t)' /\ LockedRight(t)' /\ MarkedLast(t)'
  BY <1>1, <1>2, <1>3, <1>5, SameScopes DEF ThreadInv, Connected, LockedRight, MarkedLast, Idle
<1>8. Astray(t)' <=> Astray(t)
  BY <1>2 DEF Astray
<1>9. ~Astray(t) => Counted(t)' /\ Recorded(t)' /\ Protected(t)'
  BY <1>1, <1>2, <1>3, <1>5, SameScopes DEF ThreadInv, Counted, Recorded, Protected, At
<1>. QED
  BY <1>4, <1>6, <1>7, <1>8, <1>9, StepAlone DEF ThreadInv

LEMMA BegunIs ==
  ASSUME NEW v \in Connections
  PROVE  /\ Begun(v) \in Connections
         /\ Begun(v).m_connection = v.m_connection /\ Begun(v).m_attachCount = v.m_attachCount
         /\ Begun(v).m_transactionDepth = (v.m_transactionDepth + 1) % SizeT
         /\ Begun(v).m_transactionCancel =
              (IF Begun(v).m_transactionDepth = 1 THEN FALSE ELSE v.m_transactionCancel)
<1>1. (v.m_transactionDepth + 1) % SizeT \in 0..(SizeT - 1)
  BY DepthsWrap, DatabaseAssumption DEF Connections
<1>. QED
  BY <1>1 DEF Begun, Connections

LEMMA UnrefIs ==
  ASSUME NEW v \in Connections
  PROVE  /\ TransactionUnref(v) \in Connections /\ CancelledUnref(v) \in Connections
         /\ TransactionUnref(v).m_connection = v.m_connection
         /\ TransactionUnref(v).m_attachCount = v.m_attachCount
         /\ TransactionUnref(v).m_transactionCancel = v.m_transactionCancel
         /\ TransactionUnref(v).m_transactionDepth = (v.m_transactionDepth - 1) % SizeT
         /\ CancelledUnref(v).m_connection = v.m_connection
         /\ CancelledUnref(v).m_attachCount = v.m_attachCount
         /\ CancelledUnref(v).m_transactionCancel = TRUE
         /\ CancelledUnref(v).m_transactionDepth = (v.m_transactionDepth - 1) % SizeT
<1>1. (v.m_transactionDepth - 1) % SizeT \in 0..(SizeT - 1)
  BY DepthsWrap, DatabaseAssumption DEF Connections
<1>2. /\ TransactionUnref(v) \in Connections
      /\ TransactionUnref(v).m_connection = v.m_connection
      /\ TransactionUnref(v).m_attachCount = v.m_attachCount
      /\ TransactionUnref(v).m_transactionCancel = v.m_transactionCancel
      /\ TransactionUnref(v).m_transactionDepth = (v.m_transactionDepth - 1) % SizeT
  BY <1>1 DEF TransactionUnref, Connections
<1>3. /\ CancelledUnref(v) \in Connections
      /\ CancelledUnref(v).m_connection = TransactionUnref(v).m_connection
      /\ CancelledUnref(v).m_attachCount = TransactionUnref(v).m_attachCount
      /\ CancelledUnref(v).m_transactionCancel = TRUE
      /\ CancelledUnref(v).m_transactionDepth = TransactionUnref(v).m_transactionDepth
  BY <1>2 DEF CancelledUnref, Connections
<1>. QED
  BY <1>2, <1>3

\* The depth of a thread that works and is not astray.
LEMMA DepthIs ==
  ASSUME DatabaseInv, NEW t \in Threads, ~Astray(t), ~Over(t), ~At(t, "commit"),
         calls < MaxCalls
  PROVE  /\ tls[t].m_transactionDepth = Len(scopes[t])
         /\ (tls[t].m_transactionDepth + 1) % SizeT = Len(scopes[t]) + 1
<1>1. ThreadInv(t) /\ FactsOf(t) /\ Sizes
  BY Facts
<1>2. tls[t].m_transactionDepth = Len(scopes[t])
  BY <1>1 DEF ThreadInv, Counted, Uncommitted, FactsOf
<1>3. Len(scopes[t]) + 1 \in Nat /\ Len(scopes[t]) + 1 < SizeT
  BY <1>1 DEF ThreadInv, MarkedLast, FactsOf, Sizes
<1>. QED
  BY <1>2, <1>3, DepthsWrap

LEMMA DepthLess ==
  ASSUME DatabaseInv, NEW t \in Threads, ~Astray(t), ~Over(t), ~At(t, "commit"), InScope(t)
  PROVE  /\ tls[t].m_transactionDepth = Len(scopes[t]) /\ Len(scopes[t]) \in Nat
         /\ Len(scopes[t]) > 0
         /\ (tls[t].m_transactionDepth - 1) % SizeT = Len(scopes[t]) - 1
         /\ sql[t].open
<1>1. ThreadInv(t) /\ FactsOf(t) /\ Sizes
  BY Facts
<1>2. tls[t].m_transactionDepth = Len(scopes[t]) /\ sql[t].open
  BY <1>1 DEF ThreadInv, Counted, Uncommitted, FactsOf
<1>3. Len(scopes[t]) > 0 /\ Len(scopes[t]) \in Nat
  BY <1>1 DEF FactsOf
<1>4. Len(scopes[t]) - 1 \in Nat /\ Len(scopes[t]) - 1 < SizeT
  BY <1>1, <1>3 DEF ThreadInv, MarkedLast, FactsOf, Sizes
<1>. QED
  BY <1>2, <1>3, <1>4, DepthsWrap

LEMMA OpenScopeKeeps ==
  ASSUME DatabaseInv, NEW t \in Threads, OpenScope(t)
  PROVE  DatabaseInv'
<1>. DEFINE v == Begun(tls[t])
            refused == v.m_transactionDepth = 1 /\ sql[t].open
            s == Append(scopes[t], FALSE)
            x == [sql[t] EXCEPT !.open = @ \/ v.m_transactionDepth = 1]
            new == [ghost[t] EXCEPT !.written = 0, !.durable = 0, !.outcome = "open",
                                    !.seen = "nothing"]
            g == IF InScope(t) THEN ghost[t] ELSE new
<1>1. ThreadInv(t) /\ FactsOf(t) /\ Sizes
  BY Facts
<1>2. /\ call[t][1] = "body" /\ ~At(t, "commit") /\ ~Over(t) /\ tls[t].m_attachCount > 0
      /\ calls < MaxCalls /\ calls' = calls + 1 /\ command' = command
      /\ tls' = [tls EXCEPT ![t] = v]
  BY Ours DEF OpenScope, At, Count
<1>3. Rest
  <2>1. calls < MaxCalls /\ calls' = calls + 1 /\ command' = command
    BY <1>2
  <2>. QED
    BY <2>1, Ours, Unchanged, DatabaseAssumption DEF Rest
<1>4. /\ v \in Connections /\ v.m_connection = tls[t].m_connection
      /\ v.m_attachCount = tls[t].m_attachCount
      /\ v.m_transactionDepth = (tls[t].m_transactionDepth + 1) % SizeT
      /\ v.m_transactionCancel =
           (IF v.m_transactionDepth = 1 THEN FALSE ELSE tls[t].m_transactionCancel)
  BY Ours, BegunIs
<1>5. /\ new \in Histories /\ new.written = 0 /\ new.durable = 0 /\ new.outcome = "open"
      /\ new.seen = "nothing" /\ new.faults = ghost[t].faults
  BY Ours DEF Histories
<1>6. g \in Histories /\ g.faults = ghost[t].faults
  BY <1>5, Ours
<1>7. ghost' = [ghost EXCEPT ![t] = g]
  BY Unchanged DEF OpenScope
<1>8. /\ x \in Sides /\ x.open = (sql[t].open \/ v.m_transactionDepth = 1)
      /\ x.lock = sql[t].lock /\ x.unsaved = sql[t].unsaved
  BY Ours DEF Sides
<1>9. /\ s \in Seq(BOOLEAN) /\ Len(s) = Len(scopes[t]) + 1 /\ s # <<>> /\ s[Len(s)] = FALSE
      /\ \A i \in 1..Len(scopes[t]) : s[i] = scopes[t][i]
  <2>1. scopes[t] \in Seq(BOOLEAN) /\ FALSE \in BOOLEAN
    BY Ours
  <2>. PICK old : old = scopes[t]
    OBVIOUS
  <2>. PICK B : B = BOOLEAN
    OBVIOUS
  <2>. PICK item : item = FALSE
    OBVIOUS
  <2>2. old \in Seq(B) /\ item \in B /\ s = Append(old, item)
    BY <2>1
  <2>3. /\ Append(old, item) \in Seq(B) /\ Len(Append(old, item)) = Len(old) + 1
        /\ Append(old, item) # <<>> /\ Append(old, item)[Len(Append(old, item))] = item
        /\ \A i \in 1..Len(old) : Append(old, item)[i] = old[i]
    BY ONLY <2>2
  <2>. HIDE DEF s
  <2>. QED
    BY ONLY old = scopes[t], B = BOOLEAN, item = FALSE, <2>2, <2>3
<1>10. Last(s) = FALSE
  BY <1>9 DEF Last
<1>11. \/ /\ refused /\ call' = [call EXCEPT ![t] = <<"throw">>] /\ UNCHANGED <<scopes, sql>>
       \/ /\ ~refused /\ scopes' = [scopes EXCEPT ![t] = s] /\ sql' = [sql EXCEPT ![t] = x]
          /\ UNCHANGED call
  BY DEF OpenScope, Goto
<1>12. v.m_transactionDepth = 1 <=> (tls[t].m_transactionDepth + 1) % SizeT = 1
  BY <1>4
<1>13. ~Astray(t) => /\ v.m_transactionDepth = Len(scopes[t]) + 1
                    /\ ~refused
                    /\ x.open
  <2>. SUFFICES ASSUME ~Astray(t)
                PROVE  v.m_transactionDepth = Len(scopes[t]) + 1 /\ ~refused /\ x.open
    OBVIOUS
  <2>1. v.m_transactionDepth = Len(scopes[t]) + 1
    BY <1>2, <1>4, DepthIs
  <2>2. sql[t].open <=> Len(scopes[t]) > 0
    BY <1>1, <1>2 DEF ThreadInv, Counted, Uncommitted, FactsOf
  <2>3. Len(scopes[t]) \in Nat
    BY <1>1 DEF FactsOf
  <2>. HIDE DEF v, x
  <2>4. ~refused
    BY <2>1, <2>2, <2>3
  <2>5. sql[t].open \/ v.m_transactionDepth = 1
    BY <2>1, <2>2, <2>3
  <2>. QED
    BY <1>8, <2>1, <2>4, <2>5
<1>14. <<"throw">> \in Calls
  BY CallsAre DEF Places
<1>. HIDE DEF v, s, x, g, new
<1>15. CASE refused
  <2>1. Gives(t, v, scopes[t], <<"throw">>, sql[t], g)
    BY <1>2, <1>4, <1>6, <1>7, <1>11, <1>14, <1>15, Ours, Unchanged DEF Gives
  <2>2. /\ tls'[t] = v /\ scopes'[t] = scopes[t] /\ call'[t] = <<"throw">> /\ sql'[t] = sql[t]
        /\ ghost'[t] = g /\ scopes' = scopes
    BY <1>11, <1>15, <2>1, Given
  <2>3. Connected(t)' /\ LockedRight(t)'
    BY <1>1, <1>2, <1>4, <2>2, SameScopes DEF ThreadInv, Connected, LockedRight
  <2>4. MarkedLast(t)'
    BY <1>1, <1>2, <2>2 DEF ThreadInv, MarkedLast, FactsOf, Sizes
  <2>5. Astray(t)'
    BY <1>6, <1>13, <1>15, <2>2 DEF Astray
  <2>. QED
    BY <1>3, <2>1, <2>3, <2>4, <2>5, StepAlone DEF ThreadInv
<1>16. CASE ~refused
  <2>1. Gives(t, v, s, call[t], x, g)
    BY <1>2, <1>4, <1>6, <1>7, <1>8, <1>9, <1>11, <1>16, Ours, Unchanged DEF Gives
  <2>2. tls'[t] = v /\ scopes'[t] = s /\ call'[t] = call[t] /\ sql'[t] = x /\ ghost'[t] = g
    BY <2>1, Given
  <2>3. InScope(t)' /\ ~Over(t)' /\ Uncommitted(t)' = Len(scopes[t]) + 1
    BY <1>1, <1>9, <1>10, <2>2 DEF InScope, Over, Uncommitted, FactsOf
  <2>4. Connected(t)' /\ LockedRight(t)'
    BY <1>1, <1>2, <1>4, <1>8, <2>2 DEF ThreadInv, Connected, LockedRight, Idle
  <2>5. MarkedLast(t)'
    <3>1. Len(s) <= calls' /\ Len(s) - 1 = Len(scopes[t])
      BY <1>1, <1>2, <1>9 DEF ThreadInv, MarkedLast, FactsOf, Sizes
    <3>2. ASSUME NEW i \in 1..Len(scopes[t]) PROVE ~s[i]
      <4>1. s[i] = scopes[t][i] /\ InScope(t)
        BY <1>1, <1>9 DEF FactsOf
      <4>2. CASE i = Len(scopes[t])
        BY <1>1, <1>2, <4>1, <4>2 DEF FactsOf, Over
      <4>3. CASE i # Len(scopes[t])
        BY <1>1, <4>1, <4>3 DEF ThreadInv, MarkedLast, FactsOf
      <4>. QED
        BY <4>2, <4>3
    <3>. QED
      BY <2>2, <3>1, <3>2 DEF MarkedLast
  <2>6. Astray(t)' <=> Astray(t)
    BY <1>6, <2>2 DEF Astray
  <2>7. ~Astray(t) => Counted(t)' /\ Recorded(t)' /\ Protected(t)'
    <3>. SUFFICES ASSUME ~Astray(t) PROVE Counted(t)' /\ Recorded(t)' /\ Protected(t)'
      OBVIOUS
    <3>1. Counted(t) /\ Recorded(t) /\ Protected(t) /\ LockedRight(t)
      BY <1>1 DEF ThreadInv
    <3>2. Uncommitted(t) = Len(scopes[t]) /\ Len(scopes[t]) \in Nat
      BY <1>1, <1>2 DEF Uncommitted, FactsOf
    <3>3. Counted(t)'
      BY <1>2, <1>13, <2>2, <2>3, <3>2 DEF Counted, At
    <3>4. CASE InScope(t)
      <4>1. Len(scopes[t]) > 0 /\ g = ghost[t] /\ v.m_transactionCancel = tls[t].m_transactionCancel
        <5>1. Len(scopes[t]) > 0 /\ g = ghost[t]
          BY <1>1, <3>4 DEF FactsOf, g
        <5>2. v.m_transactionDepth # 1
          BY <1>13, <3>2, <5>1
        <5>. QED
          BY <1>4, <5>1, <5>2
      <4>2. Recorded(t)'
        BY <1>8, <2>2, <2>3, <3>1, <3>2, <4>1 DEF Recorded
      <4>3. Protected(t)'
        BY <1>8, <2>2, <3>1, <4>1 DEF Protected
      <4>. QED
        BY <3>3, <4>2, <4>3
    <3>5. CASE ~InScope(t)
      <4>1. Len(scopes[t]) = 0 /\ g = new /\ v.m_transactionCancel = FALSE
        BY <1>1, <1>4, <1>13, <3>5 DEF FactsOf, g
      <4>2. sql[t].unsaved = 0
        BY <3>5, OutsideIsIdle
      <4>3. Recorded(t)' /\ Protected(t)'
        BY <1>5, <1>8, <2>2, <2>3, <4>1, <4>2 DEF Recorded, Protected
      <4>. QED
        BY <3>3, <4>3
    <3>. QED
      BY <3>4, <3>5
  <2>. QED
    BY <1>3, <2>1, <2>4, <2>5, <2>6, <2>7, StepAlone DEF ThreadInv
<1>. QED
  BY <1>15, <1>16

\* The innermost scope marked.
Marked(t) == [scopes[t] EXCEPT ![Len(scopes[t])] = TRUE]

LEMMA MarkedIs ==
  ASSUME DatabaseInv, NEW t \in Threads, InScope(t)
  PROVE  /\ Marked(t) \in Seq(BOOLEAN) /\ Len(Marked(t)) = Len(scopes[t]) /\ Marked(t) # <<>>
         /\ Last(Marked(t)) = TRUE
         /\ \A i \in 1..(Len(scopes[t]) - 1) : Marked(t)[i] = scopes[t][i]
         /\ Mark(t) => scopes' = [scopes EXCEPT ![t] = Marked(t)]
<1>1. scopes[t] \in Seq(BOOLEAN) /\ scopes[t] # <<>> /\ TRUE \in BOOLEAN
  BY Ours DEF InScope
<1>2. /\ Marked(t) \in Seq(BOOLEAN) /\ Len(Marked(t)) = Len(scopes[t]) /\ Marked(t) # <<>>
      /\ Marked(t)[Len(Marked(t))] = TRUE
      /\ \A i \in 1..(Len(scopes[t]) - 1) : Marked(t)[i] = scopes[t][i]
  BY <1>1, LastReplaced DEF Marked
<1>3. Mark(t) => scopes' = [scopes EXCEPT ![t] = Marked(t)]
  BY DEF Mark, Marked
<1>. QED
  BY <1>2, <1>3 DEF Last

LEMMA SettledIs ==
  ASSUME DatabaseInv, NEW t \in Threads, NEW g \in Histories
  PROVE  /\ Settled(t, g) \in Histories
         /\ Settled(t, g).faults = g.faults /\ Settled(t, g).written = g.written
         /\ Settled(t, g).durable = g.durable
         /\ IF Len(scopes[t]) > 1 THEN Settled(t, g) = g
            ELSE /\ Settled(t, g).seen = "nothing"
                 /\ Settled(t, g).outcome =
                      (IF g.outcome = "doomed" THEN "rolledback" ELSE "committed")
BY DEF Settled, Histories

LEMMA BlamedIs ==
  ASSUME DatabaseInv, NEW t \in Threads
  PROVE  /\ Blamed(t) \in Histories
         /\ Over(t) => "repeat" \in Blamed(t).faults
         /\ ~Over(t) => Blamed(t) = ghost[t]
         /\ ghost[t].faults \subseteq Blamed(t).faults
BY Ours DEF Blamed, Histories, Faults

LEMMA CommitKeeps ==
  ASSUME DatabaseInv, NEW t \in Threads, Commit(t)
  PROVE  DatabaseInv'
<1>. DEFINE v == TransactionUnref(tls[t])
            outermost == v.m_transactionDepth = 0
            cancel == tls[t].m_transactionCancel
            g == Settled(t, Blamed(t))
<1>1. ThreadInv(t) /\ FactsOf(t) /\ Sizes
  BY Facts
<1>2. /\ call[t][1] = "body" /\ ~At(t, "commit") /\ InScope(t) /\ command' = command
      /\ tls' = [tls EXCEPT ![t] = v]
  BY Ours DEF Commit, Working, At
<1>3. Rest
  <2>1. calls' = calls \/ (calls < MaxCalls /\ calls' = calls + 1)
    BY DEF Commit, Count
  <2>2. command' = command
    BY <1>2
  <2>. QED
    BY <2>1, <2>2, Ours, Unchanged, DatabaseAssumption DEF Rest
<1>4. /\ v \in Connections /\ v.m_connection = tls[t].m_connection
      /\ v.m_attachCount = tls[t].m_attachCount
      /\ v.m_transactionDepth = (tls[t].m_transactionDepth - 1) % SizeT
      /\ v.m_transactionCancel = cancel
  BY Ours, UnrefIs
<1>5. /\ tls[t].m_attachCount > 0 /\ tls[t].m_connection
  BY <1>1, <1>2 DEF ThreadInv, Connected
<1>6. calls \in Nat /\ calls' \in Nat /\ calls' >= calls /\ Len(scopes[t]) \in Nat /\ Len(scopes[t]) > 0
      /\ Len(scopes[t]) <= calls
  BY <1>1, <1>2, <1>3 DEF Rest, FactsOf, Sizes, ThreadInv, MarkedLast
<1>7. Blamed(t) \in Histories /\ g \in Histories /\ g.faults = Blamed(t).faults
  BY BlamedIs, SettledIs
<1>8. /\ Astray(t) => Blamed(t).faults \cap {"abort", "commit", "repeat"} # {}
      /\ Over(t) => Blamed(t).faults \cap {"abort", "commit", "repeat"} # {}
      /\ ~Over(t) => Blamed(t) = ghost[t]
  BY BlamedIs DEF Astray
<1>9. \/ /\ ~outermost /\ Mark(t) /\ ghost' = [ghost EXCEPT ![t] = Blamed(t)]
         /\ UNCHANGED <<call, sql>>
      \/ /\ outermost /\ cancel /\ sql[t].open /\ sql' = [sql EXCEPT ![t] = Idle]
         /\ Mark(t) /\ ghost' = [ghost EXCEPT ![t] = g] /\ UNCHANGED call
      \/ /\ outermost /\ cancel /\ ~sql[t].open /\ call' = [call EXCEPT ![t] = <<"throw">>]
         /\ ghost' = [ghost EXCEPT ![t] = Blamed(t)] /\ UNCHANGED <<scopes, sql>>
      \/ /\ outermost /\ ~cancel /\ call' = [call EXCEPT ![t] = <<"commit">>]
         /\ ghost' = [ghost EXCEPT ![t] = Blamed(t)] /\ UNCHANGED <<scopes, sql>>
  BY DEF Commit, Goto, Rollback
<1>10. /\ Marked(t) \in Seq(BOOLEAN) /\ Len(Marked(t)) = Len(scopes[t]) /\ Marked(t) # <<>>
       /\ Last(Marked(t)) = TRUE
       /\ \A i \in 1..(Len(scopes[t]) - 1) : Marked(t)[i] = scopes[t][i]
       /\ Mark(t) => scopes' = [scopes EXCEPT ![t] = Marked(t)]
  BY <1>2, MarkedIs
<1>11. ~Astray(t) /\ ~Over(t) =>
         /\ tls[t].m_transactionDepth = Len(scopes[t]) /\ sql[t].open
         /\ v.m_transactionDepth = Len(scopes[t]) - 1
         /\ Uncommitted(t) = Len(scopes[t])
         /\ Counted(t) /\ Recorded(t) /\ Protected(t)
  BY <1>1, <1>2, <1>4, <1>6, DepthLess DEF ThreadInv, Uncommitted
<1>12. <<"throw">> \in Calls /\ <<"commit">> \in Calls /\ Idle \in Sides
  BY CallsAre DEF Places, Idle, Sides
<1>. HIDE DEF v, g, cancel
<1>13. ASSUME ~outermost, Mark(t), ghost' = [ghost EXCEPT ![t] = Blamed(t)], UNCHANGED <<call, sql>>
       PROVE  DatabaseInv'
  <2>1. Gives(t, v, Marked(t), call[t], sql[t], Blamed(t))
    BY <1>2, <1>4, <1>7, <1>10, <1>13, Ours, Unchanged DEF Gives
  <2>2. tls'[t] = v /\ scopes'[t] = Marked(t) /\ call'[t] = call[t] /\ sql'[t] = sql[t]
        /\ ghost'[t] = Blamed(t)
    BY <2>1, Given
  <2>3. InScope(t)' /\ Over(t)' /\ Uncommitted(t)' = Len(scopes[t]) - 1
    BY <1>10, <2>2 DEF InScope, Over, Uncommitted
  <2>4. Connected(t)' /\ LockedRight(t)'
    BY <1>1, <1>2, <1>4, <1>5, <2>2 DEF ThreadInv, Connected, LockedRight
  <2>5. MarkedLast(t)'
    BY <1>1, <1>6, <1>10, <2>2, SMTT(60) DEF ThreadInv, MarkedLast
  <2>6. Astray(t) \/ Over(t) => Astray(t)'
    BY <1>8, <2>2 DEF Astray
  <2>7. ~Astray(t) /\ ~Over(t) => Counted(t)' /\ Recorded(t)' /\ Protected(t)'
    <3>. SUFFICES ASSUME ~Astray(t), ~Over(t) PROVE Counted(t)' /\ Recorded(t)' /\ Protected(t)'
      OBVIOUS
    <3>1. Len(scopes[t]) - 1 > 0 /\ Blamed(t) = ghost[t]
      BY <1>6, <1>8, <1>11, <1>13
    <3>2. Counted(t)'
      BY <1>2, <1>11, <2>2, <2>3, <3>1 DEF Counted, At
    <3>3. Recorded(t)'
      BY <1>4, <1>6, <1>11, <2>2, <2>3, <3>1 DEF Recorded, cancel
    <3>4. Protected(t)'
      BY <1>11, <2>2, <3>1 DEF Protected
    <3>. QED
      BY <3>2, <3>3, <3>4
  <2>. QED
    BY <1>3, <2>1, <2>4, <2>5, <2>6, <2>7, StepAlone DEF ThreadInv
<1>14. ASSUME outermost, cancel, sql[t].open, sql' = [sql EXCEPT ![t] = Idle], Mark(t),
              ghost' = [ghost EXCEPT ![t] = g], UNCHANGED call
       PROVE  DatabaseInv'
  <2>1. Gives(t, v, Marked(t), call[t], Idle, g)
    BY <1>2, <1>4, <1>7, <1>10, <1>12, <1>14, Ours, Unchanged DEF Gives
  <2>2. tls'[t] = v /\ scopes'[t] = Marked(t) /\ call'[t] = call[t] /\ sql'[t] = Idle
        /\ ghost'[t] = g
    BY <2>1, Given
  <2>3. InScope(t)' /\ Over(t)' /\ Uncommitted(t)' = Len(scopes[t]) - 1
    BY <1>10, <2>2 DEF InScope, Over, Uncommitted
  <2>4. Connected(t)' /\ LockedRight(t)'
    <3>1. Connected(t)'
      BY <1>2, <1>4, <1>5, <2>2 DEF Connected
    <3>2. LockedRight(t)'
      BY <2>2 DEF LockedRight, Idle
    <3>. QED
      BY <3>1, <3>2
  <2>5. MarkedLast(t)'
    BY <1>1, <1>6, <1>10, <2>2 DEF ThreadInv, MarkedLast
  <2>6. Astray(t) \/ Over(t) => Astray(t)'
    BY <1>7, <1>8, <2>2 DEF Astray
  <2>7. ~Astray(t) /\ ~Over(t) => Counted(t)' /\ Recorded(t)' /\ Protected(t)'
    <3>. SUFFICES ASSUME ~Astray(t), ~Over(t) PROVE Counted(t)' /\ Recorded(t)' /\ Protected(t)'
      OBVIOUS
    <3>1. Len(scopes[t]) = 1 /\ Blamed(t) = ghost[t] /\ Uncommitted(t)' = 0 /\ v.m_transactionDepth = 0
      BY <1>6, <1>8, <1>11, <1>14, <2>3
    <3>2. ghost[t].outcome = "doomed" /\ ghost[t].durable = 0
      BY <1>11, <1>14, <3>1 DEF Recorded, cancel
    <3>3. g.outcome = "rolledback" /\ g.durable = 0 /\ g.seen = "nothing"
      <4>1. ghost[t] \in Histories /\ g = Settled(t, ghost[t]) /\ ~(Len(scopes[t]) > 1)
        BY <1>7, <3>1 DEF g
      <4>. QED
        BY <3>2, <4>1, SettledIs
    <3>4. Counted(t)'
      BY <1>2, <2>2, <2>3, <3>1 DEF Counted, At, Idle
    <3>5. Recorded(t)' /\ Protected(t)'
      BY <2>2, <3>1, <3>3 DEF Recorded, Protected
    <3>. QED
      BY <3>4, <3>5
  <2>. QED
    BY <1>3, <2>1, <2>4, <2>5, <2>6, <2>7, StepAlone DEF ThreadInv
<1>15. ASSUME NEW where \in {"throw", "commit"}, where = "throw" => ~sql[t].open,
              where = "commit" => ~cancel, outermost,
              call' = [call EXCEPT ![t] = <<where>>], ghost' = [ghost EXCEPT ![t] = Blamed(t)],
              UNCHANGED <<scopes, sql>>
       PROVE  DatabaseInv'
  <2>1. Gives(t, v, scopes[t], <<where>>, sql[t], Blamed(t))
    <3>1. <<where>> \in Calls
      BY <1>12
    <3>. QED
      BY <1>2, <1>4, <1>7, <1>15, <3>1, Ours, Unchanged DEF Gives
  <2>2. tls'[t] = v /\ scopes'[t] = scopes[t] /\ call'[t] = <<where>> /\ sql'[t] = sql[t]
        /\ ghost'[t] = Blamed(t) /\ call'[t][1] = where
    BY <2>1, Given
  <2>3. Connected(t)' /\ LockedRight(t)'
    BY <1>1, <1>2, <1>4, <1>5, <1>15, <2>2, SameScopes DEF ThreadInv, Connected, LockedRight
  <2>4. MarkedLast(t)'
    BY <1>1, <1>6, <2>2 DEF ThreadInv, MarkedLast
  <2>5. Astray(t) \/ Over(t) => Astray(t)'
    BY <1>8, <2>2 DEF Astray
  <2>6. ~Astray(t) /\ ~Over(t) => Counted(t)' /\ Recorded(t)' /\ Protected(t)'
    <3>. SUFFICES ASSUME ~Astray(t), ~Over(t) PROVE Counted(t)' /\ Recorded(t)' /\ Protected(t)'
      OBVIOUS
    <3>1. Len(scopes[t]) = 1 /\ Blamed(t) = ghost[t] /\ v.m_transactionDepth = 0 /\ where = "commit"
          /\ ~Over(t)' /\ Uncommitted(t)' = 1
      <4>1. where = "commit"
        BY <1>11, <1>15
      <4>2. Len(scopes[t]) = 1 /\ v.m_transactionDepth = 0
        BY <1>6, <1>11, <1>15
      <4>. QED
        BY <1>8, <1>11, <1>15, <4>1, <4>2, SameScopes
    <3>2. Counted(t)'
      BY <1>4, <1>11, <1>15, <2>2, <3>1 DEF Counted, At
    <3>3. Recorded(t)'
      BY <1>4, <1>11, <2>2, <3>1 DEF Recorded, cancel
    <3>4. Protected(t)'
      BY <1>11, <2>2, <3>1 DEF Protected
    <3>. QED
      BY <3>2, <3>3, <3>4
  <2>. QED
    BY <1>3, <2>1, <2>3, <2>4, <2>5, <2>6, StepAlone DEF ThreadInv
<1>. QED
  BY <1>9, <1>13, <1>14, <1>15

LEMMA CommitReturnsKeeps ==
  ASSUME DatabaseInv, NEW t \in Threads, CommitReturns(t)
  PROVE  DatabaseInv'
<1>. DEFINE c == <<"body">>
            h == Settled(t, ghost[t])
            g == [h EXCEPT !.durable = @ + sql[t].unsaved]
<1>1. ThreadInv(t) /\ FactsOf(t) /\ Sizes
  BY Facts
<1>2. /\ call[t][1] = "commit" /\ sql[t].open /\ sql' = [sql EXCEPT ![t] = Idle]
      /\ sql[t].lock \in {"none", "shared"} \/ MaySave(t)
      /\ Save(t, sql[t].unsaved, g) /\ Mark(t) /\ UNCHANGED <<tls, command, calls>>
  BY DEF CommitReturns, At
<1>3. call' = [call EXCEPT ![t] = c] /\ c \in Calls /\ c[1] = "body"
  BY CallsAre DEF CommitReturns, Goto, Places
<1>4. Rest
  <2>1. command' = command /\ calls' = calls
    BY <1>2
  <2>. QED
    BY <2>1, Ours, Unchanged DEF Rest
<1>5. /\ InScope(t) /\ tls[t].m_attachCount > 0 /\ tls[t].m_connection
      /\ Len(scopes[t]) \in Nat /\ Len(scopes[t]) > 0
  BY <1>1, <1>2 DEF ThreadInv, Connected, FactsOf
<1>6. /\ h \in Histories /\ h.faults = ghost[t].faults /\ h.written = ghost[t].written
      /\ h.durable = ghost[t].durable
      /\ Len(scopes[t]) = 1 =>
           /\ h.seen = "nothing"
           /\ h.outcome = (IF ghost[t].outcome = "doomed" THEN "rolledback" ELSE "committed")
  <2>1. ghost[t] \in Histories
    BY Ours
  <2>2. Len(scopes[t]) = 1 => ~(Len(scopes[t]) > 1)
    OBVIOUS
  <2>. QED
    BY <2>1, <2>2, SettledIs
<1>. HIDE DEF h
<1>7. sql[t].unsaved \in Nat /\ h.durable + sql[t].unsaved \in Nat
  BY <1>6, Ours DEF Sides, Histories
<1>8. /\ g \in Histories /\ g.faults = ghost[t].faults /\ g.written = ghost[t].written
      /\ g.durable = ghost[t].durable + sql[t].unsaved /\ g.seen = h.seen /\ g.outcome = h.outcome
  BY <1>6, <1>7 DEF Histories
<1>9. sql[t].unsaved > 0 => MaySave(t)
  BY <1>1, <1>2 DEF ThreadInv, LockedRight
<1>10. /\ Marked(t) \in Seq(BOOLEAN) /\ Len(Marked(t)) = Len(scopes[t]) /\ Marked(t) # <<>>
       /\ Last(Marked(t)) = TRUE
       /\ \A i \in 1..(Len(scopes[t]) - 1) : Marked(t)[i] = scopes[t][i]
       /\ scopes' = [scopes EXCEPT ![t] = Marked(t)]
  BY <1>2, <1>5, MarkedIs
<1>11. Idle \in Sides
  BY DEF Idle, Sides
<1>. HIDE DEF c, g
<1>12. Saves(t, tls[t], Marked(t), c, Idle, g, sql[t].unsaved)
  BY <1>2, <1>3, <1>8, <1>9, <1>10, <1>11, Ours, Unchanged DEF Saves
<1>13. tls'[t] = tls[t] /\ scopes'[t] = Marked(t) /\ call'[t] = c /\ sql'[t] = Idle /\ ghost'[t] = g
  BY <1>12, Saved
<1>14. InScope(t)' /\ Over(t)' /\ Uncommitted(t)' = Len(scopes[t]) - 1
  BY <1>10, <1>13 DEF InScope, Over, Uncommitted
<1>15. Connected(t)' /\ LockedRight(t)' /\ MarkedLast(t)'
  <2>1. Connected(t)'
    BY <1>3, <1>5, <1>13 DEF Connected
  <2>2. LockedRight(t)'
    BY <1>13 DEF LockedRight, Idle
  <2>3. MarkedLast(t)'
    BY <1>1, <1>2, <1>10, <1>13 DEF ThreadInv, MarkedLast
  <2>. QED
    BY <2>1, <2>2, <2>3
<1>16. Astray(t)' <=> Astray(t)
  BY <1>8, <1>13 DEF Astray
<1>17. ~Astray(t) => Counted(t)' /\ Recorded(t)' /\ Protected(t)'
  <2>. SUFFICES ASSUME ~Astray(t) PROVE Counted(t)' /\ Recorded(t)' /\ Protected(t)'
    OBVIOUS
  <2>1. Counted(t) /\ Recorded(t)
    BY <1>1 DEF ThreadInv
  <2>2. /\ ~Over(t) /\ Uncommitted(t) = 1 /\ tls[t].m_transactionDepth = 0
        /\ tls[t].m_transactionCancel = FALSE
    BY <1>2, <2>1, Ours DEF Counted, At, Connections
  <2>3. Len(scopes[t]) = 1
    BY <1>5, <2>2 DEF Uncommitted
  <2>4. ghost[t].outcome = "open" /\ ghost[t].durable = 0 /\ sql[t].unsaved = ghost[t].written
    BY <2>1, <2>2 DEF Recorded
  <2>5. g.outcome = "committed" /\ g.seen = "nothing" /\ g.durable = g.written
    BY <1>6, <1>7, <1>8, <2>3, <2>4
  <2>6. Counted(t)'
    BY <1>2, <1>3, <1>13, <1>14, <2>2, <2>3 DEF Counted, At, Idle
  <2>7. Recorded(t)' /\ Protected(t)'
    BY <1>13, <1>14, <2>3, <2>5 DEF Recorded, Protected
  <2>. QED
    BY <2>6, <2>7
<1>. QED
  BY <1>4, <1>12, <1>15, <1>16, <1>17, StepSaves DEF ThreadInv

LEMMA LeaveScopeKeeps ==
  ASSUME DatabaseInv, NEW t \in Threads, LeaveScope(t)
  PROVE  DatabaseInv'
<1>. DEFINE s == Front(scopes[t])
            v == CancelledUnref(tls[t])
            last == v.m_transactionDepth = 0
            outer == Len(scopes[t]) = 1
            seen == IF outer THEN "nothing" ELSE ghost[t].seen
            outcome == IF outer THEN "rolledback"
                       ELSE IF ghost[t].outcome = "open" THEN "doomed" ELSE ghost[t].outcome
            g == [ghost[t] EXCEPT !.seen = seen, !.outcome = outcome]
            x == IF last THEN Idle ELSE sql[t]
<1>1. ThreadInv(t) /\ FactsOf(t) /\ Sizes
  BY Facts
<1>2. call[t][1] \in {"body", "throw"} /\ ~At(t, "commit") /\ InScope(t)
      /\ scopes' = [scopes EXCEPT ![t] = s] /\ UNCHANGED <<command, calls>>
  BY DEF LeaveScope, At
<1>3. Rest
  <2>1. command' = command /\ calls' = calls
    BY <1>2
  <2>. QED
    BY <2>1, Ours, Unchanged DEF Rest
<1>4. /\ tls[t].m_attachCount > 0 /\ tls[t].m_connection
      /\ Len(scopes[t]) \in Nat /\ Len(scopes[t]) > 0
  BY <1>1, <1>2 DEF ThreadInv, Connected, FactsOf
<1>5. /\ s \in Seq(BOOLEAN) /\ Len(s) = Len(scopes[t]) - 1
      /\ s = <<>> <=> Len(scopes[t]) = 1
      /\ \A i \in 1..(Len(scopes[t]) - 1) : s[i] = scopes[t][i]
  <2>1. scopes[t] \in Seq(BOOLEAN) /\ scopes[t] # <<>>
    BY <1>2, Ours DEF InScope
  <2>. QED
    BY <2>1, LastRemoved
<1>6. s # <<>> => ~Last(s)
  <2>. SUFFICES ASSUME s # <<>> PROVE ~Last(s)
    OBVIOUS
  <2>1. Len(s) \in 1..(Len(scopes[t]) - 1)
    BY <1>4, <1>5
  <2>. HIDE DEF s
  <2>2. Last(s) = s[Len(s)]
    BY DEF Last
  <2>3. ~scopes[t][Len(s)]
    BY <1>1, <2>1 DEF ThreadInv, MarkedLast
  <2>. QED
    BY <1>5, <2>1, <2>2, <2>3
<1>. HIDE DEF s
<1>7. ASSUME NEW w \in Connections, NEW c \in Calls, NEW y \in Sides, NEW k \in Histories,
             Gives(t, w, s, c, y, k),
             w.m_connection = tls[t].m_connection, w.m_attachCount = tls[t].m_attachCount,
             c[1] \in {"body", "throw", "terminated"}, y = sql[t] \/ y = Idle,
             k.faults = ghost[t].faults
      PROVE  /\ Connected(t)' /\ LockedRight(t)' /\ MarkedLast(t)'
             /\ Astray(t)' <=> Astray(t)
             /\ ~Over(t)' /\ Uncommitted(t)' = Len(scopes[t]) - 1 /\ ~At(t, "commit")'
             /\ call[t]' = c
  <2>1. tls'[t] = w /\ scopes'[t] = s /\ call'[t] = c /\ sql'[t] = y /\ ghost'[t] = k
    BY <1>7, Given
  <2>2. Connected(t)'
    BY <1>4, <1>7, <2>1 DEF Connected
  <2>3. LockedRight(t)'
    BY <1>1, <1>7, <2>1 DEF ThreadInv, LockedRight, Idle
  <2>4. MarkedLast(t)'
    BY <1>1, <1>2, <1>4, <1>5, <2>1 DEF ThreadInv, MarkedLast, FactsOf, Sizes
  <2>5. ~Over(t)' /\ Uncommitted(t)' = Len(scopes[t]) - 1
    <3>1. ~Over(t)'
      BY <1>6, <2>1 DEF InScope, Over
    <3>2. Len(s) = Len(scopes[t]) - 1 /\ Len(scopes[t]) \in Nat
      BY <1>4, <1>5
    <3>. QED
      BY <2>1, <3>1, <3>2 DEF Uncommitted
  <2>. QED
    BY <1>7, <2>1, <2>2, <2>3, <2>4, <2>5 DEF Astray, At
<1>8. ASSUME Over(t) PROVE DatabaseInv'
  <2>1. UNCHANGED <<tls, sql, call, ghost>>
    BY <1>8 DEF LeaveScope, Over
  <2>2. Gives(t, tls[t], s, call[t], sql[t], ghost[t])
    BY <1>2, <1>5, <2>1, Ours, Unchanged DEF Gives
  <2>3. /\ Connected(t)' /\ LockedRight(t)' /\ MarkedLast(t)' /\ (Astray(t)' <=> Astray(t))
        /\ ~Over(t)' /\ Uncommitted(t)' = Len(scopes[t]) - 1 /\ ~At(t, "commit")'
    BY <1>2, <1>7, <2>2, Ours
  <2>4. Uncommitted(t)' = Uncommitted(t)
    BY <1>8, <2>3 DEF Uncommitted
  <2>5. ~Astray(t) => Counted(t)' /\ Recorded(t)' /\ Protected(t)'
    BY <1>1, <1>2, <2>1, <2>3, <2>4 DEF ThreadInv, Counted, Recorded, Protected, At
  <2>. QED
    BY <1>3, <2>2, <2>3, <2>5, StepAlone DEF ThreadInv
<1>9. ASSUME ~Over(t) PROVE DatabaseInv'
  <2>1. ~Last(scopes[t])
    BY <1>2, <1>9 DEF Over
  <2>2. /\ v \in Connections /\ v.m_connection = tls[t].m_connection
        /\ v.m_attachCount = tls[t].m_attachCount
        /\ v.m_transactionDepth = (tls[t].m_transactionDepth - 1) % SizeT
        /\ v.m_transactionCancel = TRUE
    BY Ours, UnrefIs
  <2>3. /\ g \in Histories /\ g.faults = ghost[t].faults /\ g.durable = ghost[t].durable
        /\ g.written = ghost[t].written /\ g.seen = seen /\ g.outcome = outcome
    BY Ours DEF Histories
  <2>4. x \in Sides /\ (x = sql[t] \/ x = Idle)
    BY Ours DEF Idle, Sides
  <2>5. tls' = [tls EXCEPT ![t] = v]
    BY <2>1, Ours DEF LeaveScope
  <2>6. sql' = [sql EXCEPT ![t] = x]
    BY <2>1, Unchanged DEF LeaveScope, Rollback
  <2>7. ghost' = [ghost EXCEPT ![t] = g]
    BY <2>1, Ours DEF LeaveScope
  <2>8. PICK c \in Calls : /\ call' = [call EXCEPT ![t] = c]
                           /\ c[1] \in {"body", "throw", "terminated"}
    BY <1>2, <2>1, CallsAre, Unchanged DEF LeaveScope, Goto, Places
  <2>9. (last /\ ~sql[t].open) \/ call' = call
    BY <2>1 DEF LeaveScope
  <2>10. ~Astray(t) => /\ tls[t].m_transactionDepth = Len(scopes[t]) /\ sql[t].open
                      /\ v.m_transactionDepth = Len(scopes[t]) - 1
                      /\ Uncommitted(t) = Len(scopes[t])
                      /\ Counted(t) /\ Recorded(t) /\ Protected(t)
    BY <1>1, <1>2, <1>4, <1>9, <2>2, DepthLess DEF ThreadInv, Uncommitted
  <2>. HIDE DEF v, g, x
  <2>11. Gives(t, v, s, c, x, g)
    BY <1>2, <1>5, <2>2, <2>3, <2>4, <2>5, <2>6, <2>7, <2>8 DEF Gives
  <2>12. /\ Connected(t)' /\ LockedRight(t)' /\ MarkedLast(t)' /\ (Astray(t)' <=> Astray(t))
         /\ ~Over(t)' /\ Uncommitted(t)' = Len(scopes[t]) - 1 /\ ~At(t, "commit")'
         /\ call[t]' = c
    BY <1>7, <2>2, <2>3, <2>4, <2>8, <2>11
  <2>13. tls'[t] = v /\ sql'[t] = x /\ ghost'[t] = g
    BY <2>11, Given
  <2>14. ~Astray(t) => Counted(t)' /\ Recorded(t)' /\ Protected(t)'
    <3>. SUFFICES ASSUME ~Astray(t) PROVE Counted(t)' /\ Recorded(t)' /\ Protected(t)'
      OBVIOUS
    <3>1. last <=> outer
      <4>1. v.m_transactionDepth = Len(scopes[t]) - 1
        BY <2>10
      <4>2. Len(scopes[t]) \in Nat
        BY <1>4
      <4>. QED
        BY <4>1, <4>2
    <3>2. Counted(t)'
      BY <1>4, <2>8, <2>10, <2>12, <2>13, <3>1 DEF Counted, Idle, x, At
    <3>3. CASE outer
      <4>1. Uncommitted(t)' = 0 /\ ghost[t].durable = 0
        BY <1>4, <2>10, <2>12, <3>3 DEF Recorded
      <4>2. g.outcome = "rolledback" /\ g.seen = "nothing" /\ g.durable = 0
        BY <2>3, <3>3, <4>1
      <4>. QED
        BY <2>13, <3>2, <4>1, <4>2 DEF Recorded, Protected
    <3>4. CASE ~outer
      <4>1. Uncommitted(t)' > 0 /\ Uncommitted(t) > 0
        <5>1. Uncommitted(t)' = Len(scopes[t]) - 1 /\ Uncommitted(t) = Len(scopes[t])
          BY <2>10, <2>12
        <5>2. Len(scopes[t]) \in Nat /\ Len(scopes[t]) > 0 /\ Len(scopes[t]) # 1
          BY <1>4, <3>4
        <5>3. \A n \in Nat : n > 0 /\ n # 1 => n - 1 > 0
          OBVIOUS
        <5>. QED
          BY <5>1, <5>2, <5>3, Zenon
      <4>2. g.outcome = "doomed" /\ g.seen = ghost[t].seen /\ x = sql[t]
        BY <2>3, <2>10, <3>1, <3>4, <4>1 DEF Recorded, x
      <4>3. Recorded(t)'
        BY <2>2, <2>3, <2>10, <2>13, <4>1, <4>2 DEF Recorded
      <4>4. Protected(t)'
        BY <2>10, <2>13, <4>2 DEF Protected
      <4>. QED
        BY <3>2, <4>3, <4>4
    <3>. QED
      BY <3>3, <3>4
  <2>. QED
    BY <1>3, <2>11, <2>12, <2>14, StepAlone DEF ThreadInv
<1>. QED
  BY <1>8, <1>9

-------------------------------------------------------------------------------
LEMMA StutterKeeps ==
  ASSUME DatabaseInv, UNCHANGED vars
  PROVE  DatabaseInv'
<1>1. Types'
  BY DEF DatabaseInv, Types, vars
<1>2. ASSUME NEW t \in Threads PROVE ThreadInv(t)'
  BY <1>1, <1>2, OthersKeep, Ours DEF vars
<1>. QED
  BY <1>1, <1>2 DEF DatabaseInv

LEMMA StepKeepsInv == DatabaseInv /\ [Next]_vars => DatabaseInv'
<1>. SUFFICES ASSUME DatabaseInv, [Next]_vars PROVE DatabaseInv'
  OBVIOUS
<1>1. ASSUME NEW t \in Threads,
             \/ AttachToThread(t) \/ DetachFromThread(t) \/ ExitThread(t)
             \/ \E q \in Queries : Execute(t, q)
             \/ PrepareFails(t) \/ StepFails(t) \/ CommitFails(t)
             \/ OpenScope(t) \/ Commit(t) \/ Catch(t)
             \/ Progress(t)
      PROVE  DatabaseInv'
  <2>1. CASE AttachToThread(t) BY <2>1, AttachKeeps
  <2>2. CASE DetachFromThread(t) BY <2>2, DetachKeeps
  <2>3. CASE ExitThread(t) BY <2>3, ExitKeeps
  <2>4. CASE \E q \in Queries : Execute(t, q) BY <2>4, ExecuteKeeps
  <2>5. CASE PrepareFails(t) BY <2>5, PrepareFailsKeeps
  <2>6. CASE StepFails(t) BY <2>6, StepFailsKeeps
  <2>7. CASE CommitFails(t) BY <2>7, CommitFailsKeeps
  <2>8. CASE OpenScope(t) BY <2>8, OpenScopeKeeps
  <2>9. CASE Commit(t) BY <2>9, CommitKeeps
  <2>10. CASE Catch(t) BY <2>10, CatchKeeps
  <2>11. CASE PrepareReturns(t) BY <2>11, PrepareReturnsKeeps
  <2>12. CASE StepRead(t) BY <2>12, StepReadKeeps
  <2>13. CASE StepWrite(t) BY <2>13, StepWriteKeeps
  <2>14. CASE StepWriteAlone(t) BY <2>14, StepWriteAloneKeeps
  <2>15. CASE CommitReturns(t) BY <2>15, CommitReturnsKeeps
  <2>16. CASE CommitWaits(t) BY <2>16, CommitWaitsKeeps
  <2>17. CASE CommitRefused(t) BY <2>17, CommitRefusedKeeps
  <2>18. CASE LeaveScope(t) BY <2>18, LeaveScopeKeeps
  <2>. QED
    BY <1>1, <2>1, <2>2, <2>3, <2>4, <2>5, <2>6, <2>7, <2>8, <2>9, <2>10, <2>11, <2>12, <2>13,
       <2>14, <2>15, <2>16, <2>17, <2>18 DEF Progress
<1>2. CASE Next
  BY <1>1, <1>2 DEF Next
<1>3. CASE UNCHANGED vars
  BY <1>3, StutterKeeps
<1>. QED
  BY <1>2, <1>3

LEMMA InvHolds == Spec => []DatabaseInv
BY DatabaseInit, StepKeepsInv, PTL DEF Spec

\* Transactions are atomic: however scopes nest, queries fail and threads
\* interleave, what the ScopedTransactions of a thread write is durable exactly
\* when the outermost has committed and none inside was left uncommitted (a
\* thread whose COMMIT failed, whose transaction SQLite ended by itself, or that
\* commits one scope twice is astray and excepted).
THEOREM TransactionsAreAtomic == Spec => []AllOrNothing
<1>1. DatabaseInv => AllOrNothing
  <2>. SUFFICES ASSUME DatabaseInv, NEW t \in Threads, ~Astray(t)
                PROVE  ghost[t].durable =
                         (IF ghost[t].outcome = "committed" THEN ghost[t].written ELSE 0)
    BY DEF AllOrNothing
  <2>1. Recorded(t)
    BY DEF DatabaseInv, ThreadInv
  <2>. QED
    BY <2>1, Ours DEF Recorded, Connections
<1>. QED
  BY <1>1, InvHolds, PTL

\* m_transactionDepth is the number of ScopedTransactions still to be committed
\* or rolled back, wrapping or not, and SQLite has a transaction exactly when
\* there is one: no BEGIN, COMMIT or ROLLBACK is sent too often or too seldom.
THEOREM DepthIsRight == Spec => []DepthCountsScopes
<1>1. DatabaseInv => DepthCountsScopes
  BY DEF DatabaseInv, ThreadInv, Counted, DepthCountsScopes, Uncommitted
<1>. QED
  BY <1>1, InvHolds, PTL

\* What a DAO has read inside a ScopedTransaction is not changed by another
\* thread before the scope ends, for any number of threads.
THEOREM ReadsAreStable == Spec => []ReadsStayValid
<1>1. DatabaseInv => ReadsStayValid
  BY DEF DatabaseInv, ThreadInv, Protected, ReadsStayValid
<1>. QED
  BY <1>1, InvHolds, PTL

\* A thread outside its scopes has left no transaction open and holds no lock on
\* the database, so it never makes the others' calls retry for ever.
THEOREM LocksAreReleased == Spec => []NoLockKept
<1>1. DatabaseInv => NoLockKept
  <2>. SUFFICES ASSUME DatabaseInv, NEW t \in Threads, ~Astray(t), ~InScope(t)
                PROVE  sql[t] = Idle
    BY DEF NoLockKept
  <2>1. /\ ~sql[t].open /\ sql[t].lock = "none" /\ sql[t].unsaved = 0
    BY OutsideIsIdle
  <2>2. sql[t] \in Sides
    BY Ours
  <2>. QED
    BY <2>1, <2>2 DEF Sides, Idle
<1>. QED
  BY <1>1, InvHolds, PTL

-------------------------------------------------------------------------------
(***************************************************************************)
(* What a thread holds: the references to its connection, and how much its *)
(* calls have counted.                                                     *)
(***************************************************************************)

Prepared(t) == {q \in Queries : command[t][q] # "null"}
References(t) == Cardinality(Prepared(t)) + (IF At(t, "prepare") THEN 1 ELSE 0)

\* Every command refers to the connection, and so does the preparation of one;
\* only a preparation that fails leaves a reference too many.  A connection that
\* is detached lingers for its references and for nothing else.
Referenced(t) ==
  /\ tls[t].m_refCounter \in References(t)..calls
  /\ "prepare" \notin ghost[t].faults => tls[t].m_refCounter = References(t)
  /\ ~tls[t].m_connection => tls[t].m_refCounter = 0
  /\ tls[t].m_connection /\ tls[t].m_attachCount = 0 =>
       tls[t].m_linger /\ tls[t].m_refCounter > 0

\* A query is prepared once, and has its command when it is executed.
Cached(t) ==
  /\ At(t, "prepare") => command[t][QueryOf(t)] = "null"
  /\ At(t, "step") => command[t][QueryOf(t)] = "ready"
  /\ At(t, "exited") => Prepared(t) = {}

\* A statement that is under way may still count as one write.
Unfinished(t) == IF call[t][1] \in {"prepare", "step"} THEN 1 ELSE 0

Measured(t) ==
  /\ tls[t].m_attachCount <= MaxAttach
  /\ Len(scopes[t]) <= MaxScopes
  /\ sql[t].unsaved + ghost[t].durable + Unfinished(t) <= calls
  /\ ghost[t].written + Unfinished(t) <= calls

Holdings(t) == Referenced(t) /\ Cached(t) /\ Measured(t)
HoldingsInv == \A t \in Threads : Holdings(t)

LEMMA PreparedIsFinite ==
  ASSUME DatabaseInv, NEW t \in Threads
  PROVE  /\ IsFiniteSet(Prepared(t)) /\ Cardinality(Prepared(t)) \in Nat
         /\ Cardinality(Prepared(t)) = 0 <=> Prepared(t) = {}
<1>1. IsFiniteSet(Queries)
  BY DatabaseAssumption, FS_Union DEF Queries
<1>2. IsFiniteSet(Prepared(t))
  BY <1>1, FS_Subset DEF Prepared
<1>. QED
  BY <1>2, FS_CardinalityType, FS_EmptySet

LEMMA HoldingsInit == Init => HoldingsInv
<1>. SUFFICES ASSUME Init, NEW t \in Threads PROVE Holdings(t)
  BY DEF HoldingsInv
<1>1. /\ tls[t] = Closed /\ sql[t] = Idle /\ ghost[t] = NoHistory /\ scopes[t] = <<>>
      /\ Len(scopes[t]) = 0 /\ call[t][1] = "body" /\ calls = 0
      /\ Prepared(t) = {}
  BY DEF Init, Prepared
<1>2. References(t) = 0
  BY <1>1, FS_EmptySet DEF References, At
<1>. QED
  BY <1>1, <1>2, DatabaseAssumption
     DEF Holdings, Referenced, Cached, Measured, Unfinished, At, Closed, Idle, NoHistory

\* What a step of t leaves of the other threads.
OthersHold(t) ==
  \A u \in Threads : u # t =>
    /\ tls'[u] = tls[u] /\ command'[u] = command[u] /\ scopes'[u] = scopes[u]
    /\ call'[u] = call[u] /\ sql'[u].unsaved = sql[u].unsaved
    /\ ghost'[u].durable = ghost[u].durable /\ ghost'[u].written = ghost[u].written
    /\ ghost'[u].faults = ghost[u].faults

LEMMA ActorHolds ==
  ASSUME DatabaseInv, HoldingsInv, DatabaseInv', NEW t \in Threads, OthersHold(t),
         calls' >= calls, Holdings(t)'
  PROVE  HoldingsInv'
<1>1. ASSUME NEW u \in Threads, u # t PROVE Holdings(u)'
  <2>1. /\ Prepared(u)' = Prepared(u) /\ (At(u, "prepare")' <=> At(u, "prepare"))
        /\ (At(u, "step")' <=> At(u, "step")) /\ (At(u, "exited")' <=> At(u, "exited"))
        /\ QueryOf(u)' = QueryOf(u) /\ Unfinished(u)' = Unfinished(u)
    BY <1>1 DEF OthersHold, Prepared, At, QueryOf, Unfinished
  <2>2. References(u)' = References(u)
    BY <2>1 DEF References
  <2>3. Holdings(u) /\ FactsOf(u) /\ Sizes /\ calls' \in Nat /\ Cardinality(Prepared(u)) \in Nat
    BY Facts, PreparedIsFinite DEF HoldingsInv, DatabaseInv, Types
  <2>4. References(u) \in Nat
    BY <2>3 DEF References
  <2>5. Referenced(u)'
    BY <1>1, <2>2, <2>3, <2>4 DEF Holdings, Referenced, OthersHold, Sizes
  <2>6. Cached(u)'
    BY <1>1, <2>1, <2>3 DEF Holdings, Cached, OthersHold
  <2>7. Measured(u)'
    <3>1. Unfinished(u) \in Nat
      BY DEF Unfinished
    <3>. QED
      BY <1>1, <2>1, <2>3, <3>1, SMTT(60) DEF Holdings, Measured, OthersHold, FactsOf, Sides, Histories, Sizes
  <2>. QED
    BY <2>5, <2>6, <2>7 DEF Holdings
<1>. QED
  BY <1>1 DEF HoldingsInv

\* A step that leaves the commands and the connection of t alone.
LEMMA SameReferences ==
  ASSUME DatabaseInv, HoldingsInv, NEW t \in Threads, calls' \in Nat, calls' >= calls,
         Prepared(t)' = Prepared(t),
         tls'[t].m_refCounter = tls[t].m_refCounter,
         tls'[t].m_connection = tls[t].m_connection,
         tls'[t].m_attachCount = tls[t].m_attachCount,
         tls'[t].m_linger = tls[t].m_linger,
         ("prepare" \in ghost'[t].faults) <=> ("prepare" \in ghost[t].faults),
         call[t][1] # "prepare", call'[t][1] # "prepare"
  PROVE  Referenced(t)'
<1>1. ~At(t, "prepare")' /\ ~At(t, "prepare")
  BY DEF At
<1>2. References(t)' = References(t)
  BY <1>1 DEF References
<1>3. Holdings(t) /\ FactsOf(t) /\ Sizes /\ Cardinality(Prepared(t)) \in Nat
  BY Facts, PreparedIsFinite DEF HoldingsInv
<1>4. References(t) \in Nat
  BY <1>3 DEF References
<1>. QED
  BY <1>1, <1>2, <1>3, <1>4 DEF Holdings, Referenced, Sizes

\* The facts about t that the proofs about its steps start from.
LEMMA HoldingFacts ==
  ASSUME DatabaseInv, HoldingsInv, NEW t \in Threads
  PROVE  /\ Holdings(t) /\ FactsOf(t) /\ Sizes /\ Connected(t)
         /\ tls[t] \in Connections /\ sql[t] \in Sides /\ ghost[t] \in Histories
         /\ sql[t].unsaved \in Nat /\ ghost[t].durable \in Nat /\ ghost[t].written \in Nat
         /\ tls[t].m_attachCount \in Nat /\ tls[t].m_refCounter \in Nat
         /\ calls \in Nat /\ Len(scopes[t]) \in Nat
<1>1. Holdings(t) /\ FactsOf(t) /\ Sizes /\ ThreadInv(t)
  BY Facts DEF HoldingsInv
<1>2. /\ tls[t] \in Connections /\ sql[t] \in Sides /\ ghost[t] \in Histories
      /\ sql[t].unsaved \in Nat /\ ghost[t].durable \in Nat /\ ghost[t].written \in Nat
      /\ tls[t].m_attachCount \in Nat /\ calls \in Nat /\ Len(scopes[t]) \in Nat
  BY <1>1 DEF FactsOf, Sides, Histories, Connections, Sizes
<1>3. tls[t].m_refCounter \in Nat
  <2>1. Cardinality(Prepared(t)) \in Nat
    BY PreparedIsFinite
  <2>2. References(t) \in Nat
    BY <2>1 DEF References
  <2>. QED
    BY <1>1, <1>2, <2>2 DEF Holdings, Referenced
<1>. QED
  BY <1>1, <1>2, <1>3 DEF ThreadInv

\* A step of t that prepares nothing and ends the statement it was in, if any.
LEMMA QuietHolds ==
  ASSUME DatabaseInv, HoldingsInv, DatabaseInv', NEW t \in Threads,
         OthersHold(t), calls' >= calls,
         Prepared(t)' = Prepared(t),
         tls'[t].m_refCounter = tls[t].m_refCounter,
         tls'[t].m_connection = tls[t].m_connection,
         tls'[t].m_attachCount = tls[t].m_attachCount,
         tls'[t].m_linger = tls[t].m_linger,
         ("prepare" \in ghost'[t].faults) <=> ("prepare" \in ghost[t].faults),
         call[t][1] # "prepare", call'[t][1] \notin {"prepare", "step", "exited"},
         Len(scopes'[t]) <= MaxScopes,
         sql'[t].unsaved + ghost'[t].durable <= calls',
         ghost'[t].written <= calls'
  PROVE  HoldingsInv'
<1>1. calls' \in Nat /\ Len(scopes'[t]) \in Nat
  BY DEF DatabaseInv, Types
<1>2. Referenced(t)'
  BY <1>1, SameReferences
<1>3. Cached(t)'
  BY DEF Cached, At
<1>4. Unfinished(t)' = 0
  BY DEF Unfinished
<1>5. /\ sql'[t].unsaved \in Nat /\ ghost'[t].durable \in Nat /\ ghost'[t].written \in Nat
  BY DEF DatabaseInv, Types, Sides, Histories
<1>6. Measured(t)'
  BY <1>1, <1>4, <1>5, HoldingFacts DEF Measured, Holdings
<1>. QED
  BY <1>2, <1>3, <1>6, ActorHolds DEF Holdings

LEMMA CatchHolds ==
  ASSUME DatabaseInv, HoldingsInv, DatabaseInv', NEW t \in Threads, Catch(t)
  PROVE  HoldingsInv'
<1>1. /\ call[t][1] = "throw" /\ call' = [call EXCEPT ![t] = <<"body">>]
      /\ UNCHANGED <<tls, command, scopes, calls, sql, ghost>>
  BY DEF Catch, At, Goto
<1>2. call'[t][1] = "body" /\ OthersHold(t) /\ calls' >= calls
  BY <1>1, HoldingFacts DEF DatabaseInv, Types, OthersHold
<1>3. Prepared(t)' = Prepared(t) /\ Unfinished(t) = 0
  BY <1>1 DEF Prepared, Unfinished
<1>. QED
  BY <1>1, <1>2, <1>3, HoldingFacts, QuietHolds DEF Holdings, Measured

LEMMA CommitRefusedHolds ==
  ASSUME DatabaseInv, HoldingsInv, DatabaseInv', NEW t \in Threads, CommitRefused(t)
  PROVE  HoldingsInv'
<1>1. /\ call[t][1] = "commit" /\ call' = [call EXCEPT ![t] = <<"throw">>]
      /\ UNCHANGED <<tls, command, scopes, calls, sql, ghost>>
  BY DEF CommitRefused, At, Goto
<1>2. call'[t][1] = "throw" /\ OthersHold(t) /\ calls' >= calls
  BY <1>1, HoldingFacts DEF DatabaseInv, Types, OthersHold
<1>3. Prepared(t)' = Prepared(t) /\ Unfinished(t) = 0
  BY <1>1 DEF Prepared, Unfinished
<1>. QED
  BY <1>1, <1>2, <1>3, HoldingFacts, QuietHolds DEF Holdings, Measured

LEMMA CommitFailsHolds ==
  ASSUME DatabaseInv, HoldingsInv, DatabaseInv', NEW t \in Threads, CommitFails(t)
  PROVE  HoldingsInv'
<1>1. /\ call[t][1] = "commit" /\ call' = [call EXCEPT ![t] = <<"throw">>]
      /\ calls' = calls + 1
      /\ ghost' = [ghost EXCEPT ![t].faults = @ \cup {"commit"}]
      /\ UNCHANGED <<tls, command, scopes, sql>>
  BY DEF CommitFails, At, Goto, Blame, Count
<1>2. call'[t][1] = "throw" /\ OthersHold(t) /\ calls' >= calls
  BY <1>1, HoldingFacts DEF DatabaseInv, Types, OthersHold
<1>3. Prepared(t)' = Prepared(t) /\ Unfinished(t) = 0
  BY <1>1 DEF Prepared, Unfinished
<1>4. /\ ghost'[t].faults = ghost[t].faults \cup {"commit"}
      /\ ghost'[t].durable = ghost[t].durable /\ ghost'[t].written = ghost[t].written
  BY <1>1, HoldingFacts DEF DatabaseInv, Types, Histories
<1>. QED
  BY <1>1, <1>2, <1>3, <1>4, HoldingFacts, QuietHolds DEF Holdings, Measured

LEMMA CommitWaitsHolds ==
  ASSUME DatabaseInv, HoldingsInv, DatabaseInv', NEW t \in Threads, CommitWaits(t)
  PROVE  HoldingsInv'
<1>1. /\ call[t][1] = "commit" /\ sql' = [sql EXCEPT ![t].lock = "pending"]
      /\ UNCHANGED <<tls, command, scopes, call, calls, ghost>>
  BY DEF CommitWaits, At
<1>2. OthersHold(t) /\ calls' >= calls /\ sql'[t].unsaved = sql[t].unsaved
  BY <1>1, HoldingFacts DEF DatabaseInv, Types, OthersHold, Sides
<1>3. Prepared(t)' = Prepared(t) /\ Unfinished(t) = 0
  BY <1>1 DEF Prepared, Unfinished
<1>. QED
  BY <1>1, <1>2, <1>3, HoldingFacts, QuietHolds DEF Holdings, Measured

LEMMA StepReadHolds ==
  ASSUME DatabaseInv, HoldingsInv, DatabaseInv', NEW t \in Threads, StepRead(t)
  PROVE  HoldingsInv'
<1>1. /\ call[t][1] = "step" /\ call' = [call EXCEPT ![t] = <<"body">>]
      /\ sql' = [sql EXCEPT ![t].lock = LockAfterRead(t)]
      /\ ghost' = ghost \/ ghost' = [ghost EXCEPT ![t].seen = "current"]
      /\ UNCHANGED <<tls, command, scopes, calls>>
  BY DEF StepRead, At, Goto
<1>2. /\ call'[t][1] = "body" /\ OthersHold(t) /\ calls' >= calls
      /\ sql'[t].unsaved = sql[t].unsaved
      /\ ghost'[t].durable = ghost[t].durable /\ ghost'[t].written = ghost[t].written
      /\ ghost'[t].faults = ghost[t].faults
  BY <1>1, HoldingFacts DEF DatabaseInv, Types, OthersHold, Sides, Histories
<1>3. Prepared(t)' = Prepared(t) /\ Unfinished(t) = 1
  BY <1>1 DEF Prepared, Unfinished
<1>. QED
  BY <1>1, <1>2, <1>3, HoldingFacts, QuietHolds DEF Holdings, Measured

LEMMA WriteIs ==
  ASSUME DatabaseInv, NEW t \in Threads
  PROVE  LET w == WriteOf(t)
         IN  /\ w \in [written : Nat, durable : Nat,
                       outcome : {"none", "open", "doomed", "committed", "rolledback"},
                       seen : {"nothing", "current", "stale"}, faults : SUBSET Faults]
             /\ w.written <= ghost[t].written + 1
             /\ w.durable = ghost[t].durable /\ w.faults = ghost[t].faults
<1>1. ghost[t] \in Histories
  BY DEF DatabaseInv, Types
<1>. QED
  BY <1>1 DEF WriteOf, Histories

LEMMA StepWriteHolds ==
  ASSUME DatabaseInv, HoldingsInv, DatabaseInv', NEW t \in Threads, StepWrite(t)
  PROVE  HoldingsInv'
<1>1. /\ call[t][1] = "step" /\ call' = [call EXCEPT ![t] = <<"body">>]
      /\ sql' = [sql EXCEPT ![t].unsaved = @ + 1,
                            ![t].lock = IF @ = "pending" THEN @ ELSE "reserved"]
      /\ ghost' = [ghost EXCEPT ![t] = WriteOf(t)]
      /\ UNCHANGED <<tls, command, scopes, calls>>
  BY DEF StepWrite, MayWrite, At, Goto
<1>2. /\ call'[t][1] = "body" /\ OthersHold(t) /\ calls' >= calls
      /\ sql'[t].unsaved = sql[t].unsaved + 1
      /\ ghost'[t] = WriteOf(t)
  BY <1>1, HoldingFacts DEF DatabaseInv, Types, OthersHold, Sides
<1>3. Prepared(t)' = Prepared(t) /\ Unfinished(t) = 1
  BY <1>1 DEF Prepared, Unfinished
<1>4. /\ ghost'[t].durable = ghost[t].durable /\ ghost'[t].faults = ghost[t].faults
      /\ ghost'[t].written <= ghost[t].written + 1 /\ ghost'[t].written \in Nat
  BY <1>2, WriteIs
<1>5. /\ sql'[t].unsaved + ghost'[t].durable <= calls' /\ ghost'[t].written <= calls'
      /\ Len(scopes'[t]) <= MaxScopes
  BY <1>1, <1>2, <1>3, <1>4, HoldingFacts DEF Holdings, Measured
<1>. QED
  BY <1>1, <1>2, <1>3, <1>4, <1>5, QuietHolds

LEMMA StepWriteAloneHolds ==
  ASSUME DatabaseInv, HoldingsInv, DatabaseInv', NEW t \in Threads, StepWriteAlone(t)
  PROVE  HoldingsInv'
<1>. DEFINE g == [WriteOf(t) EXCEPT !.durable = IF InScope(t) THEN @ + 1 ELSE @]
<1>1. /\ call[t][1] = "step" /\ call' = [call EXCEPT ![t] = <<"body">>]
      /\ Save(t, 1, g)
      /\ UNCHANGED <<tls, command, scopes, calls, sql>>
  BY DEF StepWriteAlone, MayWrite, At, Goto
<1>2. /\ call'[t][1] = "body" /\ OthersHold(t) /\ calls' >= calls
      /\ ghost'[t] = g
  BY <1>1, HoldingFacts DEF DatabaseInv, Types, OthersHold, Save, Histories
<1>3. Prepared(t)' = Prepared(t) /\ Unfinished(t) = 1
  BY <1>1 DEF Prepared, Unfinished
<1>4. /\ g.durable <= ghost[t].durable + 1 /\ g.faults = ghost[t].faults
      /\ g.written <= ghost[t].written + 1 /\ g.written \in Nat /\ g.durable \in Nat
  BY WriteIs, HoldingFacts
<1>. HIDE DEF g
<1>5. /\ sql'[t].unsaved + ghost'[t].durable <= calls' /\ ghost'[t].written <= calls'
      /\ Len(scopes'[t]) <= MaxScopes
  BY <1>1, <1>2, <1>3, <1>4, HoldingFacts DEF Holdings, Measured
<1>. QED
  BY <1>1, <1>2, <1>3, <1>4, <1>5, QuietHolds

LEMMA StepFailsHolds ==
  ASSUME DatabaseInv, HoldingsInv, DatabaseInv', NEW t \in Threads, StepFails(t)
  PROVE  HoldingsInv'
<1>1. /\ call[t][1] = "step" /\ call' = [call EXCEPT ![t] = <<"throw">>]
      /\ command' = [command EXCEPT ![t][QueryOf(t)] = "failed"]
      /\ calls' = calls + 1
      /\ UNCHANGED <<tls, scopes>>
      /\ \/ UNCHANGED <<sql, ghost>>
         \/ sql' = [sql EXCEPT ![t] = Idle] /\ ghost' = [ghost EXCEPT ![t].faults = @ \cup {"abort"}]
  BY DEF StepFails, At, Goto, Blame, Count
<1>2. call'[t][1] = "throw" /\ OthersHold(t) /\ calls' >= calls
  BY <1>1, HoldingFacts DEF DatabaseInv, Types, OthersHold
<1>3. /\ sql'[t].unsaved <= sql[t].unsaved /\ sql'[t].unsaved \in Nat
      /\ ghost'[t].durable = ghost[t].durable /\ ghost'[t].written = ghost[t].written
      /\ ghost'[t].faults \cup {"abort"} = ghost[t].faults \cup {"abort"}
  BY <1>1, HoldingFacts DEF DatabaseInv, Types, Sides, Histories, Idle
<1>4. Prepared(t)' = Prepared(t)
  <2>1. command[t] \in [Queries -> {"null", "ready", "failed"}] /\ command[t][QueryOf(t)] = "ready"
    BY <1>1, HoldingFacts DEF DatabaseInv, Types, Holdings, Cached, At
  <2>2. command'[t] = [command[t] EXCEPT ![QueryOf(t)] = "failed"]
    BY <1>1 DEF DatabaseInv, Types
  <2>3. QueryOf(t) \in Queries
    BY <1>1, CallsAre
  <2>. QED
    BY <2>1, <2>2, <2>3 DEF Prepared
<1>5. Unfinished(t) = 1
  BY <1>1 DEF Unfinished
<1>. QED
  BY <1>1, <1>2, <1>3, <1>4, <1>5, HoldingFacts, QuietHolds, SMTT(60) DEF Holdings, Measured

LEMMA CommitReturnsHolds ==
  ASSUME DatabaseInv, HoldingsInv, DatabaseInv', NEW t \in Threads, CommitReturns(t)
  PROVE  HoldingsInv'
<1>. DEFINE g == [Settled(t, ghost[t]) EXCEPT !.durable = @ + sql[t].unsaved]
<1>1. /\ call[t][1] = "commit" /\ call' = [call EXCEPT ![t] = <<"body">>]
      /\ sql' = [sql EXCEPT ![t] = Idle] /\ Save(t, sql[t].unsaved, g)
      /\ scopes' = [scopes EXCEPT ![t][Len(scopes[t])] = TRUE]
      /\ UNCHANGED <<tls, command, calls>>
  BY DEF CommitReturns, At, Goto, Mark
<1>2. /\ call'[t][1] = "body" /\ OthersHold(t) /\ calls' >= calls
      /\ sql'[t] = Idle /\ ghost'[t] = g
      /\ scopes'[t] = [scopes[t] EXCEPT ![Len(scopes[t])] = TRUE]
  BY <1>1, HoldingFacts DEF DatabaseInv, Types, OthersHold, Save, Histories
<1>3. Prepared(t)' = Prepared(t) /\ Unfinished(t) = 0
  BY <1>1 DEF Prepared, Unfinished
<1>4. g.durable = ghost[t].durable + sql[t].unsaved /\ g.faults = ghost[t].faults
      /\ g.written = ghost[t].written
  BY HoldingFacts DEF Settled, Histories
<1>5. Len(scopes'[t]) = Len(scopes[t])
  BY <1>2, HoldingFacts DEF FactsOf
<1>6. sql'[t].unsaved = 0
  BY <1>2 DEF Idle
<1>. HIDE DEF g
<1>7. /\ sql'[t].unsaved + ghost'[t].durable <= calls' /\ ghost'[t].written <= calls'
      /\ Len(scopes'[t]) <= MaxScopes
  BY <1>1, <1>2, <1>3, <1>4, <1>5, <1>6, HoldingFacts DEF Holdings, Measured
<1>. QED
  BY <1>1, <1>2, <1>3, <1>4, <1>7, QuietHolds

\* The depth is no business of the references.
LEMMA DepthAlone ==
  ASSUME NEW v \in Connections
  PROVE  /\ Begun(v).m_refCounter = v.m_refCounter /\ Begun(v).m_linger = v.m_linger
         /\ TransactionUnref(v).m_refCounter = v.m_refCounter
         /\ TransactionUnref(v).m_linger = v.m_linger
         /\ CancelledUnref(v).m_refCounter = v.m_refCounter
         /\ CancelledUnref(v).m_linger = v.m_linger
<1>1. /\ TransactionUnref(v).m_refCounter = v.m_refCounter
      /\ TransactionUnref(v).m_linger = v.m_linger
  BY DEF TransactionUnref, Connections
<1>2. /\ CancelledUnref(v).m_refCounter = TransactionUnref(v).m_refCounter
      /\ CancelledUnref(v).m_linger = TransactionUnref(v).m_linger
  BY UnrefIs DEF CancelledUnref, Connections
<1>3. Begun(v).m_refCounter = v.m_refCounter /\ Begun(v).m_linger = v.m_linger
  BY DEF Begun, Connections
<1>. QED
  BY <1>1, <1>2, <1>3

LEMMA BlamedCounts ==
  ASSUME DatabaseInv, NEW t \in Threads
  PROVE  /\ Blamed(t).written = ghost[t].written /\ Blamed(t).durable = ghost[t].durable
         /\ "prepare" \in Blamed(t).faults <=> "prepare" \in ghost[t].faults
BY Ours DEF Blamed, Histories, Faults

LEMMA OpenScopeHolds ==
  ASSUME DatabaseInv, HoldingsInv, DatabaseInv', NEW t \in Threads, OpenScope(t)
  PROVE  HoldingsInv'
<1>1. /\ call[t][1] = "body" /\ Len(scopes[t]) < MaxScopes /\ calls' = calls + 1
      /\ tls' = [tls EXCEPT ![t] = Begun(tls[t])]
      /\ command' = command
  BY DEF OpenScope, At, Count
<1>2. call' = [call EXCEPT ![t] = <<"throw">>] \/ call' = call
  BY DEF OpenScope, Goto
<1>3. /\ scopes' = scopes \/ scopes' = [scopes EXCEPT ![t] = Append(@, FALSE)]
      /\ sql' = sql \/ sql' = [sql EXCEPT ![t].open = @ \/ Begun(tls[t]).m_transactionDepth = 1]
  BY DEF OpenScope
<1>. DEFINE g == [ghost[t] EXCEPT !.written = 0, !.durable = 0,
                                 !.outcome = "open", !.seen = "nothing"]
<1>4. /\ ghost' = ghost \/ ghost' = [ghost EXCEPT ![t] = g]
      /\ g.faults = ghost[t].faults /\ g.durable = 0 /\ g.written = 0
  BY Ours DEF OpenScope, Histories
<1>. HIDE DEF g
<1>5. /\ tls'[t] = Begun(tls[t]) /\ call'[t][1] \in {"body", "throw"}
      /\ sql'[t].unsaved = sql[t].unsaved
  BY <1>1, <1>2, <1>3, Ours DEF DatabaseInv, Types, Sides
<1>6. /\ ghost'[t].faults = ghost[t].faults
      /\ ghost'[t].durable \in {0, ghost[t].durable} /\ ghost'[t].written \in {0, ghost[t].written}
  BY <1>4 DEF DatabaseInv, Types
<1>7. Len(scopes'[t]) <= MaxScopes
  <2>1. /\ scopes[t] \in Seq(BOOLEAN) /\ MaxScopes \in Nat
        /\ scopes'[t] = scopes[t] \/ scopes'[t] = Append(scopes[t], FALSE)
    BY <1>3, Ours, DatabaseAssumption DEF DatabaseInv, Types
  <2>2. Len(Append(scopes[t], FALSE)) = Len(scopes[t]) + 1
    BY <2>1, ItemAppended
  <2>3. Len(scopes'[t]) = Len(scopes[t]) \/ Len(scopes'[t]) = Len(scopes[t]) + 1
    BY <2>1, <2>2
  <2>. QED
    BY <1>1, <2>1, <2>3, HoldingFacts
<1>8. OthersHold(t) /\ calls' >= calls
  <2>1. \A u \in Threads : u # t => sql'[u] = sql[u] /\ scopes'[u] = scopes[u]
    BY <1>3 DEF DatabaseInv, Types
  <2>2. \A u \in Threads : u # t => ghost'[u] = ghost[u] /\ call'[u] = call[u] /\ tls'[u] = tls[u]
    BY <1>1, <1>2, <1>4 DEF DatabaseInv, Types
  <2>. QED
    BY <1>1, <2>1, <2>2, Ours DEF OthersHold
<1>9. Prepared(t)' = Prepared(t) /\ Unfinished(t) = 0
  BY <1>1 DEF Prepared, Unfinished
<1>10. sql'[t].unsaved + ghost'[t].durable <= calls' /\ ghost'[t].written <= calls'
  BY <1>1, <1>5, <1>6, <1>9, HoldingFacts DEF Holdings, Measured
<1>11. /\ tls'[t].m_refCounter = tls[t].m_refCounter /\ tls'[t].m_connection = tls[t].m_connection
       /\ tls'[t].m_attachCount = tls[t].m_attachCount /\ tls'[t].m_linger = tls[t].m_linger
  BY <1>5, Ours, BegunIs, DepthAlone
<1>. QED
  BY <1>1, <1>5, <1>6, <1>7, <1>8, <1>9, <1>10, <1>11, QuietHolds

LEMMA CommitHolds ==
  ASSUME DatabaseInv, HoldingsInv, DatabaseInv', NEW t \in Threads, Commit(t)
  PROVE  HoldingsInv'
<1>1. /\ call[t][1] = "body" /\ InScope(t) /\ command' = command
      /\ tls' = [tls EXCEPT ![t] = TransactionUnref(tls[t])]
      /\ calls' = calls \/ calls' = calls + 1
  BY DEF Commit, Working, At, Count
<1>2. /\ call' = call \/ call' = [call EXCEPT ![t] = <<"throw">>]
         \/ call' = [call EXCEPT ![t] = <<"commit">>]
      /\ scopes' = scopes \/ Mark(t)
      /\ sql' = sql \/ sql' = [sql EXCEPT ![t] = Idle]
  BY DEF Commit, Goto, Rollback
<1>3. ghost' = [ghost EXCEPT ![t] = Blamed(t)] \/ ghost' = [ghost EXCEPT ![t] = Settled(t, Blamed(t))]
  BY DEF Commit
<1>4. /\ tls'[t] = TransactionUnref(tls[t]) /\ call'[t][1] \in {"body", "throw", "commit"}
      /\ sql'[t].unsaved \in {0, sql[t].unsaved}
  BY <1>1, <1>2 DEF DatabaseInv, Types, Idle
<1>5. /\ ghost'[t].written = ghost[t].written /\ ghost'[t].durable = ghost[t].durable
      /\ "prepare" \in ghost'[t].faults <=> "prepare" \in ghost[t].faults
  <2>1. ghost'[t] = Blamed(t) \/ ghost'[t] = Settled(t, Blamed(t))
    BY <1>3 DEF DatabaseInv, Types
  <2>2. /\ Settled(t, Blamed(t)).faults = Blamed(t).faults
        /\ Settled(t, Blamed(t)).written = Blamed(t).written
        /\ Settled(t, Blamed(t)).durable = Blamed(t).durable
    BY BlamedIs, SettledIs
  <2>. QED
    BY <2>1, <2>2, BlamedCounts
<1>6. OthersHold(t) /\ calls' >= calls
  BY <1>1, <1>2, <1>3, HoldingFacts DEF DatabaseInv, Types, OthersHold, Mark
<1>7. Len(scopes'[t]) = Len(scopes[t])
  <2>1. CASE scopes' = scopes BY <2>1
  <2>2. CASE Mark(t)
    <3>1. Len(Marked(t)) = Len(scopes[t]) /\ scopes' = [scopes EXCEPT ![t] = Marked(t)]
      BY <1>1, <2>2, MarkedIs
    <3>. QED
      BY <3>1 DEF DatabaseInv, Types
  <2>. QED
    BY <1>2, <2>1, <2>2
<1>8. Prepared(t)' = Prepared(t) /\ Unfinished(t) = 0
  BY <1>1 DEF Prepared, Unfinished
<1>9. /\ sql'[t].unsaved + ghost'[t].durable <= calls' /\ ghost'[t].written <= calls'
      /\ Len(scopes'[t]) <= MaxScopes
  BY <1>1, <1>4, <1>5, <1>7, <1>8, HoldingFacts DEF Holdings, Measured
<1>10. /\ tls'[t].m_refCounter = tls[t].m_refCounter /\ tls'[t].m_connection = tls[t].m_connection
       /\ tls'[t].m_attachCount = tls[t].m_attachCount /\ tls'[t].m_linger = tls[t].m_linger
  BY <1>4, Ours, UnrefIs, DepthAlone
<1>. QED
  BY <1>1, <1>4, <1>5, <1>6, <1>8, <1>9, <1>10, QuietHolds

LEMMA LeaveScopeHolds ==
  ASSUME DatabaseInv, HoldingsInv, DatabaseInv', NEW t \in Threads, LeaveScope(t)
  PROVE  HoldingsInv'
<1>1. /\ call[t][1] \in {"body", "throw"} /\ InScope(t)
      /\ command' = command /\ calls' = calls
      /\ scopes' = [scopes EXCEPT ![t] = Front(scopes[t])]
  BY DEF LeaveScope
<1>2. /\ tls' = tls \/ tls' = [tls EXCEPT ![t] = CancelledUnref(tls[t])]
      /\ sql' = sql \/ sql' = [sql EXCEPT ![t] = Idle]
      /\ call' = call \/ \E where \in {"terminated", "throw"} : call' = [call EXCEPT ![t] = <<where>>]
  BY DEF LeaveScope, Rollback, Goto
<1>3. PICK g \in Histories : /\ ghost' = [ghost EXCEPT ![t] = g]
                             /\ g.written = ghost[t].written /\ g.durable = ghost[t].durable
                             /\ g.faults = ghost[t].faults
  <2>. DEFINE seen == IF Len(scopes[t]) = 1 THEN "nothing" ELSE ghost[t].seen
              outcome == IF Len(scopes[t]) = 1 THEN "rolledback"
                         ELSE IF ghost[t].outcome = "open" THEN "doomed" ELSE ghost[t].outcome
              g == [ghost[t] EXCEPT !.seen = seen, !.outcome = outcome]
  <2>1. ghost' = ghost \/ ghost' = [ghost EXCEPT ![t] = g]
    BY Ours DEF LeaveScope
  <2>2. /\ g \in Histories /\ g.written = ghost[t].written /\ g.durable = ghost[t].durable
        /\ g.faults = ghost[t].faults
    BY Ours DEF Histories
  <2>. HIDE DEF g
  <2>. QED
    BY <2>1, <2>2, Ours, Unchanged
<1>4. /\ tls'[t] = tls[t] \/ tls'[t] = CancelledUnref(tls[t])
      /\ call'[t][1] \in {"body", "throw", "terminated"}
      /\ sql'[t].unsaved \in {0, sql[t].unsaved}
  BY <1>1, <1>2 DEF DatabaseInv, Types, Idle
<1>5. /\ ghost'[t].written = ghost[t].written /\ ghost'[t].durable = ghost[t].durable
      /\ ghost'[t].faults = ghost[t].faults
  BY <1>3 DEF DatabaseInv, Types
<1>6. OthersHold(t) /\ calls' >= calls
  <2>1. \A u \in Threads : u # t => sql'[u] = sql[u] /\ scopes'[u] = scopes[u]
    BY <1>1, <1>2 DEF DatabaseInv, Types
  <2>2. \A u \in Threads : u # t => ghost'[u] = ghost[u] /\ call'[u] = call[u] /\ tls'[u] = tls[u]
    BY <1>2, <1>3 DEF DatabaseInv, Types
  <2>. QED
    BY <1>1, <2>1, <2>2, Ours DEF OthersHold
<1>7. Len(scopes'[t]) = Len(scopes[t]) - 1
  <2>1. Len(Front(scopes[t])) = Len(scopes[t]) - 1
    BY <1>1, Ours, LastRemoved DEF InScope
  <2>. QED
    BY <1>1, <2>1 DEF DatabaseInv, Types
<1>8. Prepared(t)' = Prepared(t) /\ Unfinished(t) = 0
  BY <1>1 DEF Prepared, Unfinished
<1>9. /\ sql'[t].unsaved + ghost'[t].durable <= calls' /\ ghost'[t].written <= calls'
      /\ Len(scopes'[t]) <= MaxScopes
  BY <1>1, <1>4, <1>5, <1>7, <1>8, HoldingFacts, DatabaseAssumption DEF Holdings, Measured
<1>10. /\ tls'[t].m_refCounter = tls[t].m_refCounter /\ tls'[t].m_connection = tls[t].m_connection
       /\ tls'[t].m_attachCount = tls[t].m_attachCount /\ tls'[t].m_linger = tls[t].m_linger
  BY <1>4, Ours, UnrefIs, DepthAlone
<1>. QED
  BY <1>1, <1>4, <1>5, <1>6, <1>8, <1>9, <1>10, QuietHolds

\* The connection of t becomes v; its commands, scopes and history stay.
LEMMA AttachHolds ==
  ASSUME DatabaseInv, HoldingsInv, DatabaseInv', NEW t \in Threads, AttachToThread(t)
  PROVE  HoldingsInv'
<1>1. /\ call[t][1] = "body" /\ tls[t].m_attachCount < MaxAttach
      /\ UNCHANGED <<command, scopes, call, calls, sql>>
  BY DEF AttachToThread, At
<1>2. Prepared(t)' = Prepared(t) /\ Unfinished(t)' = 0 /\ Unfinished(t) = 0
      /\ ~At(t, "prepare") /\ ~At(t, "step") /\ ~At(t, "exited")
      /\ ~At(t, "prepare")' /\ ~At(t, "step")' /\ ~At(t, "exited")'
  BY <1>1 DEF Prepared, Unfinished, At
<1>3. References(t)' = References(t) /\ References(t) \in Nat
  BY <1>2, PreparedIsFinite DEF References
<1>4. Cached(t)'
  BY <1>2 DEF Cached
<1>5. CASE tls[t].m_connection
  <2>1. /\ tls' = [tls EXCEPT ![t].m_linger = FALSE, ![t].m_attachCount = @ + 1]
        /\ ghost' = ghost
    BY <1>5 DEF AttachToThread
  <2>2. /\ tls'[t].m_attachCount = tls[t].m_attachCount + 1
        /\ tls'[t].m_connection = tls[t].m_connection /\ tls'[t].m_refCounter = tls[t].m_refCounter
    BY <2>1, Ours DEF DatabaseInv, Types, Connections
  <2>3. OthersHold(t)
    BY <1>1, <2>1 DEF OthersHold, DatabaseInv, Types
  <2>4. Referenced(t)'
    <3>1. ghost' = ghost /\ calls' = calls /\ tls'[t].m_attachCount # 0
      BY <1>1, <2>1, <2>2, HoldingFacts
    <3>. QED
      BY <1>3, <1>5, <2>2, <3>1, HoldingFacts DEF Holdings, Referenced
  <2>5. Measured(t)'
    BY <1>1, <1>2, <2>1, <2>2, HoldingFacts, DatabaseAssumption DEF Holdings, Measured
  <2>. QED
    BY <1>1, <1>4, <2>3, <2>4, <2>5, HoldingFacts, ActorHolds DEF Holdings
<1>6. CASE ~tls[t].m_connection
  <2>1. /\ tls' = [tls EXCEPT ![t] = [Closed EXCEPT !.m_connection = TRUE, !.m_attachCount = 1]]
        /\ ghost' = [ghost EXCEPT ![t] = NoHistory]
    BY <1>6 DEF AttachToThread
  <2>2. /\ tls'[t].m_attachCount = 1 /\ tls'[t].m_connection /\ tls'[t].m_refCounter = 0
        /\ ghost'[t] = NoHistory
    BY <2>1 DEF DatabaseInv, Types, Closed
  <2>3. OthersHold(t)
    BY <1>1, <2>1 DEF OthersHold, DatabaseInv, Types
  <2>4. References(t) = 0
    BY <1>3, <1>6, HoldingFacts DEF Holdings, Referenced
  <2>5. Referenced(t)'
    BY <1>1, <1>3, <2>2, <2>4, HoldingFacts DEF Referenced
  <2>6. Measured(t)'
    BY <1>1, <1>2, <2>2, HoldingFacts, DatabaseAssumption DEF Holdings, Measured, NoHistory
  <2>. QED
    BY <1>1, <1>4, <2>3, <2>5, <2>6, HoldingFacts, ActorHolds DEF Holdings
<1>. QED
  BY <1>5, <1>6

\* What Keep leaves of the connection, once v has been checked.
LEMMA KeepHolds ==
  ASSUME DatabaseInv, HoldingsInv, DatabaseInv', NEW t \in Threads, NEW v,
         Keep(t, v), UNCHANGED <<scopes, calls, ghost>>,
         \A u \in Threads : u # t => command'[u] = command[u] /\ call'[u] = call[u],
         call[t][1] = "body", call'[t][1] \in {"body", "exited"},
         v.m_attachCount \in Nat /\ v.m_attachCount <= tls[t].m_attachCount,
         References(t)' = 0 \/ v.m_connection, Referenced(t)', Cached(t)'
  PROVE  HoldingsInv'
<1>1. /\ tls' = [tls EXCEPT ![t] = v]
      /\ sql' = sql \/ sql' = [sql EXCEPT ![t] = Idle]
  BY DEF Keep
<1>2. tls'[t] = v /\ sql'[t].unsaved \in {0, sql[t].unsaved}
  BY <1>1 DEF DatabaseInv, Types, Idle
<1>3. OthersHold(t)
  <2>1. \A u \in Threads : u # t => tls'[u] = tls[u] /\ sql'[u] = sql[u]
    BY <1>1 DEF DatabaseInv, Types
  <2>. QED
    BY <2>1 DEF OthersHold
<1>4. Unfinished(t) = 0 /\ Unfinished(t)' = 0
  BY DEF Unfinished
<1>5. Measured(t)'
  BY <1>2, <1>4, HoldingFacts, DatabaseAssumption DEF Holdings, Measured
<1>. QED
  BY <1>3, <1>5, HoldingFacts, ActorHolds DEF Holdings

LEMMA DetachHolds ==
  ASSUME DatabaseInv, HoldingsInv, DatabaseInv', NEW t \in Threads, DetachFromThread(t)
  PROVE  HoldingsInv'
<1>. DEFINE v == [tls[t] EXCEPT !.m_attachCount = @ - 1]
            z == [v EXCEPT !.m_linger = TRUE]
            w == IF v.m_attachCount > 0 THEN v ELSE CheckedConnectionDelete(z)
<1>1. /\ call[t][1] = "body" /\ tls[t].m_attachCount > 0 /\ Keep(t, w)
      /\ UNCHANGED <<command, scopes, call, calls, ghost>>
  BY DEF DetachFromThread, At
<1>2. /\ v.m_attachCount = tls[t].m_attachCount - 1 /\ v.m_connection = tls[t].m_connection
      /\ v.m_refCounter = tls[t].m_refCounter
      /\ z.m_attachCount = v.m_attachCount /\ z.m_connection = v.m_connection
      /\ z.m_refCounter = v.m_refCounter /\ z.m_linger = TRUE
  BY Ours DEF Connections
<1>3. tls[t].m_connection = TRUE /\ v.m_attachCount \in Nat /\ tls[t].m_refCounter \in Nat
  <2>1. tls[t].m_connection
    BY <1>1, HoldingFacts DEF Connected
  <2>2. tls[t].m_connection \in BOOLEAN
    BY Ours DEF Connections
  <2>. QED
    BY <1>1, <1>2, <2>1, <2>2, HoldingFacts
<1>. HIDE DEF v, z
<1>4. \/ w = v /\ v.m_attachCount > 0
      \/ w = z /\ z.m_refCounter > 0 /\ z.m_attachCount = 0
      \/ w = Closed /\ z.m_refCounter = 0
  BY <1>1, <1>2, HoldingFacts DEF CheckedConnectionDelete
<1>. HIDE DEF w
<1>5. Prepared(t)' = Prepared(t)
      /\ ~At(t, "prepare") /\ ~At(t, "step") /\ ~At(t, "exited")
      /\ ~At(t, "prepare")' /\ ~At(t, "step")' /\ ~At(t, "exited")'
  BY <1>1 DEF Prepared, At
<1>6. References(t)' = References(t) /\ References(t) \in Nat
  BY <1>5, PreparedIsFinite DEF References
<1>7. Cached(t)'
  BY <1>5 DEF Cached
<1>8. tls'[t] = w
  BY <1>1 DEF Keep, DatabaseInv, Types
<1>9. /\ w.m_attachCount \in Nat /\ w.m_attachCount <= tls[t].m_attachCount
      /\ w.m_refCounter = tls[t].m_refCounter
      /\ w.m_attachCount = 0 /\ w.m_connection => w.m_linger /\ w.m_refCounter > 0
      /\ ~w.m_connection => w.m_refCounter = 0
  <2>1. /\ Closed.m_attachCount = 0 /\ Closed.m_refCounter = 0 /\ Closed.m_connection = FALSE
    BY DEF Closed
  <2>2. tls[t].m_attachCount \in Nat
    BY HoldingFacts
  <2>3. w.m_attachCount \in Nat /\ w.m_attachCount <= tls[t].m_attachCount
    BY <1>2, <1>3, <1>4, <2>1, <2>2
  <2>4. w.m_refCounter = tls[t].m_refCounter
    BY <1>2, <1>4, <2>1
  <2>5. w.m_attachCount = 0 /\ w.m_connection => w.m_linger /\ w.m_refCounter > 0
    BY <1>2, <1>3, <1>4, <2>1
  <2>6. ~w.m_connection => w.m_refCounter = 0
    BY <1>2, <1>3, <1>4, <2>1
  <2>. QED
    BY <2>3, <2>4, <2>5, <2>6
<1>10. Referenced(t)'
  BY <1>1, <1>6, <1>8, <1>9, HoldingFacts DEF Holdings, Referenced
<1>11. References(t)' = 0 \/ w.m_connection
  BY <1>6, <1>9, HoldingFacts DEF Holdings, Referenced
<1>. QED
  BY <1>1, <1>7, <1>9, <1>10, <1>11, KeepHolds

LEMMA ExitHolds ==
  ASSUME DatabaseInv, HoldingsInv, DatabaseInv', NEW t \in Threads, ExitThread(t)
  PROVE  HoldingsInv'
<1>. DEFINE n == Cardinality(Prepared(t))
            v == [tls[t] EXCEPT !.m_refCounter = @ - n]
            w == Freed(tls[t], n)
<1>1. /\ call[t][1] = "body" /\ Keep(t, w)
      /\ command' = [command EXCEPT ![t] = [q \in Queries |-> "null"]]
      /\ call' = [call EXCEPT ![t] = <<"exited">>]
      /\ UNCHANGED <<scopes, calls, ghost>>
  BY DEF ExitThread, At, Goto, Prepared
<1>2. n \in Nat
  BY PreparedIsFinite
<1>3. n <= tls[t].m_refCounter /\ ("prepare" \notin ghost[t].faults => tls[t].m_refCounter = n)
  <2>1. References(t) = n
    BY <1>1, <1>2 DEF References, At
  <2>. QED
    BY <1>2, <2>1, HoldingFacts DEF Holdings, Referenced
<1>. HIDE DEF n
<1>4. /\ v.m_attachCount = tls[t].m_attachCount /\ v.m_connection = tls[t].m_connection
      /\ v.m_refCounter = tls[t].m_refCounter - n /\ v.m_linger = tls[t].m_linger
  BY Ours DEF Connections
<1>. HIDE DEF v
<1>5. w = IF n > 0 /\ v.m_linger THEN CheckedConnectionDelete(v) ELSE v
  BY DEF Freed, v
<1>6. \/ w = v /\ (n = 0 \/ v.m_refCounter > 0 \/ v.m_attachCount > 0 \/ ~v.m_linger)
      \/ w = Closed /\ v.m_refCounter = 0 /\ v.m_attachCount = 0
  BY <1>2, <1>3, <1>4, <1>5, HoldingFacts DEF CheckedConnectionDelete
<1>. HIDE DEF w
<1>7. tls'[t] = w /\ call'[t][1] = "exited"
  BY <1>1 DEF Keep, DatabaseInv, Types
<1>8. Prepared(t)' = {}
  BY <1>1 DEF Prepared, DatabaseInv, Types
<1>9. References(t)' = 0
  BY <1>7, <1>8, FS_EmptySet DEF References, At
<1>10. Cached(t)'
  BY <1>7, <1>8 DEF Cached, At
<1>11. tls[t].m_connection /\ tls[t].m_attachCount = 0 => tls[t].m_linger /\ tls[t].m_refCounter > 0
  BY HoldingFacts DEF Holdings, Referenced
<1>12. /\ w.m_attachCount \in Nat /\ w.m_attachCount <= tls[t].m_attachCount
       /\ w.m_refCounter = tls[t].m_refCounter - n
       /\ w.m_attachCount = 0 /\ w.m_connection => w.m_linger /\ w.m_refCounter > 0
  BY <1>2, <1>3, <1>4, <1>6, <1>11, HoldingFacts DEF Closed
<1>13. ~w.m_connection => w.m_refCounter = 0
  <2>1. ~tls[t].m_connection => tls[t].m_refCounter = 0
    BY HoldingFacts DEF Holdings, Referenced
  <2>. QED
    BY <1>2, <1>3, <1>4, <1>6, <2>1 DEF Closed
<1>14. w.m_refCounter \in 0..calls
  <2>1. tls[t].m_refCounter <= calls
    BY <1>2, HoldingFacts DEF Holdings, Referenced
  <2>. QED
    BY <1>2, <1>3, <1>12, <2>1, HoldingFacts
<1>15. Referenced(t)'
  BY <1>1, <1>2, <1>3, <1>7, <1>9, <1>12, <1>13, <1>14 DEF Referenced
<1>16. \A u \in Threads : u # t => command'[u] = command[u] /\ call'[u] = call[u]
  BY <1>1 DEF DatabaseInv, Types
<1>. QED
  BY <1>1, <1>7, <1>9, <1>10, <1>12, <1>15, <1>16, KeepHolds

LEMMA ExecuteHolds ==
  ASSUME DatabaseInv, HoldingsInv, DatabaseInv', NEW t \in Threads, NEW q \in Queries,
         Execute(t, q)
  PROVE  HoldingsInv'
<1>1. /\ call[t][1] = "body" /\ tls[t].m_attachCount > 0 /\ calls' = calls + 1
      /\ UNCHANGED <<command, scopes, sql>>
      /\ ghost' = [ghost EXCEPT ![t] = Blamed(t)]
  BY DEF Execute, Working, At, Count
<1>2. \/ /\ command[t][q] = "null" /\ call' = [call EXCEPT ![t] = <<"prepare", q>>]
         /\ tls' = [tls EXCEPT ![t].m_refCounter = @ + 1]
      \/ /\ command[t][q] = "ready" /\ call' = [call EXCEPT ![t] = <<"step", q>>]
         /\ tls' = tls
      \/ call' = [call EXCEPT ![t] = <<"throw">>] /\ tls' = tls
  BY DEF Execute, AllocDataCommand, Run, Goto
<1>3. /\ ghost'[t].written = ghost[t].written /\ ghost'[t].durable = ghost[t].durable
      /\ "prepare" \in ghost'[t].faults <=> "prepare" \in ghost[t].faults
  <2>1. ghost'[t] = Blamed(t)
    BY <1>1 DEF DatabaseInv, Types
  <2>. QED
    BY <2>1, BlamedCounts
<1>4. OthersHold(t) /\ calls' >= calls
  BY <1>1, <1>2, HoldingFacts DEF DatabaseInv, Types, OthersHold
<1>5. Prepared(t)' = Prepared(t) /\ Unfinished(t) = 0 /\ Unfinished(t)' \in {0, 1}
  BY <1>1 DEF Prepared, Unfinished
<1>6. Cardinality(Prepared(t)) \in Nat /\ References(t) = Cardinality(Prepared(t))
  BY <1>1, PreparedIsFinite DEF References, At
<1>7. /\ tls'[t].m_attachCount = tls[t].m_attachCount
      /\ tls'[t].m_connection = tls[t].m_connection
      /\ tls'[t].m_refCounter \in {tls[t].m_refCounter, tls[t].m_refCounter + 1}
  BY <1>2, Ours, SMTT(60) DEF DatabaseInv, Types, Connections
<1>8. Measured(t)'
  BY <1>1, <1>3, <1>5, <1>7, HoldingFacts, DatabaseAssumption DEF Holdings, Measured
<1>9. Cached(t)'
  BY <1>1, <1>2 DEF Cached, At, QueryOf, DatabaseInv, Types
<1>10. Referenced(t)'
  <2>1. tls'[t].m_refCounter - tls[t].m_refCounter = References(t)' - References(t)
        /\ References(t)' >= References(t) /\ References(t)' \in Nat
    <3>1. CASE call'[t] = <<"prepare", q>> /\ tls'[t].m_refCounter = tls[t].m_refCounter + 1
      BY <3>1, <1>5, <1>6, HoldingFacts DEF References, At
    <3>2. CASE call'[t][1] \in {"step", "throw"} /\ tls' = tls
      BY <3>2, <1>5, <1>6, HoldingFacts DEF References, At
    <3>. QED
      BY <1>2, <3>1, <3>2, Ours DEF DatabaseInv, Types, Connections
  <2>2. tls[t].m_connection
    BY <1>1, HoldingFacts DEF Connected
  <2>3. tls'[t].m_refCounter \in References(t)'..calls'
    BY <1>1, <1>6, <1>7, <2>1, HoldingFacts DEF Holdings, Referenced
  <2>4. "prepare" \notin ghost'[t].faults => tls'[t].m_refCounter = References(t)'
    BY <1>3, <1>6, <1>7, <2>1, HoldingFacts DEF Holdings, Referenced
  <2>. QED
    BY <1>1, <1>7, <2>2, <2>3, <2>4 DEF Referenced
<1>. QED
  BY <1>4, <1>8, <1>9, <1>10, ActorHolds DEF Holdings

LEMMA PrepareReturnsHolds ==
  ASSUME DatabaseInv, HoldingsInv, DatabaseInv', NEW t \in Threads, PrepareReturns(t)
  PROVE  HoldingsInv'
<1>. DEFINE q == QueryOf(t)
<1>1. /\ call[t][1] = "prepare" /\ q \in Queries
      /\ command' = [command EXCEPT ![t][q] = "ready"]
      /\ call' = [call EXCEPT ![t] = <<"step", q>>]
      /\ UNCHANGED <<tls, scopes, calls, sql, ghost>>
  BY CallsAre DEF PrepareReturns, At, Run
<1>2. command[t][q] = "null"
  BY <1>1, HoldingFacts DEF Holdings, Cached, At
<1>3. command'[t] = [command[t] EXCEPT ![q] = "ready"] /\ call'[t] = <<"step", q>>
      /\ command[t] \in [Queries -> {"null", "ready", "failed"}]
  BY <1>1 DEF DatabaseInv, Types
<1>4. OthersHold(t) /\ calls' >= calls
  BY <1>1, HoldingFacts DEF DatabaseInv, Types, OthersHold
<1>. HIDE DEF q
<1>5. Prepared(t)' = Prepared(t) \cup {q} /\ q \notin Prepared(t)
  BY <1>1, <1>2, <1>3 DEF Prepared
<1>6. Cardinality(Prepared(t)') = Cardinality(Prepared(t)) + 1 /\ Cardinality(Prepared(t)) \in Nat
  BY <1>5, PreparedIsFinite, FS_AddElement
<1>7. References(t)' = References(t)
  BY <1>1, <1>3, <1>6 DEF References, At
<1>8. Referenced(t)'
  BY <1>1, <1>7, HoldingFacts DEF Holdings, Referenced
<1>9. Cached(t)'
  BY <1>1, <1>3 DEF Cached, At, QueryOf
<1>10. Unfinished(t)' = Unfinished(t)
  BY <1>1, <1>3 DEF Unfinished
<1>11. Measured(t)'
  BY <1>1, <1>10, HoldingFacts DEF Holdings, Measured
<1>. QED
  BY <1>4, <1>8, <1>9, <1>11, ActorHolds DEF Holdings

LEMMA PrepareFailsHolds ==
  ASSUME DatabaseInv, HoldingsInv, DatabaseInv', NEW t \in Threads, PrepareFails(t)
  PROVE  HoldingsInv'
<1>1. /\ call[t][1] = "prepare" /\ call' = [call EXCEPT ![t] = <<"throw">>]
      /\ calls' = calls + 1
      /\ ghost' = [ghost EXCEPT ![t].faults = @ \cup {"prepare"}]
      /\ UNCHANGED <<tls, command, scopes, sql>>
  BY DEF PrepareFails, At, Goto, Blame, Count
<1>2. OthersHold(t) /\ calls' >= calls
  BY <1>1, HoldingFacts DEF DatabaseInv, Types, OthersHold
<1>3. call'[t][1] = "throw" /\ Prepared(t)' = Prepared(t) /\ Unfinished(t) = 1 /\ Unfinished(t)' = 0
  BY <1>1 DEF DatabaseInv, Types, Prepared, Unfinished
<1>4. /\ "prepare" \in ghost'[t].faults
      /\ ghost'[t].durable = ghost[t].durable /\ ghost'[t].written = ghost[t].written
  BY <1>1, Ours DEF DatabaseInv, Types, Histories
<1>5. /\ References(t) = Cardinality(Prepared(t)) + 1 /\ References(t)' = Cardinality(Prepared(t))
      /\ Cardinality(Prepared(t)) \in Nat
  BY <1>1, <1>3, PreparedIsFinite DEF References, At
<1>6. Referenced(t)'
  BY <1>1, <1>4, <1>5, HoldingFacts DEF Holdings, Referenced
<1>7. Cached(t)'
  BY <1>3 DEF Cached, At
<1>8. Measured(t)'
  BY <1>1, <1>3, <1>4, HoldingFacts DEF Holdings, Measured
<1>. QED
  BY <1>2, <1>6, <1>7, <1>8, ActorHolds DEF Holdings

LEMMA StepKeepsHoldings ==
  ASSUME DatabaseInv, HoldingsInv, [Next]_vars
  PROVE  HoldingsInv'
<1>0. DatabaseInv'
  BY StepKeepsInv
<1>1. ASSUME NEW t \in Threads,
             \/ AttachToThread(t) \/ DetachFromThread(t) \/ ExitThread(t)
             \/ \E q \in Queries : Execute(t, q)
             \/ PrepareFails(t) \/ StepFails(t) \/ CommitFails(t)
             \/ OpenScope(t) \/ Commit(t) \/ Catch(t)
             \/ Progress(t)
      PROVE  HoldingsInv'
  <2>1. CASE AttachToThread(t) BY <1>0, <2>1, AttachHolds
  <2>2. CASE DetachFromThread(t) BY <1>0, <2>2, DetachHolds
  <2>3. CASE ExitThread(t) BY <1>0, <2>3, ExitHolds
  <2>4. CASE \E q \in Queries : Execute(t, q) BY <1>0, <2>4, ExecuteHolds
  <2>5. CASE PrepareFails(t) BY <1>0, <2>5, PrepareFailsHolds
  <2>6. CASE StepFails(t) BY <1>0, <2>6, StepFailsHolds
  <2>7. CASE CommitFails(t) BY <1>0, <2>7, CommitFailsHolds
  <2>8. CASE OpenScope(t) BY <1>0, <2>8, OpenScopeHolds
  <2>9. CASE Commit(t) BY <1>0, <2>9, CommitHolds
  <2>10. CASE Catch(t) BY <1>0, <2>10, CatchHolds
  <2>11. CASE PrepareReturns(t) BY <1>0, <2>11, PrepareReturnsHolds
  <2>12. CASE StepRead(t) BY <1>0, <2>12, StepReadHolds
  <2>13. CASE StepWrite(t) BY <1>0, <2>13, StepWriteHolds
  <2>14. CASE StepWriteAlone(t) BY <1>0, <2>14, StepWriteAloneHolds
  <2>15. CASE CommitReturns(t) BY <1>0, <2>15, CommitReturnsHolds
  <2>16. CASE CommitWaits(t) BY <1>0, <2>16, CommitWaitsHolds
  <2>17. CASE CommitRefused(t) BY <1>0, <2>17, CommitRefusedHolds
  <2>18. CASE LeaveScope(t) BY <1>0, <2>18, LeaveScopeHolds
  <2>. QED
    BY <1>1, <2>1, <2>2, <2>3, <2>4, <2>5, <2>6, <2>7, <2>8, <2>9, <2>10, <2>11, <2>12, <2>13,
       <2>14, <2>15, <2>16, <2>17, <2>18 DEF Progress
<1>2. CASE Next
  BY <1>1, <1>2 DEF Next
<1>3. CASE UNCHANGED vars
  <2>1. \A t \in Threads : Prepared(t)' = Prepared(t) /\ QueryOf(t)' = QueryOf(t)
                           /\ Unfinished(t)' = Unfinished(t)
                           /\ \A where : At(t, where)' <=> At(t, where)
    BY <1>3 DEF vars, Prepared, QueryOf, Unfinished, At
  <2>2. \A t \in Threads : References(t)' = References(t)
    BY <2>1 DEF References
  <2>. QED
    BY <1>3, <2>1, <2>2 DEF vars, HoldingsInv, Holdings, Referenced, Cached, Measured
<1>. QED
  BY <1>2, <1>3

LEMMA HoldingsHold == Spec => []HoldingsInv
<1>1. Init => DatabaseInv /\ HoldingsInv
  BY DatabaseInit, HoldingsInit
<1>2. DatabaseInv /\ HoldingsInv /\ [Next]_vars => (DatabaseInv /\ HoldingsInv)'
  BY StepKeepsInv, StepKeepsHoldings
<1>. QED
  BY <1>1, <1>2, PTL DEF Spec

\* The values stay in the ranges that the bounds of the model allow.
LEMMA TypesHold ==
  ASSUME DatabaseInv, HoldingsInv
  PROVE  TypeOK
<1>1. ASSUME NEW t \in Threads
      PROVE  /\ tls[t].m_refCounter \in 0..MaxCalls /\ tls[t].m_attachCount \in 0..MaxAttach
             /\ sql[t].unsaved \in 0..MaxCalls
             /\ ghost[t].written \in 0..MaxCalls /\ ghost[t].durable \in 0..MaxCalls
             /\ scopes[t] \in BoundedSeq(BOOLEAN, MaxScopes)
  <2>1. Unfinished(t) \in Nat /\ Cardinality(Prepared(t)) \in Nat
    BY PreparedIsFinite DEF Unfinished
  <2>2. References(t) \in Nat
    BY <2>1 DEF References
  <2>3. tls[t].m_refCounter \in 0..MaxCalls /\ tls[t].m_attachCount \in 0..MaxAttach
    BY <2>2, HoldingFacts, DatabaseAssumption DEF Holdings, Referenced, Measured, Sizes
  <2>4. /\ sql[t].unsaved \in 0..MaxCalls
        /\ ghost[t].written \in 0..MaxCalls /\ ghost[t].durable \in 0..MaxCalls
    BY <2>1, HoldingFacts, DatabaseAssumption, SMTT(60) DEF Holdings, Measured, Sizes
  <2>5. scopes[t] \in BoundedSeq(BOOLEAN, MaxScopes)
    <3>1. /\ scopes[t] \in Seq(BOOLEAN) /\ Len(scopes[t]) \in 0..MaxScopes
      BY HoldingFacts, DatabaseAssumption DEF Holdings, Measured, FactsOf
    <3>2. scopes[t] \in [1..Len(scopes[t]) -> BOOLEAN]
      BY <3>1
    <3>. QED
      BY <3>1, <3>2 DEF BoundedSeq, SeqOf
  <2>. QED
    BY <2>3, <2>4, <2>5
<1>2. tls \in [Threads -> [m_connection : BOOLEAN, m_linger : BOOLEAN,
                          m_refCounter : 0..MaxCalls, m_attachCount : 0..MaxAttach,
                          m_transactionDepth : 0..(SizeT - 1),
                          m_transactionCancel : BOOLEAN]]
  BY <1>1 DEF DatabaseInv, Types, Connections
<1>3. sql \in [Threads -> [open : BOOLEAN, unsaved : 0..MaxCalls,
                          lock : {"none", "shared", "reserved", "pending"}]]
  BY <1>1 DEF DatabaseInv, Types, Sides
<1>4. ghost \in [Threads ->
       [written : 0..MaxCalls, durable : 0..MaxCalls,
        outcome : {"none", "open", "doomed", "committed", "rolledback"},
        seen : {"nothing", "current", "stale"},
        faults : SUBSET {"prepare", "abort", "commit", "repeat"}]]
  BY <1>1 DEF DatabaseInv, Types, Histories, Faults
<1>5. scopes \in [Threads -> BoundedSeq(BOOLEAN, MaxScopes)]
  BY <1>1 DEF DatabaseInv, Types
<1>. QED
  BY <1>2, <1>3, <1>4, <1>5 DEF TypeOK, DatabaseInv, Types, Calls, Places

\* A thread releases what it holds: its commands never outlive its connection,
\* a connection detached as often as attached is closed with its last command
\* or at the exit (unless the preparation of a query failed, which leaves a
\* reference too many), and outside its functions the thread keeps no lock,
\* for every number of threads, queries, scopes and failures.
THEOREM ResourcesAreReleased == Spec => []ResourcesReleased
<1>1. DatabaseInv /\ HoldingsInv => ResourcesReleased
  <2>. SUFFICES ASSUME DatabaseInv, HoldingsInv PROVE ResourcesReleased
    OBVIOUS
  <2>1. CommandsHaveConnection
    <3>. SUFFICES ASSUME NEW t \in Threads, NEW q \in Queries, command[t][q] # "null",
                         ~tls[t].m_connection
                  PROVE  FALSE
      BY DEF CommandsHaveConnection
    <3>1. Prepared(t) # {}
      BY DEF Prepared
    <3>2. Cardinality(Prepared(t)) \in Nat /\ Cardinality(Prepared(t)) # 0
      BY <3>1, PreparedIsFinite
    <3>3. References(t) > 0 /\ References(t) \in Nat
      BY <3>2 DEF References
    <3>. QED
      BY <3>3, HoldingFacts DEF Holdings, Referenced
  <2>2. ConnectionClosed
    <3>. SUFFICES ASSUME NEW t \in Threads, At(t, "exited"), tls[t].m_attachCount = 0,
                         "prepare" \notin ghost[t].faults, tls[t].m_connection
                  PROVE  FALSE
      BY DEF ConnectionClosed
    <3>1. Prepared(t) = {}
      BY HoldingFacts DEF Holdings, Cached
    <3>2. References(t) = 0
      BY <3>1, FS_EmptySet DEF References, At
    <3>. QED
      BY <3>2, HoldingFacts DEF Holdings, Referenced
  <2>3. NoLockKept
    <3>. SUFFICES ASSUME NEW t \in Threads, ~Astray(t), ~InScope(t) PROVE sql[t] = Idle
      BY DEF NoLockKept
    <3>. QED
      BY OutsideIsIdle, Ours DEF Sides, Idle
  <2>. QED
    BY <2>1, <2>2, <2>3, TypesHold DEF ResourcesReleased
<1>. QED
  BY <1>1, InvHolds, HoldingsHold, PTL
===============================================================================
