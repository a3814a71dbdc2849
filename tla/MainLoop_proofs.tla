---------------------------- MODULE MainLoop_proofs ----------------------------
(***************************************************************************)
(* Theorems about MainLoop, for every set of threads, events, handles and  *)
(* modes, every capacity of the pipe and every bound.                      *)
(***************************************************************************)
EXTENDS MainLoop, WellFoundedInduction, TLAPS

-------------------------------------------------------------------------------
\* What is kept of a list.

\* A set of numbers that is not empty has a least one.
LEMMA LeastNumber ==
  ASSUME NEW T, T \subseteq Nat, T # {}
  PROVE  \E x \in T : \A y \in T : x =< y
<1>. DEFINE Less == OpToRel(<, Nat)
<1>1. IsWellFoundedOn(Less, Nat)
  BY NatLessThanWellFounded
<1>2. \A x, y \in Nat : <<x, y>> \in Less <=> x < y
  BY DEF OpToRel
<1>. HIDE DEF Less
<1>3. PICK x \in T : \A y \in T : ~ (<<y, x>> \in Less)
  BY <1>1, WFMin
<1>4. \A y \in T : ~ (y < x)
  BY <1>2, <1>3
<1>5. \A y \in T : x =< y
  <2>. TAKE y \in T
  <2>1. x \in Nat /\ y \in Nat /\ ~ (y < x)
    BY <1>4
  <2> QED
    BY <2>1
<1> QED
  BY <1>5

\* What holds of 0, and of n where it holds of n - 1, holds up to N.
LEMMA UpTo ==
  ASSUME NEW N \in Nat, NEW T, 0 \in T,
         \A n \in 1 .. N : n - 1 \in T => n \in T
  PROVE  0 .. N \subseteq T
<1>. DEFINE U == (0 .. N) \ T
<1>1. ASSUME U # {} PROVE FALSE
  <2>1. U \subseteq Nat
    OBVIOUS
  <2>. HIDE DEF U
  <2>2. PICK x \in U : \A y \in U : x =< y
    BY <1>1, <2>1, LeastNumber
  <2>. USE DEF U
  <2>3. x \in 1 .. N /\ x - 1 \in 0 .. N /\ x - 1 \notin U
    BY <2>2
  <2>. QED
    BY <2>3
<1>. QED
  BY <1>1

\* f is defined by recursion on the numbers up to N: a for 0, then step by
\* step of what it was before.
Steps(step, V, N) == step \in [V \X (1 .. N) -> V]

Runs(f, V, a, step, N) ==
  f \in [0 .. N -> V] /\ f[0] = a /\ \A n \in 1 .. N : f[n] = step[<<f[n - 1], n>>]

LEMMA Recursion ==
  ASSUME NEW N \in Nat, NEW V, NEW a \in V, NEW step, Steps(step, V, N)
  PROVE  \E f : Runs(f, V, a, step, N)
<1>. USE DEF Steps
<1>. DEFINE Upto(m) == \E f \in [0 .. m -> V] : f[0] = a /\ \A n \in 1 .. m : f[n] = step[<<f[n - 1], n>>]
            T == {m \in 0 .. N : Upto(m)}
<1>1. 0 \in T
  <2>. DEFINE g == [n \in 0 .. 0 |-> a]
  <2>1. g \in [0 .. 0 -> V] /\ g[0] = a /\ 1 .. 0 = {}
    OBVIOUS
  <2>. HIDE DEF g
  <2>2. Upto(0)
    BY <2>1
  <2>. QED
    BY <2>2
<1>2. ASSUME NEW n \in 1 .. N, n - 1 \in T PROVE n \in T
  <2>1. PICK f \in [0 .. n - 1 -> V] : f[0] = a /\ \A i \in 1 .. n - 1 : f[i] = step[<<f[i - 1], i>>]
    BY <1>2
  <2>. DEFINE g == [i \in 0 .. n |-> IF i = n THEN step[<<f[n - 1], n>>] ELSE f[i]]
  <2>2. f[n - 1] \in V /\ step[<<f[n - 1], n>>] \in V
    OBVIOUS
  <2>3. g \in [0 .. n -> V] /\ g[0] = a
    BY <2>1, <2>2
  <2>4. ASSUME NEW i \in 1 .. n PROVE g[i] = step[<<g[i - 1], i>>]
    <3>1. i - 1 \in 0 .. n /\ i - 1 # n /\ g[i - 1] = f[i - 1]
      OBVIOUS
    <3>. QED
      BY <2>1, <3>1, SMTT(60)
  <2>5. Upto(n)
    BY <2>3, <2>4
  <2>. QED
    BY <2>5
<1>. HIDE DEF T
<1>3. 0 .. N \subseteq T
  BY <1>1, <1>2, UpTo
<1>4. N \in T
  BY <1>3
<1>. QED
  BY <1>4 DEF T, Runs

\* The recursive definition of Kept makes a function.
Keeps(f, s, S, E) ==
  /\ f \in [0 .. Len(s) -> Seq(S \cap E)] /\ f[0] = <<>> /\ f[Len(s)] = Kept(s, S)
  /\ \A n \in 1 .. Len(s) : f[n] = IF s[n] \in S THEN Append(f[n - 1], s[n]) ELSE f[n - 1]

LEMMA KeptRuns ==
  ASSUME NEW E, NEW s \in Seq(E), NEW S
  PROVE  \E f : Keeps(f, s, S, E)
<1>. DEFINE N == Len(s)
            V == Seq(S \cap E)
            step == [p \in V \X (1 .. N) |-> IF s[p[2]] \in S THEN Append(p[1], s[p[2]]) ELSE p[1]]
            Makes(f) == f = [n \in 0 .. Len(s) |->
               IF n = 0 THEN <<>> ELSE IF s[n] \in S THEN Append(f[n - 1], s[n]) ELSE f[n - 1]]
<1>1. N \in Nat /\ <<>> \in V /\ Steps(step, V, N)
  BY DEF Steps
<1>2. PICK f : Runs(f, V, <<>>, step, N)
  <2>. HIDE DEF N, V, step, Makes
  <2>. QED
    BY <1>1, Recursion
<1>2a. /\ f \in [0 .. N -> V] /\ f[0] = <<>>
       /\ \A n \in 1 .. N : f[n] = step[<<f[n - 1], n>>]
  BY <1>2 DEF Runs
<1>3. \A n \in 1 .. N : f[n] = IF s[n] \in S THEN Append(f[n - 1], s[n]) ELSE f[n - 1]
  <2>. TAKE n \in 1 .. N
  <2>1. <<f[n - 1], n>> \in V \X (1 .. N) /\ f[n] = step[<<f[n - 1], n>>]
    <3>1. n - 1 \in 0 .. N
      OBVIOUS
    <3>. HIDE DEF V, N
    <3>. QED
      BY <1>2a, <3>1
  <2>. QED
    BY <2>1
<1>4. Makes(f)
  <2>1. \A n \in 0 .. N : f[n] =
           IF n = 0 THEN <<>> ELSE IF s[n] \in S THEN Append(f[n - 1], s[n]) ELSE f[n - 1]
    <3>1. \A n \in 0 .. N : n = 0 \/ n \in 1 .. N
      OBVIOUS
    <3>. HIDE DEF N
    <3>. QED
      BY <1>2a, <1>3, <3>1
  <2>2. DOMAIN f = 0 .. N /\ f = [n \in 0 .. N |-> f[n]]
    BY <1>2a
  <2>. QED
    BY <2>1, <2>2
<1>. DEFINE upTo == CHOOSE g : Makes(g)
<1>5. Makes(upTo)
  BY <1>4
<1>6. Kept(s, S) = upTo[Len(s)]
  BY DEF Kept
<1>7. \A n \in 0 .. N : upTo[n] = f[n]
  <2>. DEFINE T == {n \in 0 .. N : upTo[n] = f[n]}
  <2>1. /\ DOMAIN upTo = 0 .. N /\ upTo[0] = <<>> 
        /\ \A n \in 1 .. N : upTo[n] = IF s[n] \in S THEN Append(upTo[n - 1], s[n]) ELSE upTo[n - 1]
    <3>. HIDE DEF upTo
    <3>1. DOMAIN upTo = 0 .. N /\ \A n \in 0 .. N : upTo[n] =
            IF n = 0 THEN <<>> ELSE IF s[n] \in S THEN Append(upTo[n - 1], s[n]) ELSE upTo[n - 1]
      BY <1>5
    <3>2. 0 \in 0 .. N /\ \A n \in 1 .. N : n # 0 /\ n \in 0 .. N
      BY <1>1
    <3>. HIDE DEF N
    <3>. QED
      BY <3>1, <3>2
  <2>. HIDE DEF upTo
  <2>2. 0 \in T
    BY <1>1, <1>2a, <2>1
  <2>3. ASSUME NEW n \in 1 .. N, n - 1 \in T PROVE n \in T
    BY <1>3, <2>1, <2>3
  <2>. HIDE DEF T, N
  <2>4. 0 .. N \subseteq T
    BY <1>1, <2>2, <2>3, UpTo
  <2>. QED
    BY <2>4 DEF T
<1>8. upTo[N] = f[N]
  <2>1. N \in 0 .. N
    BY <1>1
  <2>. HIDE DEF N, upTo
  <2>. QED
    BY <1>7, <2>1
<1>. QED
  BY <1>2a, <1>3, <1>6, <1>8 DEF Keeps

LEMMA KeptTyped ==
  ASSUME NEW E, NEW s \in Seq(E), NEW S
  PROVE  Kept(s, S) \in Seq(S \cap E)
<1>. USE DEF Keeps
<1>1. PICK f : Keeps(f, s, S, E)
  <2>. HIDE DEF Keeps
  <2>. QED
    BY KeptRuns
<1>2. Len(s) \in 0 .. Len(s)
  OBVIOUS
<1>. QED
  BY <1>1, <1>2

LEMMA KeptOfNone ==
  ASSUME NEW E, NEW s \in Seq(E), NEW S, \A n \in 1 .. Len(s) : s[n] \notin S
  PROVE  Kept(s, S) = <<>>
<1>. USE DEF Keeps
<1>1. PICK f : Keeps(f, s, S, E)
  <2>. HIDE DEF Keeps
  <2>. QED
    BY KeptRuns
<1>. DEFINE N == Len(s)
            T == {n \in 0 .. N : f[n] = <<>>}
<1>2. N \in Nat /\ N \in 0 .. N /\ 0 \in 0 .. N
  OBVIOUS
<1>3. ASSUME NEW n \in 1 .. N, n - 1 \in T PROVE n \in T
  BY <1>1, <1>3
<1>. HIDE DEF N
<1>4. 0 \in T
  BY <1>1, <1>2
<1>. HIDE DEF T
<1>5. 0 .. N \subseteq T
  BY <1>2, <1>3, <1>4, UpTo
<1>. QED
  BY <1>1, <1>2, <1>5 DEF T, N

LEMMA KeptOfEmpty ==
  ASSUME NEW S
  PROVE  Kept(<<>>, S) = <<>>
<1>1. <<>> \in Seq({}) /\ Len(<<>>) = 0 /\ 1 .. 0 = {}
  OBVIOUS
<1>. QED
  BY <1>1, KeptOfNone

LEMMA KeptOfAppended ==
  ASSUME NEW E, NEW s \in Seq(E), NEW x \in E, NEW S
  PROVE  /\ x \in S => Kept(Append(s, x), S) = Append(Kept(s, S), x)
         /\ x \notin S => Kept(Append(s, x), S) = Kept(s, S)
<1>. USE DEF Keeps
<1>1. PICK f : Keeps(f, s, S, E)
  <2>. HIDE DEF Keeps
  <2>. QED
    BY KeptRuns
<1>. PICK l : l = Append(s, x)
  OBVIOUS
<1>. PICK N \in Nat : N = Len(s)
  OBVIOUS
<1>2. l \in Seq(E) /\ Len(l) = N + 1 /\ l[N + 1] = x /\ \A n \in 1 .. N : l[n] = s[n]
  OBVIOUS
<1>3. PICK g : Keeps(g, l, S, E)
  <2>. HIDE DEF Keeps
  <2>. QED
    BY <1>2, KeptRuns
<1>. DEFINE T == {n \in 0 .. N : g[n] = f[n]}
<1>4. 0 \in T
  BY <1>1, <1>3
<1>5. ASSUME NEW n \in 1 .. N, n - 1 \in T PROVE n \in T
  <2>1. n \in 1 .. Len(l) /\ l[n] = s[n] /\ g[n - 1] = f[n - 1]
    BY <1>2, <1>5
  <2>2. g[n] = f[n]
    BY <1>1, <1>3, <2>1
  <2>. QED
    BY <2>2
<1>. HIDE DEF T
<1>6. 0 .. N \subseteq T
  BY <1>4, <1>5, UpTo
<1>7. g[N] = f[N]
  BY <1>6 DEF T
<1>8. N + 1 \in 1 .. Len(l) /\ (N + 1) - 1 = N
  BY <1>2
<1>9. Kept(s, S) = f[N]
  BY <1>1
<1>10. Kept(l, S) = g[N + 1]
  BY <1>2, <1>3
<1>11. g[N + 1] = IF x \in S THEN Append(g[N], x) ELSE g[N]
  BY <1>2, <1>3, <1>8
<1>. QED
  BY ONLY l = Append(s, x), <1>7, <1>9, <1>10, <1>11

\* Two lists one after the other: what is kept of them is, too.
LEMMA KeptOfBoth ==
  ASSUME NEW E, NEW s \in Seq(E), NEW t \in Seq(E), NEW S
  PROVE  Kept(s \o t, S) = Kept(s, S) \o Kept(t, S)
<1>. DEFINE Both(u) == Kept(s \o u, S) = Kept(s, S) \o Kept(u, S)
            T == {n \in Nat : \A u \in Seq(E) : Len(u) = n => Both(u)}
<1>1. 0 \in T
  <2>. SUFFICES ASSUME NEW u \in Seq(E), Len(u) = 0 PROVE Both(u)
    OBVIOUS
  <2>1. u = <<>> /\ s \o u = s /\ Kept(s, S) \in Seq(S \cap E)
    BY KeptTyped
  <2>2. Kept(u, S) = <<>>
    BY <2>1, KeptOfEmpty
  <2>. QED
    BY <2>1, <2>2
<1>2. ASSUME NEW n \in 1 .. Len(t), n - 1 \in T PROVE n \in T
  <2>. SUFFICES ASSUME NEW u \in Seq(E), Len(u) = n PROVE Both(u)
    OBVIOUS
  <2>. PICK v : v = SubSeq(u, 1, n - 1)
    OBVIOUS
  <2>. PICK x : x = u[n]
    OBVIOUS
  <2>1. v \in Seq(E) /\ x \in E /\ u = Append(v, x) /\ Len(v) = n - 1
    OBVIOUS
  <2>2. s \o v \in Seq(E) /\ s \o u = Append(s \o v, x)
    BY <2>1
  <2>3. Both(v)
    BY <1>2, <2>1
  <2>4. /\ x \in S => Kept(s \o u, S) = Append(Kept(s \o v, S), x)
        /\ x \notin S => Kept(s \o u, S) = Kept(s \o v, S)
    <3>. PICK w : w = s \o v
      OBVIOUS
    <3>1. w \in Seq(E) /\ x \in E
      BY <2>1, <2>2
    <3>2. /\ x \in S => Kept(Append(w, x), S) = Append(Kept(w, S), x)
          /\ x \notin S => Kept(Append(w, x), S) = Kept(w, S)
      BY ONLY <3>1, KeptOfAppended
    <3>. QED
      BY <2>2, <3>2, Zenon
  <2>5. /\ x \in S => Kept(u, S) = Append(Kept(v, S), x)
        /\ x \notin S => Kept(u, S) = Kept(v, S)
    <3>1. /\ x \in S => Kept(Append(v, x), S) = Append(Kept(v, S), x)
          /\ x \notin S => Kept(Append(v, x), S) = Kept(v, S)
      BY ONLY <2>1, KeptOfAppended
    <3>. QED
      BY <2>1, <3>1, Zenon
  <2>6. Kept(s, S) \in Seq(S \cap E) /\ Kept(v, S) \in Seq(S \cap E)
    BY <2>1, KeptTyped
  <2>7. x \in S => Kept(s, S) \o Append(Kept(v, S), x) = Append(Kept(s, S) \o Kept(v, S), x)
    BY <2>1, <2>6
  <2>. QED
    BY <2>3, <2>4, <2>5, <2>7
<1>3. Len(t) \in Nat /\ Len(t) \in 0 .. Len(t)
  OBVIOUS
<1>. HIDE DEF T
<1>4. 0 .. Len(t) \subseteq T
  BY <1>1, <1>2, <1>3, UpTo
<1>. QED
  BY <1>3, <1>4 DEF T

-------------------------------------------------------------------------------
\* Between a signal to the main thread and its answer the handlers may be behind;
\* with no signal in the pipe they are not, wherever the main thread is.  The
\* callback for a signal runs while its byte is in the pipe.
HandlersFollow ==
  /\ m_watchersInvoker = 0 => m_watchersLists = m_watchersMap
  /\ pc[Main] = "invoker" => m_watchersInvoker > 0

\* The inductive invariant.
WakesInv == TypeOK /\ NoStrandedEvent /\ HandlersFollow

-------------------------------------------------------------------------------
\* What ReloadWatchList leaves is what was asked for.
LEMMA ReloadGivesWanted ==
  ASSUME NEW lists, NEW wanted
  PROVE  ReloadWatchList(lists, wanted) = wanted
BY DEF ReloadWatchList

\* Whatever event is added, the queue and the timers of ecore keep their types.
LEMMA AddedIsTyped ==
  ASSUME TypeOK, NEW e \in Events, InternalAddEvent(e)
  PROVE  /\ ecoreEvents' \in Seq(Events)
         /\ ecoreTimers' \in [TimedEvents -> Nat \cup {Idle}]
<1>1. CASE e \in TimedEvents
  <2>1. now + Delay[e] \in Nat
    BY <1>1, MainLoopAssumption DEF TypeOK
  <2>. QED
    BY <1>1, <2>1 DEF InternalAddEvent, TypeOK
<1>2. CASE e \notin TimedEvents
  <2>1. ecoreEvents' = Append(ecoreEvents, e) /\ ecoreTimers' = ecoreTimers
    BY <1>2 DEF InternalAddEvent
  <2>. QED
    BY <2>1 DEF TypeOK
<1>. QED
  BY <1>1, <1>2

\* A post leaves the times of the other events as they are.
LEMMA PostedIsTyped ==
  ASSUME TypeOK, NEW t, NEW e \in Events, Posted(t, e)
  PROVE  /\ fresh' \subseteq Events
         /\ earliest' \in [TimedEvents -> Nat \cup {Idle}]
<1>1. \A f \in TimedEvents : now + Delay[f] \in Nat
  BY MainLoopAssumption DEF TypeOK
<1>. QED
  BY <1>1 DEF Posted, TypeOK

\* A watch that is changed is one of the watches there are.
LEMMA ChangedIsTyped ==
  ASSUME TypeOK, NEW w \in Watches, ChangeWatch(w)
  PROVE  m_watchersMap' \subseteq Watches /\ changes' \in 0..MaxChanges
BY MainLoopAssumption DEF ChangeWatch, TypeOK

-------------------------------------------------------------------------------
LEMMA WakesInit == Init => WakesInv
<1>1. ASSUME Init PROVE TypeOK
  <2>1. /\ pc \in [Senders -> MainPlaces \cup {"idle", "signal", "commit"}]
        /\ pc[Main] \in MainPlaces
        /\ \A t \in Threads : pc[t] \in {"idle", "signal", "commit"}
    BY <1>1, MainLoopAssumption DEF Init, Senders, MainPlaces
  <2>2. <<>> \in Seq(Events) /\ 0 \in 0..PipeCapacity /\ 0 \in 0..MaxChanges
    BY MainLoopAssumption
  <2>3. /\ m_wrappedCrossEventCallList \in Seq(Events)
        /\ stolenCrossEvents \in Seq(Events)
        /\ ecoreEvents \in Seq(Events)
    BY <1>1, <2>2 DEF Init
  <2>4. /\ ecoreTimers \in [TimedEvents -> Nat \cup {Idle}]
        /\ earliest \in [TimedEvents -> Nat \cup {Idle}]
    BY <1>1 DEF Init
  <2>. QED
    BY <1>1, <2>1, <2>2, <2>3, <2>4 DEF Init, TypeOK
<1>2. ASSUME Init PROVE NoStrandedEvent /\ HandlersFollow
  BY <1>2, MainLoopAssumption DEF Init, NoStrandedEvent, HandlersFollow, Senders
<1>. QED
  BY <1>1, <1>2 DEF WakesInv

\* Posting from the main thread or another one.
LEMMA PostingKeepsWakes ==
  ASSUME WakesInv,
         \/ \E e \in Events : AddEventCall(e) \/ \E t \in Threads : AddCrossEventCall(t, e)
         \/ \E t \in Threads : SignalCrossInvoker(t)
  PROVE  WakesInv'
<1>. USE WakesInv DEF WakesInv
<1>1. ASSUME NEW e \in Events, AddEventCall(e) PROVE WakesInv'
  <2>1. TypeOK'
    BY <1>1, AddedIsTyped, PostedIsTyped
       DEF AddEventCall, TypeOK, crossVars, watchVars, lifeVars
  <2>. QED
    BY <1>1, <2>1 DEF AddEventCall, NoStrandedEvent, HandlersFollow, crossVars, watchVars
<1>2. ASSUME NEW e \in Events, NEW t \in Threads, AddCrossEventCall(t, e) PROVE WakesInv'
  <2>1. fresh' \subseteq Events /\ earliest' \in [TimedEvents -> Nat \cup {Idle}]
    BY <1>2, PostedIsTyped DEF AddCrossEventCall
  <2>2. t # Main /\ t # NoOne /\ pc'[Main] = pc[Main]
    BY <1>2, MainLoopAssumption DEF AddCrossEventCall, Goto, TypeOK, Senders
  <2>3. TypeOK'
    BY <1>2, <2>1, <2>2, MainLoopAssumption
       DEF AddCrossEventCall, Goto, TypeOK, Senders, watchVars, ecoreVars, lifeVars
  <2>. QED
    BY <1>2, <2>2, <2>3 DEF AddCrossEventCall, NoStrandedEvent, HandlersFollow, watchVars
<1>3. ASSUME NEW t \in Threads, SignalCrossInvoker(t) PROVE WakesInv'
  <2>1. t # Main /\ pc'[Main] = pc[Main]
    BY <1>3, MainLoopAssumption DEF SignalCrossInvoker, Goto, TypeOK, Senders
  <2>2. TypeOK'
    BY <1>3, <2>1, MainLoopAssumption
       DEF SignalCrossInvoker, Goto, TypeOK, Senders, watchVars, ecoreVars, postVars, lifeVars
  <2>. QED
    BY <1>3, <2>1, <2>2
       DEF SignalCrossInvoker, NoStrandedEvent, HandlersFollow, watchVars, TypeOK
<1>. QED
  BY <1>1, <1>2, <1>3

\* The callback of the cross invoker.
LEMMA CrossInvokerKeepsWakes ==
  ASSUME WakesInv,
         ResetCrossInvoker \/ StealCrossEvents \/ RepushEvent \/ RepushFails \/ EndCrossInvoker
  PROVE  WakesInv'
<1>. USE WakesInv, MainLoopAssumption DEF WakesInv, MainPlaces
<1>1. CASE ResetCrossInvoker
  <2>1. TypeOK'
    BY <1>1 DEF ResetCrossInvoker, InLoop, Goto, TypeOK, Senders, watchVars, ecoreVars, postVars,
                lifeVars
  <2>. QED
    BY <1>1, <2>1 DEF ResetCrossInvoker, InLoop, Goto, TypeOK, Senders, NoStrandedEvent,
                      HandlersFollow, watchVars
<1>2. CASE StealCrossEvents
  <2>1. TypeOK'
    BY <1>2 DEF StealCrossEvents, Goto, TypeOK, Senders, watchVars, ecoreVars, postVars, lifeVars
  <2>. QED
    BY <1>2, <2>1 DEF StealCrossEvents, Goto, TypeOK, Senders, NoStrandedEvent, HandlersFollow,
                      watchVars
<1>3. CASE RepushEvent
  <2>1. Head(stolenCrossEvents) \in Events /\ Tail(stolenCrossEvents) \in Seq(Events)
    BY <1>3 DEF RepushEvent, TypeOK
  <2>2. TypeOK'
    BY <1>3, <2>1, AddedIsTyped DEF RepushEvent, TypeOK, watchVars, postVars, lifeVars
  <2>. QED
    BY <1>3, <2>2 DEF RepushEvent, NoStrandedEvent, HandlersFollow, watchVars
<1>4. CASE RepushFails
  <2>1. TypeOK'
    BY <1>4 DEF RepushFails, Goto, TypeOK, Senders, watchVars, ecoreVars, postVars
  <2>. QED
    BY <1>4, <2>1 DEF RepushFails, Goto, TypeOK, Senders, NoStrandedEvent, HandlersFollow,
                      watchVars
<1>5. CASE EndCrossInvoker
  <2>1. TypeOK'
    BY <1>5 DEF EndCrossInvoker, Goto, TypeOK, Senders, crossVars, watchVars, ecoreVars, postVars,
                lifeVars
  <2>. QED
    BY <1>5, <2>1 DEF EndCrossInvoker, Goto, TypeOK, Senders, NoStrandedEvent, HandlersFollow,
                      crossVars, watchVars
<1>. QED
  BY <1>1, <1>2, <1>3, <1>4, <1>5

\* The callbacks for events, the end of a handler and of the loop, and time.
LEMMA DispatchKeepsWakes ==
  ASSUME WakesInv,
         \/ DispatchEvent \/ EnterLoop \/ Destroy \/ Tick
         \/ \E e \in TimedEvents : DispatchTimedEvent(e)
  PROVE  WakesInv'
<1>. USE WakesInv, MainLoopAssumption DEF WakesInv, MainPlaces
<1>1. CASE DispatchEvent
  <2>1. Head(ecoreEvents) \in Events /\ Tail(ecoreEvents) \in Seq(Events)
    BY <1>1 DEF DispatchEvent, TypeOK
  <2>2. /\ pc' \in {pc, [pc EXCEPT ![Main] = "handler"]}
        /\ running' \in Events \cup {NoOne}
    BY <1>1, <2>1 DEF DispatchEvent, Goto, TypeOK
  <2>3. /\ pc' \in [Senders -> MainPlaces \cup {"idle", "signal", "commit"}]
        /\ pc'[Main] \in MainPlaces
        /\ \A s \in Threads : pc'[s] \in {"idle", "signal", "commit"}
    <3>1. CASE pc' = pc
      BY <3>1 DEF TypeOK
    <3>2. CASE pc' = [pc EXCEPT ![Main] = "handler"]
      BY <3>2 DEF TypeOK, Senders
    <3>. QED
      BY <2>2, <3>1, <3>2
  <2>4. TypeOK'
    BY <1>1, <2>1, <2>2, <2>3, SMTT(60)
       DEF DispatchEvent, TypeOK, crossVars, watchVars, postVars, lifeVars
  <2>. QED
    BY <1>1, <2>2, <2>4 DEF DispatchEvent, InLoop, TypeOK, Senders, NoStrandedEvent,
                            HandlersFollow, crossVars, watchVars
<1>2. CASE \E e \in TimedEvents : DispatchTimedEvent(e)
  <2>1. PICK e \in TimedEvents : DispatchTimedEvent(e)
    BY <1>2
  <2>2. /\ pc' \in {pc, [pc EXCEPT ![Main] = "handler"]}
        /\ running' \in Events \cup {NoOne}
    BY <2>1 DEF DispatchTimedEvent, Goto, TypeOK
  <2>3. TypeOK'
    BY <2>1, <2>2, SMTT(60) DEF DispatchTimedEvent, TypeOK, Senders, crossVars, watchVars, lifeVars
  <2>. QED
    BY <2>1, <2>2, <2>3 DEF DispatchTimedEvent, InLoop, TypeOK, Senders, NoStrandedEvent,
                            HandlersFollow, crossVars, watchVars
<1>3. CASE EnterLoop
  <2>1. TypeOK'
    BY <1>3 DEF EnterLoop, Goto, TypeOK, Senders, crossVars, watchVars, ecoreVars, postVars,
                lifeVars
  <2>. QED
    BY <1>3, <2>1 DEF EnterLoop, Goto, TypeOK, Senders, NoStrandedEvent, HandlersFollow,
                      crossVars, watchVars
<1>4. CASE Destroy
  <2>1. TypeOK'
    BY <1>4 DEF Destroy, TypeOK, crossVars, ecoreVars, postVars
  <2>. QED
    BY <1>4, <2>1 DEF Destroy, NoStrandedEvent, HandlersFollow, crossVars
<1>5. CASE Tick
  <2>1. TypeOK'
    BY <1>5 DEF Tick, TypeOK, crossVars, watchVars, ecoreVars, postVars, lifeVars
  <2>. QED
    BY <1>5, <2>1 DEF Tick, NoStrandedEvent, HandlersFollow, crossVars, watchVars
<1>. QED
  BY <1>1, <1>2, <1>3, <1>4, <1>5

\* Changes of the watches, direct and indirect, and the callbacks for them.
LEMMA WatchesKeepWakes ==
  ASSUME WakesInv,
         \/ \E w \in Watches : \/ ChangeDirectly(w) \/ DispatchWatcher(w)
                               \/ \E t \in Threads : ChangeIndirectly(t, w)
         \/ DispatchInvoker \/ HandleWatcher \/ EndListener
  PROVE  WakesInv'
<1>. USE WakesInv, MainLoopAssumption DEF WakesInv, MainPlaces
<1>1. CASE \E w \in Watches : ChangeDirectly(w)
  <2>1. PICK w \in Watches : ChangeDirectly(w)
    BY <1>1
  <2>2. m_watchersLists' = m_watchersMap'
    BY <2>1, ReloadGivesWanted DEF ChangeDirectly
  <2>3. TypeOK'
    BY <2>1, <2>2, ChangedIsTyped
       DEF ChangeDirectly, TypeOK, crossVars, ecoreVars, postVars, lifeVars
  <2>. QED
    BY <2>1, <2>2, <2>3 DEF ChangeDirectly, NoStrandedEvent, HandlersFollow, crossVars
<1>2. CASE \E w \in Watches, t \in Threads : ChangeIndirectly(t, w)
  <2>1. PICK w \in Watches, t \in Threads : ChangeIndirectly(t, w)
    BY <1>2
  <2>2. /\ pc'[Main] = pc[Main]
        /\ pc' \in {[pc EXCEPT ![t] = "commit"], [pc EXCEPT ![t] = "idle"]}
    BY <2>1 DEF ChangeIndirectly, Goto, TypeOK, Senders
  <2>3. /\ m_watchersInvoker' \in Nat
        /\ m_watchersInvokerCommit' \in Nat
        /\ m_watchersMap' \subseteq Watches
        /\ changes' \in 0..MaxChanges
        /\ m_watchersMutex' \in Senders \cup {NoOne}
    <3>1. CASE ChangeWatch(w)
      BY <2>1, <3>1, ChangedIsTyped DEF ChangeIndirectly, TypeOK, Senders
    <3>2. CASE ~ChangeWatch(w)
      BY <2>1, <3>2 DEF ChangeIndirectly, TypeOK
    <3>. QED
      BY <3>1, <3>2
  <2>4. TypeOK'
    <3>1. UNCHANGED <<m_wrappedCrossEventCallList, m_crossEventCallMutex, m_crossEventCallInvoker,
                      stolenCrossEvents, lateDispatcher, m_watchersLists, ecoreEvents, ecoreTimers,
                      now, running, crashed, fresh, earliest>>
      BY <2>1 DEF ChangeIndirectly, crossVars, ecoreVars, postVars, lifeVars
    <3>2. /\ pc' \in [Senders -> MainPlaces \cup {"idle", "signal", "commit"}]
          /\ pc'[Main] \in MainPlaces
          /\ \A s \in Threads : pc'[s] \in {"idle", "signal", "commit"}
      <4>1. PICK q \in {"commit", "idle"} : pc' = [pc EXCEPT ![t] = q]
        BY <2>2
      <4>. QED
        BY <2>2, <4>1 DEF TypeOK, Senders
    <3>. QED
      BY <2>3, <3>1, <3>2 DEF TypeOK
  <2>5. m_watchersInvoker' = 0 => m_watchersInvoker = 0 /\ UNCHANGED <<m_watchersLists, m_watchersMap>>
    BY <2>1 DEF ChangeIndirectly, TypeOK
  <2>6. m_watchersInvoker' >= m_watchersInvoker
    BY <2>1 DEF ChangeIndirectly, TypeOK
  <2>. QED
    BY <2>1, <2>2, <2>3, <2>4, <2>5, <2>6
       DEF ChangeIndirectly, NoStrandedEvent, HandlersFollow, TypeOK, crossVars
<1>3. CASE DispatchInvoker
  <2>1. CASE InLoop /\ Goto(Main, "invoker") /\ m_watchersInvoker > 0 /\ UNCHANGED watchVars
    <3>1. TypeOK'
      BY <1>3, <2>1 DEF DispatchInvoker, Goto, TypeOK, Senders, crossVars, watchVars, ecoreVars,
                        postVars, lifeVars
    <3>. QED
      BY <1>3, <2>1, <3>1 DEF DispatchInvoker, InLoop, Goto, TypeOK, Senders, NoStrandedEvent,
                              HandlersFollow, crossVars, watchVars
  <2>2. CASE /\ pc[Main] = "invoker"
             /\ m_watchersLists' = ReloadWatchList(m_watchersLists, m_watchersMap)
             /\ m_watchersInvoker' = m_watchersInvoker - 1
             /\ m_watchersInvokerCommit' = m_watchersInvokerCommit + 1
             /\ Goto(Main, "loop")
             /\ UNCHANGED <<m_watchersMap, m_watchersMutex, changes>>
    <3>1. m_watchersLists' = m_watchersMap'
      BY <2>2, ReloadGivesWanted
    <3>2. m_watchersInvoker' \in Nat /\ m_watchersInvokerCommit' \in Nat
      BY <2>2 DEF HandlersFollow, TypeOK
    <3>3. TypeOK'
      BY <1>3, <2>2, <3>1, <3>2
         DEF DispatchInvoker, Goto, TypeOK, Senders, crossVars, ecoreVars, postVars, lifeVars
    <3>. QED
      BY <1>3, <2>2, <3>1, <3>3 DEF DispatchInvoker, Goto, TypeOK, Senders, NoStrandedEvent,
                                    HandlersFollow, crossVars
  <2>. QED
    BY <1>3, <2>1, <2>2 DEF DispatchInvoker
<1>4. CASE \E w \in Watches : DispatchWatcher(w)
  <2>1. PICK w \in Watches : DispatchWatcher(w)
    BY <1>4
  <2>2. TypeOK'
    BY <2>1 DEF DispatchWatcher, Goto, TypeOK, Senders, crossVars, watchVars, ecoreVars, postVars,
                lifeVars
  <2>. QED
    BY <2>1, <2>2 DEF DispatchWatcher, InLoop, Goto, TypeOK, Senders, NoStrandedEvent,
                      HandlersFollow, crossVars, watchVars
<1>5. CASE HandleWatcher
  <2>1. /\ pc' \in {[pc EXCEPT ![Main] = "listener"], [pc EXCEPT ![Main] = "loop"]}
        /\ m_watchersMutex' \in Senders \cup {NoOne}
    BY <1>5 DEF HandleWatcher, Goto, TypeOK, Senders
  <2>2. /\ pc' \in [Senders -> MainPlaces \cup {"idle", "signal", "commit"}]
        /\ pc'[Main] \in MainPlaces
        /\ \A s \in Threads : pc'[s] \in {"idle", "signal", "commit"}
    <3>1. PICK q \in {"listener", "loop"} : pc' = [pc EXCEPT ![Main] = q]
      BY <2>1
    <3>. QED
      BY <3>1 DEF TypeOK, Senders
  <2>3. TypeOK'
    BY <1>5, <2>1, <2>2, SMTT(60)
       DEF HandleWatcher, TypeOK, Senders, crossVars, ecoreVars, postVars, lifeVars
  <2>. QED
    BY <1>5, <2>1, <2>3 DEF HandleWatcher, TypeOK, Senders, NoStrandedEvent, HandlersFollow,
                            crossVars
<1>6. CASE EndListener
  <2>1. TypeOK'
    BY <1>6 DEF EndListener, Goto, TypeOK, Senders, crossVars, ecoreVars, postVars, lifeVars
  <2>. QED
    BY <1>6, <2>1 DEF EndListener, Goto, TypeOK, Senders, NoStrandedEvent, HandlersFollow,
                      crossVars
<1>. QED
  BY <1>1, <1>2, <1>3, <1>4, <1>5, <1>6

LEMMA WakesNext == WakesInv /\ [Next]_vars => WakesInv'
<1>. SUFFICES ASSUME WakesInv, [Next]_vars PROVE WakesInv'
  OBVIOUS
<1>1. CASE UNCHANGED vars
  BY <1>1 DEF WakesInv, TypeOK, NoStrandedEvent, HandlersFollow, vars, crossVars, watchVars,
              ecoreVars, postVars, lifeVars
<1>2. CASE Next
  BY <1>2, PostingKeepsWakes, CrossInvokerKeepsWakes, DispatchKeepsWakes, WatchesKeepWakes
     DEF Next, MainStep
<1>. QED
  BY <1>1, <1>2

\* The main thread is woken for what it has to do: an event in the cross list is
\* never left without a byte in the pipe (AddCrossEventCall, DispatchCrossInvoker,
\* main_event_dispatcher.cpp), and ecore's handlers are the watches (ReloadWatchList,
\* main.cpp), whatever the threads post and change.
THEOREM MainThreadIsWoken == Spec => []WakesAreKept
<1>1. WakesInv => WakesAreKept
  BY DEF WakesInv, WakesAreKept, HandlersFollow, HandlersMatchWatches
<1>. QED
  BY WakesInit, WakesNext, <1>1, PTL DEF Spec

-------------------------------------------------------------------------------
Places == MainPlaces \cup {"idle", "signal", "commit"}

\* No commit is ever signalled: who waits for one holds the mutex that the main
\* thread needs to signal it, and only then is there a byte for the main thread.
NoCommit ==
  /\ pc \in [Senders -> Places]
  /\ m_watchersInvoker \in Nat
  /\ m_watchersInvokerCommit = 0
  /\ \A t \in Threads : pc[t] = "commit" => m_watchersMutex = t
  /\ m_watchersInvoker > 0 => m_watchersMutex \in Threads
  /\ pc[Main] = "listener" => m_watchersMutex = Main
  /\ pc[Main] = "invoker" => m_watchersInvoker > 0

LEMMA NoCommitInit == Init => NoCommit
BY MainLoopAssumption DEF Init, NoCommit, Senders, Places, MainPlaces

\* Steps that leave the watches and their mutex alone, and bring the main thread
\* neither to a listener nor to a signal of the watches.
LEMMA OtherStepsKeepNoCommit ==
  ASSUME NoCommit,
         UNCHANGED <<m_watchersMutex, m_watchersInvoker, m_watchersInvokerCommit>>,
         NEW t \in Senders, NEW where \in Places \ {"commit", "invoker", "listener"},
         pc' = pc \/ Goto(t, where)
  PROVE  NoCommit'
BY MainLoopAssumption DEF NoCommit, Goto, Senders

LEMMA SomePlace == "idle" \in Places \ {"commit", "invoker", "listener"}
BY DEF Places

LEMMA NoCommitNext == NoCommit /\ [Next]_vars => NoCommit'
<1>. SUFFICES ASSUME NoCommit, [Next]_vars PROVE NoCommit'
  OBVIOUS
<1>. Main \in Senders /\ Threads \subseteq Senders
  BY DEF Senders
<1>1. CASE UNCHANGED vars
  BY <1>1, OtherStepsKeepNoCommit, SomePlace
     DEF vars, watchVars, Places, MainPlaces
<1>2. CASE MainStep
  <2>1. CASE ResetCrossInvoker
    BY <2>1, OtherStepsKeepNoCommit DEF ResetCrossInvoker, watchVars, Places, MainPlaces
  <2>2. CASE StealCrossEvents \/ RepushEvent \/ RepushFails \/ EndCrossInvoker
    BY <2>2, OtherStepsKeepNoCommit
       DEF StealCrossEvents, RepushEvent, RepushFails, EndCrossInvoker, watchVars, Places, MainPlaces
  <2>3. CASE DispatchEvent \/ \E e \in TimedEvents : DispatchTimedEvent(e)
    BY <2>3, OtherStepsKeepNoCommit DEF DispatchEvent, DispatchTimedEvent, watchVars, Places, MainPlaces
  <2>4. CASE EnterLoop
    BY <2>4, OtherStepsKeepNoCommit DEF EnterLoop, watchVars, Places, MainPlaces
  <2>5. CASE DispatchInvoker
    BY <2>5, MainLoopAssumption
       DEF DispatchInvoker, NoCommit, InLoop, Goto, Senders, watchVars, Places, MainPlaces
  <2>6. CASE \E w \in Watches : DispatchWatcher(w)
    BY <2>6, OtherStepsKeepNoCommit DEF DispatchWatcher, watchVars, Places, MainPlaces
  <2>7. CASE HandleWatcher
    BY <2>7, MainLoopAssumption DEF HandleWatcher, NoCommit, Goto, Senders, Places, MainPlaces
  <2>8. CASE EndListener
    BY <2>8, MainLoopAssumption DEF EndListener, NoCommit, Goto, Senders, Places, MainPlaces
  <2>. QED
    BY <1>2, <2>1, <2>2, <2>3, <2>4, <2>5, <2>6, <2>7, <2>8 DEF MainStep
<1>3. CASE Destroy \/ Tick \/ \E e \in Events : AddEventCall(e)
  BY <1>3, OtherStepsKeepNoCommit, SomePlace
     DEF Destroy, Tick, AddEventCall, watchVars, Places, MainPlaces
<1>4. ASSUME NEW t \in Threads, SignalCrossInvoker(t) \/ \E e \in Events : AddCrossEventCall(t, e)
      PROVE  NoCommit'
  BY <1>4, OtherStepsKeepNoCommit DEF SignalCrossInvoker, AddCrossEventCall, watchVars, Places, MainPlaces
<1>5. ASSUME NEW w \in Watches, ChangeDirectly(w) PROVE NoCommit'
  BY <1>5, OtherStepsKeepNoCommit, SomePlace
     DEF ChangeDirectly
<1>6. ASSUME NEW w \in Watches, NEW t \in Threads, ChangeIndirectly(t, w) PROVE NoCommit'
  BY <1>6, MainLoopAssumption DEF ChangeIndirectly, NoCommit, Goto, Senders, Places, MainPlaces
<1>. QED
  BY <1>1, <1>2, <1>3, <1>4, <1>5, <1>6 DEF Next

\* A thread that waits for a commit goes on waiting.
WaitsOn == \A t \in Threads : pc[t] = "commit" => pc'[t] = "commit"

\* CommitInvoker in another thread (waitable_handle_watch_support.cpp) never comes
\* back: it waits for a commit with the mutex that HandleInvoker needs first.
THEOREM ChangeNeverReturns ==
  Spec => [][WaitsOn]_vars
<1>1. ASSUME NoCommit, [Next]_vars, NEW t \in Threads, pc[t] = "commit"
      PROVE  pc'[t] = "commit"
  <2>. Main \in Senders /\ t \in Senders /\ t # Main
    BY MainLoopAssumption DEF Senders
  <2>1. CASE UNCHANGED vars
    BY <1>1, <2>1 DEF vars
  <2>2. CASE MainStep
    <3>1. pc' = pc \/ \E where \in Places : Goto(Main, where)
      BY <2>2 DEF MainStep, ResetCrossInvoker, StealCrossEvents, RepushEvent, RepushFails,
         EndCrossInvoker, DispatchEvent, DispatchTimedEvent, EnterLoop, DispatchInvoker,
         DispatchWatcher, HandleWatcher, EndListener, Places, MainPlaces
    <3>. QED
      BY <1>1, <3>1 DEF Goto, NoCommit
  <2>3. CASE \/ Destroy \/ Tick \/ \E e \in Events : AddEventCall(e)
             \/ \E w \in Watches : ChangeDirectly(w)
    BY <1>1, <2>3 DEF Destroy, Tick, AddEventCall, ChangeDirectly
  <2>4. ASSUME NEW s \in Threads, SignalCrossInvoker(s) \/ \E e \in Events : AddCrossEventCall(s, e)
        PROVE  pc'[t] = "commit"
    BY <1>1, <2>4 DEF SignalCrossInvoker, AddCrossEventCall, Goto, NoCommit, Senders
  <2>5. ASSUME NEW s \in Threads, NEW w \in Watches, ChangeIndirectly(s, w)
        PROVE  pc'[t] = "commit"
    BY <1>1, <2>5 DEF ChangeIndirectly, Goto, NoCommit, Senders
  <2>. QED
    BY <1>1, <2>1, <2>2, <2>3, <2>4, <2>5 DEF Next
<1>2. NoCommit /\ [Next]_vars => [WaitsOn]_vars
  BY <1>1 DEF WaitsOn
<1>. QED
  BY NoCommitInit, NoCommitNext, <1>2, PTL DEF Spec

-------------------------------------------------------------------------------
\* Posted events, from the list of the senders to the handler.

Cross == stolenCrossEvents \o m_wrappedCrossEventCallList

\* Ecore's queue is of events without a delay, the lists of the cross invoker are of
\* other threads.
LinePlaces ==
  /\ \A i \in 1..Len(ecoreEvents) : ecoreEvents[i] \in Immediate
  /\ \A i \in 1..Len(Cross) : Sender[Cross[i]] # Main

\* A handler runs where the main thread says so, and after the end it never does again;
\* only while the main thread empties it there is a stolen list.
MainPlace ==
  /\ running # NoOne <=> pc[Main] = "handler"
  /\ crashed => pc[Main] = "loop"
  /\ lateDispatcher => pc[Main] \notin {"start", "swap", "repush", "handler"}
  /\ pc[Main] # "repush" => stolenCrossEvents = <<>>

\* A timed event is in one place: nobody has posted it, or it is once in the lists of
\* the cross invoker, or its timer runs, or it is over; and its time is not too early.
InOnePlace(e) ==
  /\ e \in fresh => earliest[e] = Idle
  /\ ecoreTimers[e] # Idle =>
       e \notin fresh /\ earliest[e] # Idle /\ earliest[e] <= ecoreTimers[e]
  /\ \A i \in 1..Len(Cross) : Cross[i] = e =>
       /\ e \notin fresh /\ ecoreTimers[e] = Idle
       /\ earliest[e] # Idle /\ earliest[e] <= now + Delay[e]
       /\ \A j \in 1..Len(Cross) : Cross[j] = e => i = j

PostedInv ==
  WakesInv /\ LinePlaces /\ MainPlace /\ \A e \in TimedEvents : InOnePlace(e)

LEMMA PostedInit == Init => PostedInv
<1>. SUFFICES ASSUME Init PROVE PostedInv
  OBVIOUS
<1>1. stolenCrossEvents = <<>> /\ Cross = <<>> /\ Len(Cross) = 0 /\ Len(ecoreEvents) = 0
  BY DEF Init, Cross
<1>2. pc[Main] = "start"
  BY DEF Init, Senders
<1>. QED
  BY <1>1, <1>2, WakesInit DEF Init, PostedInv, LinePlaces, MainPlace, InOnePlace

\* What the lists of the cross invoker become.
LEMMA CrossIsList ==
  ASSUME TypeOK
  PROVE  Cross \in Seq(Events) /\ Len(Cross) \in Nat
BY DEF TypeOK, Cross

LEMMA CrossAppended ==
  ASSUME TypeOK, NEW e \in Events, UNCHANGED stolenCrossEvents,
         m_wrappedCrossEventCallList' = Append(m_wrappedCrossEventCallList, e)
  PROVE  Cross' = Append(Cross, e)
<1>. PICK s \in Seq(Events) : s = stolenCrossEvents
  BY DEF TypeOK
<1>. PICK w \in Seq(Events) : w = m_wrappedCrossEventCallList
  BY DEF TypeOK
<1>1. s \o Append(w, e) = Append(s \o w, e)
  OBVIOUS
<1>. QED
  BY <1>1 DEF Cross

LEMMA CrossStolen ==
  ASSUME TypeOK, MainPlace, StealCrossEvents
  PROVE  Cross' = Cross
<1>. PICK w \in Seq(Events) : w = m_wrappedCrossEventCallList
  BY DEF TypeOK
<1>1. <<>> \o w = w /\ w \o <<>> = w
  OBVIOUS
<1>2. stolenCrossEvents = <<>> /\ stolenCrossEvents' = w /\ m_wrappedCrossEventCallList' = <<>>
  BY DEF StealCrossEvents, MainPlace
<1>. QED
  BY <1>1, <1>2 DEF Cross

LEMMA CrossShifted ==
  ASSUME TypeOK, stolenCrossEvents # <<>>, stolenCrossEvents' = Tail(stolenCrossEvents),
         UNCHANGED m_wrappedCrossEventCallList
  PROVE  /\ Cross' = Tail(Cross) /\ Cross # <<>> /\ Cross[1] = Head(stolenCrossEvents)
         /\ Head(stolenCrossEvents) \in Events
<1>. PICK s \in Seq(Events) : s = stolenCrossEvents
  BY DEF TypeOK
<1>. PICK w \in Seq(Events) : w = m_wrappedCrossEventCallList
  BY DEF TypeOK
<1>1. s # <<>> => /\ Tail(s) \o w = Tail(s \o w) /\ s \o w # <<>>
                  /\ (s \o w)[1] = Head(s) /\ Head(s) \in Events
  OBVIOUS
<1>. QED
  BY <1>1 DEF Cross

LEMMA CrossDropped ==
  ASSUME TypeOK, stolenCrossEvents' = <<>>, UNCHANGED m_wrappedCrossEventCallList
  PROVE  \E n \in Nat : Len(Cross) = n + Len(Cross')
                        /\ \A i \in 1..Len(Cross') : Cross'[i] = Cross[n + i]
<1>. PICK s \in Seq(Events) : s = stolenCrossEvents
  BY DEF TypeOK
<1>. PICK w \in Seq(Events) : w = m_wrappedCrossEventCallList
  BY DEF TypeOK
<1>1. Cross' = w
  BY DEF Cross
<1>. PICK l : l = s \o w
  OBVIOUS
<1>. PICK n \in Nat : n = Len(s)
  OBVIOUS
<1>2. Len(l) = n + Len(w) /\ \A i \in 1..Len(w) : w[i] = l[n + i]
  OBVIOUS
<1>3. Cross = l
  BY DEF Cross
<1>. QED
  BY <1>1, <1>2, <1>3

-------------------------------------------------------------------------------
\* What the steps do to the places of the events.

\* Every event stays where it is, or some of the stolen ones are dropped.
LEMMA LinesKept ==
  ASSUME PostedInv, UNCHANGED <<ecoreTimers, postVars>>, now' \in {now, now + 1},
         NEW n \in Nat, Len(Cross) = n + Len(Cross'), Len(Cross') \in Nat,
         \A i \in 1..Len(Cross') : Cross'[i] = Cross[n + i]
  PROVE  /\ \A i \in 1..Len(Cross') : Sender[Cross'[i]] # Main
         /\ \A e \in TimedEvents : InOnePlace(e)'
<1>. PICK m \in Nat : m = Len(Cross')
  OBVIOUS
<1>1. \A i \in 1..m : n + i \in 1..Len(Cross)
  OBVIOUS
<1>2. \A i \in 1..Len(Cross') : Sender[Cross'[i]] # Main
  BY <1>1 DEF PostedInv, LinePlaces
<1>3. ASSUME NEW e \in TimedEvents PROVE InOnePlace(e)'
  <2>1. InOnePlace(e) /\ e \in Events
    BY MainLoopAssumption DEF PostedInv
  <2>2. Delay[e] \in Nat /\ now \in Nat /\ earliest[e] \in Nat \cup {Idle}
    BY MainLoopAssumption DEF PostedInv, WakesInv, TypeOK
  <2>3. earliest[e] # Idle /\ earliest[e] <= now + Delay[e] => earliest[e] <= now' + Delay[e]
    BY <2>2
  <2>4. /\ e \in fresh' => earliest'[e] = Idle
        /\ ecoreTimers'[e] # Idle =>
             e \notin fresh' /\ earliest'[e] # Idle /\ earliest'[e] <= ecoreTimers'[e]
    BY <2>1 DEF InOnePlace, postVars
  <2>5. ASSUME NEW i \in 1..Len(Cross'), Cross'[i] = e
        PROVE  /\ e \notin fresh' /\ ecoreTimers'[e] = Idle
               /\ earliest'[e] # Idle /\ earliest'[e] <= now' + Delay[e]
               /\ \A j \in 1..Len(Cross') : Cross'[j] = e => i = j
    <3>1. n + i \in 1..Len(Cross) /\ Cross[n + i] = e
      BY <1>1, <2>5
    <3>2. /\ e \notin fresh /\ ecoreTimers[e] = Idle
          /\ earliest[e] # Idle /\ earliest[e] <= now + Delay[e]
          /\ \A j \in 1..Len(Cross) : Cross[j] = e => n + i = j
      BY <2>1, <3>1 DEF InOnePlace
    <3>3. ASSUME NEW j \in 1..Len(Cross'), Cross'[j] = e PROVE i = j
      <4>1. n + j \in 1..Len(Cross) /\ Cross[n + j] = e
        BY <1>1, <3>3
      <4>2. n + i = n + j
        BY <3>2, <4>1
      <4>. QED
        BY <4>2
    <3>. QED
      BY <2>3, <3>2, <3>3 DEF postVars
  <2>. QED
    BY <2>4, <2>5 DEF InOnePlace
<1>. QED
  BY <1>2, <1>3

LEMMA LinesStay ==
  ASSUME PostedInv, UNCHANGED <<ecoreTimers, postVars>>, now' \in {now, now + 1}, Cross' = Cross
  PROVE  /\ \A i \in 1..Len(Cross') : Sender[Cross'[i]] # Main
         /\ \A e \in TimedEvents : InOnePlace(e)'
<1>1. Len(Cross) \in Nat
  BY CrossIsList DEF PostedInv, WakesInv
<1>2. Len(Cross) = 0 + Len(Cross) /\ \A i \in 1..Len(Cross) : 0 + i = i
  BY <1>1
<1>. QED
  BY <1>1, <1>2, LinesKept

\* What is posted is fresh no longer, and the other events stay as they are.
LEMMA PostedTimes ==
  ASSUME PostedInv, NEW t, NEW e \in Events, Posted(t, e)
  PROVE  /\ e \in fresh /\ fresh' = fresh \ {e} /\ Sender[e] = t /\ ~lateDispatcher
         /\ \A f \in TimedEvents : f # e => earliest'[f] = earliest[f]
         /\ e \in TimedEvents => /\ earliest'[e] = now + Delay[e] /\ earliest[e] = Idle
                                 /\ now + Delay[e] \in Nat /\ now + Delay[e] # Idle
         /\ e \notin TimedEvents => earliest' = earliest
         /\ e \in TimedEvents => ecoreTimers[e] = Idle
         /\ e \in TimedEvents => \A i \in 1..Len(Cross) : Cross[i] # e
<1>1. e \in fresh /\ fresh' = fresh \ {e} /\ Sender[e] = t /\ ~lateDispatcher
  BY DEF Posted
<1>2. earliest' = [f \in TimedEvents |-> IF f = e THEN now + Delay[f] ELSE earliest[f]]
  BY DEF Posted
<1>3. earliest \in [TimedEvents -> Nat \cup {Idle}] /\ now \in Nat
  BY DEF PostedInv, WakesInv, TypeOK
<1>4. e \in TimedEvents => now + Delay[e] \in Nat /\ now + Delay[e] # Idle
  BY <1>3, MainLoopAssumption DEF Idle
<1>5. e \in TimedEvents => InOnePlace(e)
  BY DEF PostedInv
<1>6. e \in TimedEvents => /\ earliest[e] = Idle /\ ecoreTimers[e] = Idle
                           /\ \A i \in 1..Len(Cross) : Cross[i] # e
  BY <1>1, <1>5 DEF InOnePlace
<1>7. e \notin TimedEvents => earliest' = earliest
  BY <1>2, <1>3
<1>. QED
  BY <1>1, <1>2, <1>4, <1>6, <1>7

LEMMA AddedKeepsPlaces ==
  ASSUME PostedInv, NEW e \in Events, AddEventCall(e)
  PROVE  LinePlaces' /\ \A f \in TimedEvents : InOnePlace(f)'
<1>. USE MainLoopAssumption DEF PostedInv, WakesInv
<1>1. Posted(Main, e) /\ InternalAddEvent(e) /\ Cross' = Cross /\ now' = now
  BY DEF AddEventCall, crossVars, Cross
<1>2. Len(Cross) \in Nat
  BY CrossIsList
<1>3. CASE e \in TimedEvents
  <2>1. ecoreEvents' = ecoreEvents /\ ecoreTimers' = [ecoreTimers EXCEPT ![e] = now + Delay[e]]
    BY <1>1, <1>3 DEF InternalAddEvent
  <2>2. ecoreTimers'[e] = now + Delay[e] /\ \A f \in TimedEvents : f # e => ecoreTimers'[f] = ecoreTimers[f]
    BY <1>3, <2>1 DEF TypeOK
  <2>3. InOnePlace(e)'
    BY <1>1, <1>3, <2>2, PostedTimes DEF InOnePlace
  <2>4. ASSUME NEW f \in TimedEvents, f # e PROVE InOnePlace(f)'
    BY <1>1, <2>2, <2>4, PostedTimes DEF InOnePlace
  <2>. QED
    BY <1>1, <2>1, <2>3, <2>4 DEF LinePlaces
<1>4. CASE e \notin TimedEvents
  <2>1. ecoreEvents' = Append(ecoreEvents, e) /\ ecoreTimers' = ecoreTimers
    BY <1>1, <1>4 DEF InternalAddEvent
  <2>2. \A i \in 1..Len(ecoreEvents') : ecoreEvents'[i] \in Immediate
    BY <1>4, <2>1 DEF LinePlaces, TypeOK, Immediate
  <2>3. ASSUME NEW f \in TimedEvents PROVE InOnePlace(f)'
    <3>1. f # e
      BY <1>4
    <3>. QED
      BY <1>1, <2>1, <3>1, PostedTimes, SMTT(60) DEF InOnePlace
  <2>. QED
    BY <1>1, <2>2, <2>3 DEF LinePlaces
<1>. QED
  BY <1>3, <1>4

LEMMA CrossAddedKeepsPlaces ==
  ASSUME PostedInv, NEW e \in Events, NEW t \in Threads, AddCrossEventCall(t, e)
  PROVE  LinePlaces' /\ \A f \in TimedEvents : InOnePlace(f)'
<1>. USE MainLoopAssumption DEF PostedInv, WakesInv
<1>1. Posted(t, e) /\ UNCHANGED <<ecoreTimers, ecoreEvents, now>>
  BY DEF AddCrossEventCall, ecoreVars
<1>2. Cross' = Append(Cross, e)
  BY CrossAppended DEF AddCrossEventCall
<1>3. Cross \in Seq(Events) /\ Len(Cross) \in Nat
  BY CrossIsList
<1>4. /\ Len(Cross') = Len(Cross) + 1 /\ Cross'[Len(Cross) + 1] = e
      /\ \A i \in 1..Len(Cross) : Cross'[i] = Cross[i]
      /\ \A i \in 1..Len(Cross') : i \in 1..Len(Cross) \/ i = Len(Cross) + 1
  BY <1>2, <1>3
<1>5. t # Main
  OBVIOUS
<1>6. LinePlaces'
  BY <1>1, <1>4, <1>5, PostedTimes DEF LinePlaces
<1>7. ASSUME NEW f \in TimedEvents PROVE InOnePlace(f)'
  <2>1. CASE f = e
    <3>1. now + Delay[f] <= now + Delay[f]
      BY <2>1, <1>1, PostedTimes
    <3>. QED
      BY <1>1, <1>4, <2>1, <3>1, PostedTimes DEF InOnePlace
  <2>2. CASE f # e
    BY <1>1, <1>4, <2>2, PostedTimes, SMTT(60) DEF InOnePlace
  <2>. QED
    BY <2>1, <2>2
<1>. QED
  BY <1>6, <1>7

LEMMA RepushKeepsPlaces ==
  ASSUME PostedInv, RepushEvent
  PROVE  LinePlaces' /\ \A f \in TimedEvents : InOnePlace(f)'
<1>. USE MainLoopAssumption DEF PostedInv, WakesInv
<1>. PICK e : e = Head(stolenCrossEvents)
  OBVIOUS
<1>1. /\ InternalAddEvent(e) /\ now' = now /\ UNCHANGED postVars
      /\ Cross' = Tail(Cross) /\ Cross # <<>> /\ Cross[1] = e /\ e \in Events
  BY CrossShifted DEF RepushEvent
<1>2. Cross \in Seq(Events) /\ Len(Cross) \in Nat
  BY CrossIsList
<1>3. /\ 1 \in 1..Len(Cross) /\ Len(Cross) = 1 + Len(Cross') /\ Len(Cross') \in Nat
      /\ \A i \in 1..Len(Cross') : Cross'[i] = Cross[1 + i] /\ 1 + i \in 1..Len(Cross) /\ 1 + i # 1
  BY <1>1, <1>2
<1>4. \A i \in 1..Len(Cross') : Sender[Cross'[i]] # Main
  BY <1>3 DEF LinePlaces
<1>5. CASE e \in TimedEvents
  <2>1. ecoreEvents' = ecoreEvents /\ ecoreTimers' = [ecoreTimers EXCEPT ![e] = now + Delay[e]]
    BY <1>1, <1>5 DEF InternalAddEvent
  <2>2. ecoreTimers'[e] = now + Delay[e] /\ \A f \in TimedEvents : f # e => ecoreTimers'[f] = ecoreTimers[f]
    BY <1>5, <2>1 DEF TypeOK
  <2>3. InOnePlace(e)
    BY <1>5
  <2>4. /\ e \notin fresh /\ earliest[e] # Idle /\ earliest[e] <= now + Delay[e]
        /\ \A j \in 1..Len(Cross) : Cross[j] = e => 1 = j
    BY <1>1, <1>3, <2>3 DEF InOnePlace
  <2>5. \A i \in 1..Len(Cross') : Cross'[i] # e
    BY <1>3, <2>4
  <2>6. InOnePlace(e)'
    BY <1>1, <2>2, <2>4, <2>5 DEF InOnePlace, postVars
  <2>7. ASSUME NEW f \in TimedEvents, f # e PROVE InOnePlace(f)'
    <3>1. InOnePlace(f)
      OBVIOUS
    <3>. QED
      BY <1>1, <1>3, <2>2, <2>7, <3>1 DEF InOnePlace, postVars
  <2>. QED
    BY <1>4, <2>1, <2>6, <2>7 DEF LinePlaces
<1>6. CASE e \notin TimedEvents
  <2>1. ecoreEvents' = Append(ecoreEvents, e) /\ ecoreTimers' = ecoreTimers
    BY <1>1, <1>6 DEF InternalAddEvent
  <2>2. \A i \in 1..Len(ecoreEvents') : ecoreEvents'[i] \in Immediate
    BY <1>1, <1>6, <2>1 DEF LinePlaces, TypeOK, Immediate
  <2>3. \A f \in TimedEvents : InOnePlace(f)'
    BY <1>1, <1>3, <2>1, LinesKept
  <2>. QED
    BY <1>4, <2>2, <2>3 DEF LinePlaces
<1>. QED
  BY <1>5, <1>6

LEMMA DispatchedKeepsPlaces ==
  ASSUME PostedInv, NEW e \in TimedEvents, DispatchTimedEvent(e)
  PROVE  LinePlaces' /\ \A f \in TimedEvents : InOnePlace(f)'
<1>. USE MainLoopAssumption DEF PostedInv, WakesInv
<1>1. /\ ecoreTimers[e] # Idle /\ Cross' = Cross /\ UNCHANGED <<fresh, ecoreEvents, now>>
      /\ ecoreTimers' = [ecoreTimers EXCEPT ![e] = Idle]
      /\ earliest' = [earliest EXCEPT ![e] = Idle]
  BY DEF DispatchTimedEvent, crossVars, Cross
<1>2. /\ ecoreTimers'[e] = Idle /\ earliest'[e] = Idle
      /\ \A f \in TimedEvents : f # e => ecoreTimers'[f] = ecoreTimers[f] /\ earliest'[f] = earliest[f]
  BY <1>1 DEF TypeOK
<1>3. InOnePlace(e) /\ e \notin fresh /\ \A i \in 1..Len(Cross) : Cross[i] # e
  BY <1>1 DEF InOnePlace
<1>4. InOnePlace(e)'
  BY <1>1, <1>2, <1>3 DEF InOnePlace
<1>5. ASSUME NEW f \in TimedEvents, f # e PROVE InOnePlace(f)'
  <2>1. InOnePlace(f)
    OBVIOUS
  <2>. QED
    BY <1>1, <1>2, <1>5, <2>1 DEF InOnePlace
<1>. QED
  BY <1>1, <1>4, <1>5 DEF LinePlaces

\* Steps of other threads, and those that leave the main thread where it is.
LEMMA PlaceStays ==
  ASSUME MainPlace, UNCHANGED <<running, crashed, lateDispatcher, stolenCrossEvents>>,
         pc'[Main] = pc[Main]
  PROVE  MainPlace'
BY DEF MainPlace

\* The main thread goes to where nothing of the sort happens.
LEMMA PlaceGoes ==
  ASSUME MainPlace, UNCHANGED <<running, crashed, lateDispatcher, stolenCrossEvents>>,
         pc[Main] \notin {"handler", "repush"}, ~crashed,
         pc'[Main] \in {"loop", "invoker", "watcher", "listener"}
  PROVE  MainPlace'
BY DEF MainPlace

LEMMA PlaceNext ==
  ASSUME PostedInv, [Next]_vars
  PROVE  MainPlace'
<1>. USE MainLoopAssumption DEF PostedInv, WakesInv
<1>0. /\ Main \in Senders /\ DOMAIN pc = Senders /\ \A t \in Threads : t # Main
      /\ NoOne \notin Events
  BY DEF Senders, TypeOK
<1>1. CASE UNCHANGED vars
  BY <1>1, PlaceStays DEF vars, crossVars, lifeVars
<1>2. CASE ResetCrossInvoker
  BY <1>0, <1>2 DEF ResetCrossInvoker, InLoop, Goto, MainPlace, lifeVars
<1>3. CASE StealCrossEvents
  BY <1>0, <1>3 DEF StealCrossEvents, Goto, MainPlace, lifeVars
<1>4. CASE RepushEvent
  BY <1>0, <1>4 DEF RepushEvent, MainPlace, lifeVars
<1>5. CASE RepushFails
  BY <1>0, <1>5 DEF RepushFails, Goto, MainPlace
<1>6. CASE EndCrossInvoker
  BY <1>0, <1>6 DEF EndCrossInvoker, Goto, MainPlace, crossVars, lifeVars
<1>7. CASE DispatchEvent
  <2>1. Head(ecoreEvents) \in Events
    BY <1>7 DEF DispatchEvent, TypeOK
  <2>2. UNCHANGED <<stolenCrossEvents, lateDispatcher, crashed>> /\ pc[Main] = "loop" /\ ~crashed
    BY <1>7 DEF DispatchEvent, InLoop, crossVars, lifeVars
  <2>3. CASE lateDispatcher
    BY <1>7, <2>2, <2>3, PlaceStays DEF DispatchEvent
  <2>4. CASE ~lateDispatcher
    BY <1>0, <1>7, <2>1, <2>2, <2>4 DEF DispatchEvent, Goto, MainPlace
  <2>. QED
    BY <2>3, <2>4
<1>8. ASSUME NEW e \in TimedEvents, DispatchTimedEvent(e) PROVE MainPlace'
  <2>1. e \in Events
    OBVIOUS
  <2>2. UNCHANGED <<stolenCrossEvents, lateDispatcher, crashed>> /\ pc[Main] = "loop" /\ ~crashed
    BY <1>8 DEF DispatchTimedEvent, InLoop, crossVars, lifeVars
  <2>3. CASE lateDispatcher
    BY <1>8, <2>2, <2>3, PlaceStays DEF DispatchTimedEvent
  <2>4. CASE ~lateDispatcher
    BY <1>0, <1>8, <2>1, <2>2, <2>4 DEF DispatchTimedEvent, Goto, MainPlace
  <2>. QED
    BY <2>3, <2>4
<1>9. CASE EnterLoop
  BY <1>0, <1>9 DEF EnterLoop, Goto, MainPlace, crossVars, lifeVars
<1>10. CASE DispatchInvoker
  BY <1>0, <1>10 DEF DispatchInvoker, InLoop, Goto, MainPlace, crossVars, lifeVars
<1>11. ASSUME NEW w \in Watches, DispatchWatcher(w) PROVE MainPlace'
  BY <1>0, <1>11 DEF DispatchWatcher, InLoop, Goto, MainPlace, crossVars, lifeVars
<1>12. CASE HandleWatcher
  BY <1>0, <1>12 DEF HandleWatcher, Goto, MainPlace, crossVars, lifeVars
<1>13. CASE EndListener
  BY <1>0, <1>13 DEF EndListener, Goto, MainPlace, crossVars, lifeVars
<1>14. CASE Destroy
  BY <1>14 DEF Destroy, InLoop, MainPlace, crossVars
<1>15. CASE Tick
  BY <1>15, PlaceStays DEF Tick, crossVars, lifeVars
<1>16. ASSUME NEW e \in Events, AddEventCall(e) PROVE MainPlace'
  BY <1>16, PlaceStays DEF AddEventCall, crossVars, lifeVars
<1>17. ASSUME NEW e \in Events, NEW t \in Threads, AddCrossEventCall(t, e) PROVE MainPlace'
  BY <1>0, <1>17, PlaceStays DEF AddCrossEventCall, Goto, lifeVars
<1>18. ASSUME NEW t \in Threads, SignalCrossInvoker(t) PROVE MainPlace'
  BY <1>0, <1>18, PlaceStays DEF SignalCrossInvoker, Goto, lifeVars
<1>19. ASSUME NEW w \in Watches, ChangeDirectly(w) PROVE MainPlace'
  BY <1>19, PlaceStays DEF ChangeDirectly, crossVars, lifeVars
<1>20. ASSUME NEW w \in Watches, NEW t \in Threads, ChangeIndirectly(t, w) PROVE MainPlace'
  BY <1>0, <1>20, PlaceStays DEF ChangeIndirectly, Goto, crossVars, lifeVars
<1>. QED
  BY <1>1, <1>2, <1>3, <1>4, <1>5, <1>6, <1>7, <1>8, <1>9, <1>10, <1>11, <1>12, <1>13, <1>14,
     <1>15, <1>16, <1>17, <1>18, <1>19, <1>20 DEF Next, MainStep

\* The steps that have nothing to do with posted events.
OtherStep ==
  \/ ResetCrossInvoker \/ EndCrossInvoker \/ DispatchInvoker \/ HandleWatcher \/ EndListener
  \/ \E w \in Watches : DispatchWatcher(w) \/ ChangeDirectly(w) \/ \E t \in Threads : ChangeIndirectly(t, w)
  \/ \E t \in Threads : SignalCrossInvoker(t)
  \/ UNCHANGED vars

LEMMA OthersLeave ==
  ASSUME OtherStep
  PROVE  UNCHANGED <<stolenCrossEvents, m_wrappedCrossEventCallList, ecoreVars, postVars, lifeVars,
                     now, running>>
BY DEF OtherStep, ResetCrossInvoker, EndCrossInvoker, DispatchInvoker, HandleWatcher, EndListener,
       DispatchWatcher, ChangeDirectly, ChangeIndirectly, SignalCrossInvoker, vars, crossVars

LEMMA StepIsOneOf ==
  ASSUME [Next]_vars
  PROVE  \/ OtherStep
         \/ \E e \in Events : AddEventCall(e) \/ \E t \in Threads : AddCrossEventCall(t, e)
         \/ StealCrossEvents \/ RepushEvent \/ RepushFails \/ DispatchEvent
         \/ \E e \in TimedEvents : DispatchTimedEvent(e)
         \/ EnterLoop \/ Destroy \/ Tick
BY DEF Next, MainStep, OtherStep

LEMMA PostedNext == PostedInv /\ [Next]_vars => PostedInv'
<1>. SUFFICES ASSUME PostedInv, [Next]_vars PROVE PostedInv'
  OBVIOUS
<1>1. WakesInv' /\ MainPlace'
  BY WakesNext, PlaceNext DEF PostedInv
<1>2. ASSUME UNCHANGED <<ecoreTimers, postVars, ecoreEvents>>, Cross' = Cross, now' \in {now, now + 1}
      PROVE  LinePlaces' /\ \A f \in TimedEvents : InOnePlace(f)'
  BY <1>2, LinesStay DEF LinePlaces, PostedInv
<1>3. LinePlaces' /\ \A f \in TimedEvents : InOnePlace(f)'
  <2>1. CASE OtherStep
    BY <1>2, <2>1, OthersLeave DEF ecoreVars, postVars, Cross
  <2>2. CASE \E e \in Events : AddEventCall(e) \/ \E t \in Threads : AddCrossEventCall(t, e)
    BY <2>2, AddedKeepsPlaces, CrossAddedKeepsPlaces
  <2>3. CASE StealCrossEvents
    BY <1>2, <2>3, CrossStolen DEF StealCrossEvents, PostedInv, WakesInv, ecoreVars, postVars
  <2>4. CASE RepushEvent
    BY <2>4, RepushKeepsPlaces
  <2>5. CASE RepushFails
    <3>1. /\ UNCHANGED <<ecoreTimers, postVars, ecoreEvents, now>>
          /\ \E n \in Nat : /\ Len(Cross) = n + Len(Cross')
                            /\ \A i \in 1..Len(Cross') : Cross'[i] = Cross[n + i]
      BY <2>5, CrossDropped DEF RepushFails, PostedInv, WakesInv, ecoreVars
    <3>2. Len(Cross') \in Nat
      BY <1>1, CrossIsList DEF WakesInv, TypeOK, Cross
    <3>. QED
      BY <3>1, <3>2, LinesKept DEF LinePlaces, PostedInv
  <2>6. CASE DispatchEvent
    <3>1. UNCHANGED <<ecoreTimers, postVars, now>> /\ Cross' = Cross /\ ecoreEvents' = Tail(ecoreEvents)
          /\ ecoreEvents # <<>>
      BY <2>6 DEF DispatchEvent, crossVars, Cross
    <3>2. \A i \in 1..Len(ecoreEvents') : ecoreEvents'[i] \in Immediate
      BY <3>1 DEF LinePlaces, PostedInv, WakesInv, TypeOK
    <3>. QED
      BY <3>1, <3>2, LinesStay DEF LinePlaces
  <2>7. CASE \E e \in TimedEvents : DispatchTimedEvent(e)
    BY <2>7, DispatchedKeepsPlaces
  <2>8. CASE EnterLoop \/ Destroy \/ Tick
    BY <1>2, <2>8 DEF EnterLoop, Destroy, Tick, crossVars, ecoreVars, postVars, Cross
  <2>. QED
    BY <2>1, <2>2, <2>3, <2>4, <2>5, <2>6, <2>7, <2>8, StepIsOneOf
<1>. QED
  BY <1>1, <1>3 DEF PostedInv

-------------------------------------------------------------------------------
\* What is kept of the lists of the events, for one sender.

LEMMA KeptOfFirst ==
  ASSUME NEW E, NEW l \in Seq(E), l # <<>>, NEW S
  PROVE  /\ Head(l) \in S => Kept(l, S) = <<Head(l)>> \o Kept(Tail(l), S)
         /\ Head(l) \notin S => Kept(l, S) = Kept(Tail(l), S)
<1>. PICK x : x = Head(l)
  OBVIOUS
<1>. PICK t : t = Tail(l)
  OBVIOUS
<1>1. x \in E /\ t \in Seq(E) /\ <<x>> \in Seq(E) /\ l = <<x>> \o t
  OBVIOUS
<1>2. <<>> \in Seq(E) /\ Append(<<>>, x) = <<x>>
  BY <1>1
<1>3. /\ x \in S => Kept(Append(<<>>, x), S) = Append(Kept(<<>>, S), x)
      /\ x \notin S => Kept(Append(<<>>, x), S) = Kept(<<>>, S)
  <2>. PICK e : e = <<>>
    OBVIOUS
  <2>1. e \in Seq(E)
    BY <1>2
  <2>2. /\ x \in S => Kept(Append(e, x), S) = Append(Kept(e, S), x)
        /\ x \notin S => Kept(Append(e, x), S) = Kept(e, S)
    BY ONLY <1>1, <2>1, KeptOfAppended
  <2>. QED
    BY <2>2
<1>4. /\ x \in S => Kept(<<x>>, S) = <<x>>
      /\ x \notin S => Kept(<<x>>, S) = <<>>
  BY <1>2, <1>3, KeptOfEmpty
<1>5. Kept(<<x>> \o t, S) = Kept(<<x>>, S) \o Kept(t, S)
  <2>. PICK e : e = <<x>>
    OBVIOUS
  <2>1. e \in Seq(E)
    BY <1>1
  <2>2. Kept(e \o t, S) = Kept(e, S) \o Kept(t, S)
    BY ONLY <1>1, <2>1, KeptOfBoth
  <2>. QED
    BY <2>2
<1>6. Kept(t, S) \in Seq(S \cap E)
  BY <1>1, KeptTyped
<1>7. <<>> \o Kept(t, S) = Kept(t, S)
  BY <1>6
<1>. QED
  BY <1>1, <1>4, <1>5, <1>7

Own(s) == {e \in Immediate : Sender[e] = s}

\* The abstract state.
QueueOf(s) == FromSender(s, ecoreEvents \o stolenCrossEvents \o m_wrappedCrossEventCallList)
Queues == [s \in Senders |-> IF Over THEN <<>> ELSE
             FromSender(s, ecoreEvents \o stolenCrossEvents \o m_wrappedCrossEventCallList)]
Times == [e \in TimedEvents |-> IF Over THEN Idle ELSE earliest[e]]

LEMMA QueueIsBoth ==
  ASSUME TypeOK, NEW s
  PROVE  /\ QueueOf(s) = Kept(ecoreEvents, Own(s)) \o Kept(Cross, Own(s))
         /\ Kept(ecoreEvents, Own(s)) \in Seq(Events) /\ Kept(Cross, Own(s)) \in Seq(Events)
<1>1. ecoreEvents \in Seq(Events) /\ stolenCrossEvents \in Seq(Events)
      /\ m_wrappedCrossEventCallList \in Seq(Events) /\ Cross \in Seq(Events)
  BY CrossIsList DEF TypeOK
<1>. PICK S : S = Own(s)
  OBVIOUS
<1>2. QueueOf(s) = Kept(ecoreEvents, S) \o Kept(Cross, S)
  <2>. PICK a : a = ecoreEvents
    OBVIOUS
  <2>. PICK b : b = stolenCrossEvents
    OBVIOUS
  <2>. PICK c : c = m_wrappedCrossEventCallList
    OBVIOUS
  <2>1. a \in Seq(Events) /\ b \in Seq(Events) /\ c \in Seq(Events)
    BY <1>1
  <2>. PICK d : d = b \o c
    OBVIOUS
  <2>2. a \in Seq(Events) /\ d \in Seq(Events) /\ a \o b \o c = a \o d
    BY <2>1
  <2>3. Kept(a \o d, S) = Kept(a, S) \o Kept(d, S)
    BY ONLY <2>2, KeptOfBoth
  <2>4. QueueOf(s) = Kept(a \o b \o c, S) /\ Cross = b \o c
    BY DEF QueueOf, FromSender, Own, Cross
  <2>. QED
    BY <2>2, <2>3, <2>4
<1>3. Kept(ecoreEvents, S) \in Seq(S \cap Events) /\ Kept(Cross, S) \in Seq(S \cap Events)
  BY <1>1, KeptTyped
<1>. QED
  BY <1>2, <1>3

\* The same after a step.
LEMMA NextQueueIsBoth ==
  ASSUME TypeOK', NEW s
  PROVE  /\ QueueOf(s)' = Kept(ecoreEvents', Own(s)) \o Kept(Cross', Own(s))
         /\ Kept(ecoreEvents', Own(s)) \in Seq(Events) /\ Kept(Cross', Own(s)) \in Seq(Events)
<1>1. ecoreEvents' \in Seq(Events) /\ stolenCrossEvents' \in Seq(Events)
      /\ m_wrappedCrossEventCallList' \in Seq(Events) /\ Cross' \in Seq(Events)
  BY DEF TypeOK, Cross
<1>. PICK S : S = Own(s)
  OBVIOUS
<1>2. QueueOf(s)' = Kept(ecoreEvents', S) \o Kept(Cross', S)
  <2>. PICK a : a = ecoreEvents'
    OBVIOUS
  <2>. PICK b : b = stolenCrossEvents'
    OBVIOUS
  <2>. PICK c : c = m_wrappedCrossEventCallList'
    OBVIOUS
  <2>1. a \in Seq(Events) /\ b \in Seq(Events) /\ c \in Seq(Events)
    BY <1>1
  <2>. PICK d : d = b \o c
    OBVIOUS
  <2>2. a \in Seq(Events) /\ d \in Seq(Events) /\ a \o b \o c = a \o d
    BY <2>1
  <2>3. Kept(a \o d, S) = Kept(a, S) \o Kept(d, S)
    BY ONLY <2>2, KeptOfBoth
  <2>4. QueueOf(s)' = Kept(a \o b \o c, S) /\ Cross' = b \o c
    BY DEF QueueOf, FromSender, Own, Cross
  <2>. QED
    BY <2>2, <2>3, <2>4
<1>3. Kept(ecoreEvents', S) \in Seq(S \cap Events) /\ Kept(Cross', S) \in Seq(S \cap Events)
  BY <1>1, KeptTyped
<1>. QED
  BY <1>2, <1>3

\* When the queues of the senders are the same, when one grows, when one shrinks.
LEMMA QueuesStay ==
  ASSUME (Over' <=> Over), ~Over => \A s \in Senders : QueueOf(s)' = QueueOf(s)
  PROVE  Queues' = Queues
<1>1. CASE Over
  BY <1>1 DEF Queues
<1>2. CASE ~Over
  BY <1>2 DEF Queues, QueueOf
<1>. QED
  BY <1>1, <1>2

LEMMA QueuesGrow ==
  ASSUME ~Over, ~Over', NEW e \in Events, Sender[e] \in Senders,
         QueueOf(Sender[e])' = Append(QueueOf(Sender[e]), e),
         \A s \in Senders : s # Sender[e] => QueueOf(s)' = QueueOf(s)
  PROVE  Queues' = [Queues EXCEPT ![Sender[e]] = Append(@, e)]
BY DEF Queues, QueueOf

LEMMA QueuesShrink ==
  ASSUME ~Over, ~Over', NEW t \in Senders, NEW e,
         QueueOf(t) = <<e>> \o QueueOf(t)', QueueOf(t)' \in Seq(Events), e \in Events,
         \A s \in Senders : s # t => QueueOf(s)' = QueueOf(s)
  PROVE  /\ Queues' = [Queues EXCEPT ![t] = Tail(@)]
         /\ Queues[t] # <<>> /\ Head(Queues[t]) = e
<1>. PICK q : q = QueueOf(t)'
  OBVIOUS
<1>1. q \in Seq(Events) /\ <<e>> \o q # <<>> /\ Head(<<e>> \o q) = e /\ Tail(<<e>> \o q) = q
  OBVIOUS
<1>2. Queues[t] = QueueOf(t) /\ Queues'[t] = QueueOf(t)'
  BY DEF Queues, QueueOf
<1>3. \A s \in Senders : Queues'[s] = IF s = t THEN Tail(Queues[t]) ELSE Queues[s]
  BY <1>1, <1>2 DEF Queues, QueueOf
<1>4. Queues' = [s \in Senders |-> Queues'[s]] /\ Queues = [s \in Senders |-> Queues[s]]
  BY DEF Queues
<1>. QED
  BY <1>1, <1>2, <1>3, <1>4

LEMMA QueuesEmpty ==
  ASSUME Over'
  PROVE  Queues' = [s \in Senders |-> <<>>] /\ Times' = [e \in TimedEvents |-> Idle]
BY DEF Queues, Times

\* The steps of PostedEvents, by their names here.
LEMMA Stutters ==
  ASSUME UNCHANGED <<Queues, Times, running, now>>
  PROVE  UNCHANGED Posts!vars
BY DEF Posts!vars, Queues, Times

LEMMA Posting ==
  ASSUME NEW e \in Events, Queues' = [Queues EXCEPT ![Sender[e]] = Append(@, e)],
         UNCHANGED <<Times, running, now>>
  PROVE  Posts!Next
<1>1. Posts!Post(e)
  BY DEF Posts!Post, Queues, Times
<1>. QED
  BY <1>1 DEF Posts!Next

LEMMA Arming ==
  ASSUME NEW e \in TimedEvents, UNCHANGED <<Queues, running, now>>, Times[e] = Idle,
         Times' = [Times EXCEPT ![e] = Times'[e]], Times'[e] >= now
  PROVE  Posts!Next
<1>1. Posts!Arm(e)
  BY DEF Posts!Arm, Queues, Times
<1>. QED
  BY <1>1 DEF Posts!Next

LEMMA Delivering ==
  ASSUME NEW s \in Senders, running = NoOne, Queues[s] # <<>>, running' = Head(Queues[s]),
         Queues' = [Queues EXCEPT ![s] = Tail(@)], UNCHANGED <<Times, now>>
  PROVE  Posts!Next
<1>1. Posts!Deliver(s)
  BY DEF Posts!Deliver, Queues, Times
<1>. QED
  BY <1>1 DEF Posts!Next

LEMMA Firing ==
  ASSUME NEW e \in TimedEvents, running = NoOne, Times[e] # Idle, Times[e] <= now, running' = e,
         Times' = [Times EXCEPT ![e] = Idle], UNCHANGED <<Queues, now>>
  PROVE  Posts!Next
<1>1. Posts!Fire(e)
  BY DEF Posts!Fire, Queues, Times
<1>. QED
  BY <1>1 DEF Posts!Next

LEMMA Returning ==
  ASSUME running # NoOne, running' = NoOne, UNCHANGED <<Queues, Times, now>>
  PROVE  Posts!Next
<1>1. Posts!Return
  BY DEF Posts!Return, Queues, Times
<1>. QED
  BY <1>1 DEF Posts!Next

LEMMA Advancing ==
  ASSUME now' = now + 1, UNCHANGED <<Queues, Times, running>>
  PROVE  Posts!Next
<1>1. Posts!Advance
  BY DEF Posts!Advance, Queues, Times
<1>. QED
  BY <1>1 DEF Posts!Next

LEMMA Ending ==
  ASSUME running = NoOne, Over', UNCHANGED <<running, now>>
  PROVE  Posts!Next
<1>1. Queues' = [s \in Senders |-> <<>>] /\ Times' = [e \in TimedEvents |-> Idle]
  BY QueuesEmpty
<1>2. Posts!End
  BY <1>1 DEF Posts!End, Posts!Nothing, Posts!NoTimers, Queues, Times
<1>. QED
  BY <1>2 DEF Posts!Next

-------------------------------------------------------------------------------
\* Every step is one of PostedEvents.

LEMMA TimesStay ==
  ASSUME (Over' <=> Over), ~Over => earliest' = earliest
  PROVE  Times' = Times
BY DEF Times

\* The main thread posts; what other threads have posted is not from it.
LEMMA AddedIsPosted ==
  ASSUME PostedInv, PostedInv', NEW e \in Events, AddEventCall(e)
  PROVE  [Posts!Next]_(Posts!vars)
<1>. USE MainLoopAssumption DEF PostedInv, WakesInv
<1>1. /\ Posted(Main, e) /\ InternalAddEvent(e) /\ Cross' = Cross
      /\ UNCHANGED <<crashed, lateDispatcher, now, running>>
      /\ pc[Main] \in {"start", "handler", "listener"}
  BY DEF AddEventCall, crossVars, lifeVars, Cross, AppCode
<1>2. ~Over /\ ~Over' /\ Sender[e] = Main /\ Main \in Senders
  BY <1>1, PostedTimes DEF Over, MainPlace, Senders
<1>3. CASE e \in TimedEvents
  <2>1. ecoreEvents' = ecoreEvents
    BY <1>1, <1>3 DEF InternalAddEvent
  <2>2. \A s \in Senders : QueueOf(s)' = QueueOf(s)
    BY <1>1, <2>1, QueueIsBoth, NextQueueIsBoth
  <2>3. Queues' = Queues
    BY <1>2, <2>2, QueuesStay
  <2>4. /\ Times[e] = Idle /\ Times'[e] >= now
        /\ \A f \in TimedEvents : f # e => Times'[f] = Times[f]
    <3>1. /\ earliest'[e] = now + Delay[e] /\ earliest[e] = Idle
          /\ \A f \in TimedEvents : f # e => earliest'[f] = earliest[f]
      BY <1>1, <1>3, PostedTimes
    <3>2. now + Delay[e] >= now
      BY <1>3 DEF TypeOK
    <3>. QED
      BY <1>2, <1>3, <3>1, <3>2 DEF Times
  <2>5. Times' = [Times EXCEPT ![e] = Times'[e]]
    BY <1>3, <2>4 DEF Times
  <2>6. Posts!Next
    BY <1>1, <1>3, <2>3, <2>4, <2>5, Arming
  <2>. QED
    BY <2>6
<1>4. CASE e \notin TimedEvents
  <2>1. ecoreEvents' = Append(ecoreEvents, e) /\ e \in Immediate
    BY <1>1, <1>4 DEF InternalAddEvent, Immediate
  <2>2. ecoreEvents \in Seq(Events)
    BY DEF TypeOK
  <2>3. Kept(Cross, Own(Main)) = <<>>
    <3>1. \A i \in 1..Len(Cross) : Cross[i] \notin Own(Main)
      BY DEF Own, LinePlaces
    <3>2. Cross \in Seq(Events)
      BY CrossIsList
    <3>. QED
      BY <3>1, <3>2, KeptOfNone
  <2>4. QueueOf(Main)' = Append(QueueOf(Main), e)
    <3>. PICK S : S = Own(Main)
      OBVIOUS
    <3>. PICK k : k = Kept(ecoreEvents, S)
      OBVIOUS
    <3>1. e \in S
      BY <1>2, <2>1 DEF Own
    <3>2. Kept(Append(ecoreEvents, e), S) = Append(k, e)
      BY ONLY <2>2, <3>1, k = Kept(ecoreEvents, S), e \in Events, KeptOfAppended
    <3>3. QueueOf(Main) = k \o <<>> /\ QueueOf(Main)' = Append(k, e) \o <<>> /\ k \in Seq(Events)
      BY <1>1, <2>1, <2>3, <3>2, QueueIsBoth, NextQueueIsBoth
    <3>4. k \o <<>> = k /\ Append(k, e) \o <<>> = Append(k, e)
      BY <3>3
    <3>. QED
      BY <3>3, <3>4
  <2>5. ASSUME NEW s \in Senders, s # Main PROVE QueueOf(s)' = QueueOf(s)
    <3>. PICK S : S = Own(s)
      OBVIOUS
    <3>1. e \notin S
      BY <1>2, <2>5 DEF Own
    <3>2. Kept(Append(ecoreEvents, e), S) = Kept(ecoreEvents, S)
      BY ONLY <2>2, <3>1, e \in Events, KeptOfAppended
    <3>. QED
      BY <1>1, <2>1, <3>2, QueueIsBoth, NextQueueIsBoth
  <2>6. Queues' = [Queues EXCEPT ![Sender[e]] = Append(@, e)]
    BY <1>2, <2>4, <2>5, QueuesGrow
  <2>7. Times' = Times
    BY <1>1, <1>2, <1>4, PostedTimes, TimesStay
  <2>8. Posts!Next
    BY <1>1, <2>6, <2>7, Posting
  <2>. QED
    BY <2>8
<1>. QED
  BY <1>3, <1>4

\* Another thread posts.
LEMMA CrossAddedIsPosted ==
  ASSUME PostedInv, PostedInv', NEW e \in Events, NEW t \in Threads, AddCrossEventCall(t, e)
  PROVE  [Posts!Next]_(Posts!vars)
<1>. USE MainLoopAssumption DEF PostedInv, WakesInv
<1>1. /\ Posted(t, e) /\ UNCHANGED <<ecoreEvents, crashed, lateDispatcher, now, running>>
  BY DEF AddCrossEventCall, ecoreVars, lifeVars
<1>2. Cross' = Append(Cross, e) /\ Cross \in Seq(Events)
  BY CrossAppended, CrossIsList DEF AddCrossEventCall
<1>3. (Over' <=> Over) /\ Sender[e] = t /\ t \in Senders
  BY <1>1, PostedTimes DEF Over, Senders
<1>4. ASSUME NEW s \in Senders
      PROVE  /\ e \in Own(s) => QueueOf(s)' = Append(QueueOf(s), e)
             /\ e \notin Own(s) => QueueOf(s)' = QueueOf(s)
  <2>. PICK S : S = Own(s)
    OBVIOUS
  <2>. PICK k : k = Kept(Cross, S)
    OBVIOUS
  <2>. PICK m : m = Kept(ecoreEvents, S)
    OBVIOUS
  <2>1. /\ e \in S => Kept(Append(Cross, e), S) = Append(k, e)
        /\ e \notin S => Kept(Append(Cross, e), S) = k
    BY ONLY <1>2, k = Kept(Cross, S), e \in Events, KeptOfAppended
  <2>2. QueueOf(s) = m \o k /\ QueueOf(s)' = m \o Kept(Cross', S) /\ m \in Seq(Events) /\ k \in Seq(Events)
    BY <1>1, QueueIsBoth, NextQueueIsBoth
  <2>3. m \o Append(k, e) = Append(m \o k, e)
    BY <2>2
  <2>. QED
    BY <1>2, <2>1, <2>2, <2>3
<1>5. CASE Over
  <2>1. Queues' = Queues /\ Times' = Times
    BY <1>3, <1>5, QueuesStay, TimesStay
  <2>. QED
    BY <1>1, <2>1, Stutters
<1>6. CASE ~Over /\ e \in TimedEvents
  <2>1. \A s \in Senders : e \notin Own(s)
    BY <1>6 DEF Own, Immediate
  <2>2. Queues' = Queues
    BY <1>3, <1>4, <2>1, QueuesStay
  <2>3. /\ Times[e] = Idle /\ Times'[e] >= now
        /\ \A f \in TimedEvents : f # e => Times'[f] = Times[f]
    <3>1. /\ earliest'[e] = now + Delay[e] /\ earliest[e] = Idle
          /\ \A f \in TimedEvents : f # e => earliest'[f] = earliest[f]
      BY <1>1, <1>6, PostedTimes
    <3>2. now + Delay[e] >= now
      BY <1>6 DEF TypeOK
    <3>. QED
      BY <1>3, <1>6, <3>1, <3>2 DEF Times
  <2>4. Times' = [Times EXCEPT ![e] = Times'[e]]
    BY <1>6, <2>3 DEF Times
  <2>5. Posts!Next
    BY <1>1, <1>6, <2>2, <2>3, <2>4, Arming
  <2>. QED
    BY <2>5
<1>7. CASE ~Over /\ e \notin TimedEvents
  <2>1. \A s \in Senders : e \in Own(s) <=> s = Sender[e]
    BY <1>7 DEF Own, Immediate
  <2>2. Queues' = [Queues EXCEPT ![Sender[e]] = Append(@, e)]
    BY <1>3, <1>4, <1>7, <2>1, QueuesGrow
  <2>3. Times' = Times
    BY <1>1, <1>3, <1>7, PostedTimes, TimesStay
  <2>4. Posts!Next
    BY <1>1, <2>2, <2>3, Posting
  <2>. QED
    BY <2>4
<1>. QED
  BY <1>5, <1>6, <1>7

\* A stolen event goes from the front of one list to the end of the other, or to a timer.
LEMMA RepushedIsThere ==
  ASSUME PostedInv, PostedInv', RepushEvent
  PROVE  [Posts!Next]_(Posts!vars)
<1>. USE MainLoopAssumption DEF PostedInv, WakesInv
<1>. PICK e : e = Head(stolenCrossEvents)
  OBVIOUS
<1>1. /\ InternalAddEvent(e) /\ UNCHANGED <<earliest, crashed, lateDispatcher, now, running>>
      /\ Cross' = Tail(Cross) /\ Cross # <<>> /\ Head(Cross) = e /\ e \in Events
      /\ Cross \in Seq(Events) /\ ecoreEvents \in Seq(Events)
  BY CrossShifted, CrossIsList DEF RepushEvent, postVars, lifeVars, TypeOK
<1>2. (Over' <=> Over) /\ Times' = Times
  BY <1>1, TimesStay DEF Over
<1>3. ASSUME NEW s \in Senders PROVE QueueOf(s)' = QueueOf(s)
  <2>. PICK S : S = Own(s)
    OBVIOUS
  <2>. PICK m : m = Kept(ecoreEvents, S)
    OBVIOUS
  <2>. PICK k : k = Kept(Tail(Cross), S)
    OBVIOUS
  <2>. PICK cross : cross = Cross
    OBVIOUS
  <2>1. /\ e \in S => Kept(cross, S) = <<e>> \o k
        /\ e \notin S => Kept(cross, S) = k
    <3>1. cross \in Seq(Events) /\ cross # <<>> /\ Head(cross) = e
      BY <1>1
    <3>2. /\ e \in S => Kept(cross, S) = <<e>> \o Kept(Tail(cross), S)
          /\ e \notin S => Kept(cross, S) = Kept(Tail(cross), S)
      BY ONLY <3>1, KeptOfFirst
    <3>. QED
      BY <3>2
  <2>2. QueueOf(s) = m \o Kept(cross, S) /\ QueueOf(s)' = Kept(ecoreEvents', S) \o k
        /\ m \in Seq(Events) /\ k \in Seq(Events)
    BY <1>1, QueueIsBoth, NextQueueIsBoth
  <2>3. CASE e \in TimedEvents
    <3>1. ecoreEvents' = ecoreEvents /\ e \notin S
      BY <1>1, <2>3 DEF InternalAddEvent, Own, Immediate
    <3>. QED
      BY <2>1, <2>2, <3>1
  <2>4. CASE e \notin TimedEvents
    <3>1. ecoreEvents' = Append(ecoreEvents, e)
      BY <1>1, <2>4 DEF InternalAddEvent
    <3>2. /\ e \in S => Kept(Append(ecoreEvents, e), S) = Append(m, e)
          /\ e \notin S => Kept(Append(ecoreEvents, e), S) = m
      BY ONLY <1>1, m = Kept(ecoreEvents, S), KeptOfAppended
    <3>3. Append(m, e) \o k = m \o (<<e>> \o k)
      BY <1>1, <2>2, SMTT(60)
    <3>. QED
      BY <2>1, <2>2, <3>1, <3>2, <3>3
  <2>. QED
    BY <2>3, <2>4
<1>4. Queues' = Queues
  BY <1>2, <1>3, QueuesStay
<1>. QED
  BY <1>1, <1>2, <1>4, Stutters

\* The oldest event of ecore's queue is the oldest of its sender's.
LEMMA DispatchedIsDelivered ==
  ASSUME PostedInv, PostedInv', DispatchEvent
  PROVE  [Posts!Next]_(Posts!vars)
<1>. USE MainLoopAssumption DEF PostedInv, WakesInv
<1>. PICK e : e = Head(ecoreEvents)
  OBVIOUS
<1>1. /\ ecoreEvents # <<>> /\ ecoreEvents' = Tail(ecoreEvents) /\ Cross' = Cross
      /\ UNCHANGED <<earliest, crashed, lateDispatcher, now>> /\ ~crashed /\ pc[Main] = "loop"
      /\ ecoreEvents \in Seq(Events)
  BY DEF DispatchEvent, InLoop, crossVars, postVars, lifeVars, Cross, TypeOK
<1>2. (Over' <=> Over) /\ Times' = Times /\ (Over <=> lateDispatcher) /\ running = NoOne
  BY <1>1, TimesStay DEF Over, MainPlace
<1>3. CASE lateDispatcher
  <2>1. Queues' = Queues
    BY <1>2, <1>3, QueuesStay
  <2>2. running' = running
    BY <1>3 DEF DispatchEvent
  <2>. QED
    BY <1>1, <1>2, <2>1, <2>2, Stutters
<1>4. CASE ~lateDispatcher
  <2>1. running' = e /\ e \in Immediate /\ e \in Events /\ Sender[e] \in Senders
    <3>1. 1 \in 1..Len(ecoreEvents) /\ e = ecoreEvents[1] /\ e \in Events
      BY <1>1
    <3>. QED
      BY <1>4, <3>1 DEF DispatchEvent, LinePlaces
  <2>2. ASSUME NEW s \in Senders
        PROVE  /\ s = Sender[e] => QueueOf(s) = <<e>> \o QueueOf(s)'
               /\ s # Sender[e] => QueueOf(s)' = QueueOf(s)
               /\ QueueOf(s)' \in Seq(Events)
    <3>. PICK S : S = Own(s)
      OBVIOUS
    <3>. PICK l : l = ecoreEvents
      OBVIOUS
    <3>. PICK m : m = Kept(Tail(l), S)
      OBVIOUS
    <3>. PICK k : k = Kept(Cross, S)
      OBVIOUS
    <3>1. /\ e \in S => Kept(l, S) = <<e>> \o m
          /\ e \notin S => Kept(l, S) = m
      <4>1. l \in Seq(Events) /\ l # <<>> /\ Head(l) = e
        BY <1>1
      <4>2. /\ e \in S => Kept(l, S) = <<e>> \o Kept(Tail(l), S)
            /\ e \notin S => Kept(l, S) = Kept(Tail(l), S)
        BY ONLY <4>1, KeptOfFirst
      <4>. QED
        BY <4>2
    <3>2. QueueOf(s) = Kept(l, S) \o k /\ QueueOf(s)' = m \o k /\ m \in Seq(Events) /\ k \in Seq(Events)
      BY <1>1, QueueIsBoth, NextQueueIsBoth
    <3>3. (<<e>> \o m) \o k = <<e>> \o (m \o k) /\ m \o k \in Seq(Events)
      BY <2>1, <3>2
    <3>4. e \in S <=> s = Sender[e]
      BY <2>1 DEF Own
    <3>. QED
      BY <3>1, <3>2, <3>3, <3>4
  <2>3. /\ Queues' = [Queues EXCEPT ![Sender[e]] = Tail(@)]
        /\ Queues[Sender[e]] # <<>> /\ Head(Queues[Sender[e]]) = e
    BY <1>2, <1>4, <2>1, <2>2, QueuesShrink
  <2>4. Posts!Next
    BY <1>1, <1>2, <2>1, <2>3, Delivering
  <2>. QED
    BY <2>4
<1>. QED
  BY <1>3, <1>4

\* A timer that is due was asked for no later.
LEMMA TimedIsFired ==
  ASSUME PostedInv, PostedInv', NEW e \in TimedEvents, DispatchTimedEvent(e)
  PROVE  [Posts!Next]_(Posts!vars)
<1>. USE MainLoopAssumption DEF PostedInv, WakesInv
<1>1. /\ ecoreTimers[e] # Idle /\ ecoreTimers[e] <= now
      /\ earliest' = [earliest EXCEPT ![e] = Idle]
      /\ UNCHANGED <<stolenCrossEvents, m_wrappedCrossEventCallList, ecoreEvents, crashed,
                     lateDispatcher, now>>
      /\ ~crashed /\ pc[Main] = "loop"
  BY DEF DispatchTimedEvent, InLoop, crossVars, lifeVars
<1>2. (Over' <=> Over) /\ (Over <=> lateDispatcher) /\ running = NoOne
  BY <1>1 DEF Over, MainPlace
<1>3. Queues' = Queues
  BY <1>1, <1>2, QueuesStay DEF QueueOf
<1>4. CASE lateDispatcher
  <2>1. running' = running /\ Times' = Times
    BY <1>2, <1>4, TimesStay DEF DispatchTimedEvent
  <2>. QED
    BY <1>1, <1>3, <2>1, Stutters
<1>5. CASE ~lateDispatcher
  <2>1. running' = e
    BY <1>5 DEF DispatchTimedEvent
  <2>2. Times' = [Times EXCEPT ![e] = Idle]
    BY <1>1, <1>2, <1>5 DEF Times, TypeOK
  <2>3. Times[e] # Idle /\ Times[e] <= now
    <3>1. earliest[e] # Idle /\ earliest[e] <= ecoreTimers[e]
      BY <1>1 DEF InOnePlace
    <3>2. earliest[e] \in Nat \cup {Idle} /\ ecoreTimers[e] \in Nat \cup {Idle} /\ now \in Nat
      BY DEF TypeOK
    <3>3. earliest[e] <= now
      BY <1>1, <3>1, <3>2
    <3>. QED
      BY <1>2, <1>5, <3>1, <3>3 DEF Times
  <2>4. Posts!Next
    BY <1>1, <1>2, <1>3, <2>1, <2>2, <2>3, Firing
  <2>. QED
    BY <2>4
<1>. QED
  BY <1>4, <1>5

\* Nothing else touches what is posted: the lists are swapped, a handler returns, the
\* dispatcher goes or the process ends, time passes.
LEMMA OtherStepsMap ==
  ASSUME PostedInv, PostedInv',
         OtherStep \/ StealCrossEvents \/ RepushFails \/ EnterLoop \/ Destroy \/ Tick
  PROVE  [Posts!Next]_(Posts!vars)
<1>. USE MainLoopAssumption DEF PostedInv, WakesInv
<1>1. ASSUME Cross' = Cross, UNCHANGED <<ecoreEvents, crashed, lateDispatcher, earliest>>
      PROVE  Queues' = Queues /\ Times' = Times
  <2>1. \A s \in Senders : QueueOf(s)' = QueueOf(s)
    BY <1>1, QueueIsBoth, NextQueueIsBoth
  <2>2. Over' <=> Over
    BY <1>1 DEF Over
  <2>. QED
    BY <1>1, <2>1, <2>2, QueuesStay, TimesStay
<1>2. CASE OtherStep
  BY <1>1, <1>2, OthersLeave, Stutters DEF ecoreVars, postVars, lifeVars, Cross
<1>3. CASE StealCrossEvents
  BY <1>1, <1>3, CrossStolen, Stutters DEF StealCrossEvents, ecoreVars, postVars, lifeVars
<1>4. CASE RepushFails
  <2>1. running = NoOne /\ Over' /\ UNCHANGED <<running, now>>
    BY <1>4 DEF RepushFails, MainPlace, Over
  <2>. QED
    BY <2>1, Ending
<1>5. CASE Destroy
  <2>1. running = NoOne /\ Over' /\ UNCHANGED <<running, now>>
    BY <1>5 DEF Destroy, InLoop, MainPlace, Over
  <2>. QED
    BY <2>1, Ending
<1>6. CASE EnterLoop
  <2>1. running' = NoOne /\ now' = now /\ Queues' = Queues /\ Times' = Times
    BY <1>1, <1>6 DEF EnterLoop, crossVars, ecoreVars, postVars, lifeVars, Cross
  <2>. QED
    BY <2>1, Returning, Stutters
<1>7. CASE Tick
  <2>1. /\ now' = now + 1 /\ UNCHANGED running /\ Queues' = Queues /\ Times' = Times
    BY <1>1, <1>7 DEF Tick, crossVars, ecoreVars, postVars, lifeVars, Cross
  <2>. QED
    BY <2>1, Advancing
<1>. QED
  BY <1>2, <1>3, <1>4, <1>5, <1>6, <1>7

LEMMA PostedStepMaps == PostedInv /\ PostedInv' /\ [Next]_vars => [Posts!Next]_(Posts!vars)
<1>. SUFFICES ASSUME PostedInv, PostedInv', [Next]_vars PROVE [Posts!Next]_(Posts!vars)
  OBVIOUS
<1>1. ASSUME \E e \in Events : AddEventCall(e) \/ \E t \in Threads : AddCrossEventCall(t, e)
      PROVE  [Posts!Next]_(Posts!vars)
  BY <1>1, AddedIsPosted, CrossAddedIsPosted
<1>2. ASSUME \E e \in TimedEvents : DispatchTimedEvent(e)
      PROVE  [Posts!Next]_(Posts!vars)
  BY <1>2, TimedIsFired
<1>. QED
  BY <1>1, <1>2, RepushedIsThere, DispatchedIsDelivered, OtherStepsMap, StepIsOneOf

LEMMA PostedStartMaps == Init => Posts!Init
<1>. SUFFICES ASSUME Init PROVE Posts!Init
  OBVIOUS
<1>1. ~Over /\ running = NoOne /\ now = 0
  BY DEF Init, Over
<1>2. ecoreEvents \o stolenCrossEvents \o m_wrappedCrossEventCallList = <<>>
  BY DEF Init
<1>3. \A s \in Senders : FromSender(s, ecoreEvents \o stolenCrossEvents \o m_wrappedCrossEventCallList) = <<>>
  BY <1>2, KeptOfEmpty DEF FromSender
<1>4. \A e \in TimedEvents : earliest[e] = Idle
  BY DEF Init
<1>. QED
  BY <1>1, <1>3, <1>4 DEF Posts!Init, Posts!Nothing, Posts!NoTimers

\* MainEventDispatcher (main_event_dispatcher.cpp) delivers what is posted once each, the
\* events of one sender in their order whichever way they take, timed ones not before
\* their time, one at a time, and none after the dispatcher is gone.
THEOREM PostedAreDelivered == Spec => ImplementsPostedEvents
<1>1. PostedInv /\ [Next]_vars => PostedInv' /\ [Posts!Next]_(Posts!vars)
  BY PostedNext, PostedStepMaps
<1>. QED
  BY PostedInit, PostedStartMaps, <1>1, PTL DEF Spec, ImplementsPostedEvents, Posts!Spec
===============================================================================
