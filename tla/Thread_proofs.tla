---------------------------- MODULE Thread_proofs ----------------------------
(***************************************************************************)
(* Theorems about Thread, for every set of callers, events and handlers,   *)
(* every size of the pipes and every bound.                                *)
(***************************************************************************)
EXTENDS Thread, SequenceTheorems, FiniteSetTheorems, WellFoundedInduction, TLAPS

-------------------------------------------------------------------------------
(***************************************************************************)
(* Lemmas about the operators of the community modules.                    *)
(***************************************************************************)

\* Min of a non-empty set of natural numbers is its least element: the intervals
\* 0..n of its elements n have a least one in the order of inclusion.
LEMMA MinOfNats ==
  ASSUME NEW S \in SUBSET Nat, S # {}
  PROVE  Min(S) \in S /\ \A y \in S : Min(S) <= y
<1>. DEFINE T == {0..n : n \in S}
<1>1. T \subseteq FiniteSubsetsOf(Nat)
  <2>1. ASSUME NEW n \in S PROVE 0..n \in FiniteSubsetsOf(Nat)
    <3>1. n \in Int /\ 0..n \in SUBSET Nat
      OBVIOUS
    <3>2. IsFiniteSet(0..n)
      BY <3>1, FS_Interval
    <3>. QED
      BY <3>1, <3>2 DEF FiniteSubsetsOf
  <2>. QED
    BY <2>1
<1>2. T # {}
  OBVIOUS
<1>3. PICK t \in T : \A u \in T : <<u, t>> \notin StrictSubsetOrdering(Nat)
  BY <1>1, <1>2, FS_StrictSubsetOrderingWellFounded, WFMin, Zenon
<1>4. PICK x \in S : t = 0..x
  OBVIOUS
<1>5. ASSUME NEW y \in S PROVE x <= y
  <2>1. SUFFICES ASSUME y < x PROVE FALSE
    OBVIOUS
  <2>2. 0..y \subseteq 0..x /\ 0..y # 0..x
    BY <2>1
  <2>3. 0..y \in SUBSET Nat /\ 0..x \in SUBSET Nat /\ 0..y \in T
    OBVIOUS
  <2>. QED
    BY <1>3, <1>4, <2>2, <2>3 DEF StrictSubsetOrdering
<1>. QED
  BY <1>5 DEF Min

\* The elements of a sequence over S, and of the sequence without its last one,
\* belong to S.
LEMMA ElementsInSet ==
  ASSUME NEW S, NEW s \in Seq(S)
  PROVE  ToSet(s) \subseteq S /\ ToSet(Front(s)) \subseteq S
<1>1. \A t \in Seq(S) : ToSet(t) \subseteq S
  BY DEF ToSet
<1>2. Front(s) \in Seq(S)
  <2>1. CASE s = <<>>
    BY <2>1 DEF Front
  <2>2. CASE s # <<>>
    BY <2>2, SubSeqProperties DEF Front
  <2>. QED
    BY <2>1, <2>2
<1>. QED
  BY <1>1, <1>2

\* A sequence without its last element.
LEMMA FrontIsPart ==
  ASSUME NEW S, NEW s \in Seq(S)
  PROVE  ToSet(Front(s)) \subseteq ToSet(s) /\ (Len(s) <= 1 => Front(s) = <<>>)
<1>1. CASE s = <<>>
  <2>1. Front(s) = <<>>
    BY <1>1, SubSeqEmpty, Len(s) - 1 < 1, Len(s) - 1 \in Int DEF Front
  <2>. QED
    BY <1>1, <2>1
<1>2. CASE s # <<>>
  <2>1. Front(s) = [i \in 1..(Len(s) - 1) |-> s[i]]
    BY <1>2 DEF Front
  <2>. QED
    BY <1>2, <2>1 DEF ToSet
<1>. QED
  BY <1>1, <1>2

\* Front undoes Append.
LEMMA FrontOfAppend ==
  ASSUME NEW S, NEW s \in Seq(S), NEW e \in S
  PROVE  Front(Append(s, e)) = s
<1>1. Append(s, e) \in Seq(S) /\ Append(s, e) # <<>> /\ Len(Append(s, e)) = Len(s) + 1
  BY AppendProperties
<1>2. Front(Append(s, e)) = SubSeq(Append(s, e), 1, Len(s))
  BY <1>1 DEF Front
<1>3. \A i \in 1..Len(s) : Append(s, e)[i] = s[i]
  BY AppendProperties
<1>4. SubSeq(Append(s, e), 1, Len(s)) = [i \in 1..Len(s) |-> Append(s, e)[i]]
  BY <1>1, SubSeqProperties
<1>. QED
  BY <1>2, <1>3, <1>4

\* An empty sequence has no elements.
LEMMA EmptyToSet == ToSet(<<>>) = {}
BY DEF ToSet

\* Taking the front element of a sequence.
LEMMA HeadAndTail ==
  ASSUME NEW S, NEW s \in Seq(S), s # <<>>
  PROVE  ToSet(s) \ {Head(s)} \subseteq ToSet(Tail(s))
<1>1. ASSUME NEW i \in 1..Len(s), s[i] # Head(s) PROVE s[i] \in ToSet(Tail(s))
  <2>1. i - 1 \in 1..Len(Tail(s)) /\ Tail(s)[i - 1] = s[i]
    BY <1>1, HeadTailProperties
  <2>2. DOMAIN Tail(s) = 1..Len(Tail(s))
    BY HeadTailProperties
  <2>. QED
    BY <2>1, <2>2 DEF ToSet
<1>. QED
  BY <1>1 DEF ToSet
-------------------------------------------------------------------------------
(***************************************************************************)
(* Type correctness.                                                       *)
(***************************************************************************)

\* The initial state has the types.
LEMMA TypeInit ==
  Init => TypeOK
<1>. SUFFICES ASSUME Init PROVE TypeOK
  OBVIOUS
<1>. USE ThreadAssumption DEF ThreadAssumption, Init
<1>1. m_running \in BOOLEAN /\ m_abandon \in BOOLEAN /\ quit \in BOOLEAN
  BY Zenon
<1>2. LifeTypeOK /\ QueueTypeOK /\ TimerTypeOK /\ ExecTypeOK /\ ProcTypeOK /\ UserTypeOK
  BY <1>1 DEF LifeTypeOK, QueueTypeOK, TimerTypeOK, ExecTypeOK, ProcTypeOK, UserTypeOK, Never
<1>3. PlaceTypeOK
  BY DEF PlaceTypeOK, Actors, LoopPlaces, CallerPlaces
<1>. QED
  BY <1>2, <1>3 DEF TypeOK

\* What is queued at any time is a set of events.
LEMMA QueuedAreEvents ==
  ASSUME QueueTypeOK, ProcTypeOK
  PROVE  Queued \subseteq Events
BY ElementsInSet DEF Queued, QueueTypeOK, ProcTypeOK

\* The four halves of the posting operations keep the types of what they change.
LEMMA PostingTypes ==
  ASSUME NEW a \in Actors
  PROVE  /\ QueueTypeOK => \A e \in Events : PushEvent(a, e) => QueueTypeOK'
         /\ QueueTypeOK /\ SignalEvent(a) => QueueTypeOK'
         /\ TimerTypeOK /\ now \in Nat =>
              \A e \in TimedEvents : PushTimedEvent(a, e) => TimerTypeOK'
         /\ TimerTypeOK /\ SignalTimedEvent(a) => TimerTypeOK'
<1>1. ASSUME QueueTypeOK, NEW e \in Events, PushEvent(a, e) PROVE QueueTypeOK'
  BY <1>1 DEF QueueTypeOK, PushEvent
<1>2. ASSUME QueueTypeOK, SignalEvent(a) PROVE QueueTypeOK'
  BY <1>2, ThreadAssumption DEF QueueTypeOK, SignalEvent, ThreadAssumption
<1>3. ASSUME TimerTypeOK, now \in Nat, NEW e \in TimedEvents, PushTimedEvent(a, e)
      PROVE  TimerTypeOK'
  <2>1. now + Delay[e] \in 0..MaxTime
    BY <1>3, ThreadAssumption DEF PushTimedEvent, ThreadAssumption
  <2>2. m_timedEventVector' \in [TimedEvents -> 0..MaxTime \cup {Idle}]
    BY <1>3, <2>1 DEF TimerTypeOK, PushTimedEvent
  <2>. QED
    BY <1>3, <2>2 DEF TimerTypeOK, PushTimedEvent
<1>4. ASSUME TimerTypeOK, SignalTimedEvent(a) PROVE TimerTypeOK'
  BY <1>4, ThreadAssumption DEF TimerTypeOK, SignalTimedEvent, ThreadAssumption
<1>. QED
  BY <1>1, <1>2, <1>3, <1>4

\* The critical section of Quit.
LEMMA SendQuitType ==
  ASSUME TypeOK, NEW c \in Callers, NEW wait \in CallerPlaces, SendQuit(c, wait)
  PROVE  /\ LifeTypeOK' /\ QueueTypeOK' /\ TimerTypeOK' /\ ExecTypeOK' /\ ProcTypeOK'
         /\ PlaceTypeOK'
         /\ promised' \subseteq Events
<1>. USE ThreadAssumption DEF ThreadAssumption, TypeOK, SendQuit, Goto
<1>1. promised' \subseteq Events
  BY QueuedAreEvents DEF UserTypeOK
<1>2. LifeTypeOK'
  <2>1. /\ m_running' = m_running /\ m_abandon' = FALSE /\ m_quitEvent' = m_quitEvent + 1
        /\ runs' = runs /\ pthread' = pthread
        /\ joinableThread' = [joinableThread EXCEPT ![c] = runs]
    OBVIOUS
  <2>2. m_running' \in BOOLEAN /\ m_abandon' \in BOOLEAN
    BY <2>1, Zenon DEF LifeTypeOK
  <2>3. /\ m_quitEvent' \in Nat
        /\ runs' \in 0..MaxRuns
        /\ pthread' \in [1..MaxRuns -> {"none", "running", "detached", "joinable", "joined"}]
        /\ joinableThread' \in [Callers -> 0..MaxRuns]
    BY <2>1 DEF LifeTypeOK
  <2>. QED
    BY <2>2, <2>3 DEF LifeTypeOK
<1>3. QueueTypeOK' /\ TimerTypeOK' /\ ExecTypeOK' /\ ProcTypeOK'
  BY DEF QueueTypeOK, TimerTypeOK, ExecTypeOK, ProcTypeOK, queueVars, timerVars, execVars, procVars
<1>4. PlaceTypeOK'
  BY DEF PlaceTypeOK, Actors, LoopPlaces, CallerPlaces
<1>. QED
  BY <1>1, <1>2, <1>3, <1>4

\* Every step keeps the types, one action at a time.
LEMMA TypeStep ==
  ASSUME TypeOK, [Next]_vars
  PROVE  TypeOK'
<1>. USE ThreadAssumption DEF ThreadAssumption, TypeOK, LifeTypeOK, QueueTypeOK, TimerTypeOK,
     ExecTypeOK, ProcTypeOK, UserTypeOK, PlaceTypeOK, Actors, LoopPlaces, CallerPlaces, Goto,
     lifeVars, queueVars, timerVars, execVars, procVars, userVars
<1>1. ASSUME NEW c \in Callers, Run(c) PROVE TypeOK'
  BY <1>1 DEF Run
<1>2. ASSUME NEW c \in Callers, Quit(c) PROVE TypeOK'
  <2>1. LifeTypeOK' /\ QueueTypeOK' /\ TimerTypeOK' /\ ExecTypeOK' /\ ProcTypeOK' /\ PlaceTypeOK'
        /\ promised' \subseteq Events
    BY <1>2, SendQuitType DEF Quit
  <2>. QED
    BY <1>2, <2>1 DEF Quit
<1>3. ASSUME NEW c \in Callers, Join(c) PROVE TypeOK'
  <2>1. LifeTypeOK'
    BY <1>3 DEF Join
  <2>2. PlaceTypeOK'
    BY <1>3 DEF Join
  <2>. QED
    BY <1>3, <2>1, <2>2 DEF Join
<1>4. ASSUME NEW c \in Callers, Destroy(c) PROVE TypeOK'
  <2>1. CASE SendQuit(c, "djoin")
    <3>1. LifeTypeOK' /\ QueueTypeOK' /\ TimerTypeOK' /\ ExecTypeOK' /\ ProcTypeOK' /\ PlaceTypeOK'
          /\ promised' \subseteq Events
      BY <2>1, SendQuitType
    <3>. QED
      BY <1>4, <3>1 DEF Destroy
  <2>2. CASE UNCHANGED <<lifeVars, queueVars, timerVars, execVars, procVars, now, promised>>
             /\ pc' = [pc EXCEPT ![c] = "purge"]
    BY <1>4, <2>2 DEF Destroy
  <2>. QED
    BY <1>4, <2>1, <2>2 DEF Destroy
<1>5. ASSUME NEW c \in Callers, Purge(c) PROVE TypeOK'
  BY <1>5 DEF Purge
<1>6. ASSUME NEW c \in Callers, CallerPush(c) PROVE TypeOK'
  <2>1. PICK e \in fresh :
          /\ fresh' = fresh \ {e}
          /\ \/ e \in Immediate /\ PushEvent(c, e) /\ Goto(c, "push") /\ UNCHANGED timerVars
             \/ e \in TimedEvents /\ PushTimedEvent(c, e) /\ Goto(c, "pushtimed")
                /\ UNCHANGED queueVars
    BY <1>6 DEF CallerPush
  <2>2. LifeTypeOK' /\ ExecTypeOK' /\ ProcTypeOK' /\ UserTypeOK' /\ PlaceTypeOK'
    BY <1>6, <2>1 DEF CallerPush
  <2>3. e \in Events /\ c \in Actors /\ now \in Nat
    OBVIOUS
  <2>. HIDE DEF QueueTypeOK, TimerTypeOK
  <2>4. CASE PushEvent(c, e) /\ UNCHANGED timerVars
    BY <2>2, <2>3, <2>4, PostingTypes DEF TimerTypeOK
  <2>5. CASE e \in TimedEvents /\ PushTimedEvent(c, e) /\ UNCHANGED queueVars
    BY <2>2, <2>3, <2>5, PostingTypes DEF QueueTypeOK
  <2>. QED
    BY <2>1, <2>4, <2>5
<1>7. ASSUME NEW c \in Callers, CallerSignal(c) PROVE TypeOK'
  BY <1>7, SMTT(60) DEF CallerSignal, SignalEvent, SignalTimedEvent
<1>8. ASSUME EnterExec PROVE TypeOK'
  BY <1>8 DEF EnterExec
<1>9. ASSUME SkipExec PROVE TypeOK'
  BY <1>9 DEF SkipExec
<1>10. ASSUME LeaveThread PROVE TypeOK'
  BY <1>10 DEF LeaveThread
<1>11. ASSUME ComputeWait PROVE TypeOK'
  <2>. DEFINE dueTimes == {m_timedEventVector[e] : e \in Waiting} \cup {Never}
  <2>1. dueTimes \in SUBSET (0..Never) /\ Never \in Nat
    BY DEF Waiting, Never
  <2>2. Min(dueTimes) \in dueTimes
    <3>1. dueTimes \in SUBSET Nat /\ dueTimes # {}
      BY <2>1
    <3>. QED
      BY <3>1, MinOfNats, Zenon
  <2>3. wakeTime' \in 0..Never
    BY <1>11, <2>1, <2>2 DEF ComputeWait
  <2>. QED
    BY <1>11, <2>3 DEF ComputeWait
<1>12. ASSUME Select PROVE TypeOK'
  BY <1>12 DEF Select, ReadyIndices
<1>13. ASSUME Timeout PROVE TypeOK'
  BY <1>13 DEF Timeout, BeginTimed
<1>14. ASSUME HandleQuit PROVE TypeOK'
  BY <1>14 DEF HandleQuit, AtIndex
<1>15. ASSUME StealEvents PROVE TypeOK'
  BY <1>15 DEF StealEvents, AtIndex
<1>16. ASSUME DispatchEvent PROVE TypeOK'
  BY <1>16 DEF DispatchEvent
<1>17. ASSUME HandlerPush PROVE TypeOK'
  <2>. DEFINE e == Head(todo)
  <2>1. e \in Events /\ Tail(todo) \in Seq(Events)
    BY <1>17 DEF HandlerPush
  <2>2. CASE e \in Immediate /\ PushEvent(Loop, e) /\ todo' = Tail(todo)
             /\ pc' = [pc EXCEPT ![Loop] = "handlerpush"] /\ UNCHANGED timerVars
    BY <1>17, <2>1, <2>2, SMTT(60) DEF HandlerPush, PushEvent
  <2>3. CASE e \in TimedEvents /\ PushTimedEvent(Loop, e) /\ todo' = Tail(todo)
             /\ pc' = [pc EXCEPT ![Loop] = "handlerpush"] /\ UNCHANGED queueVars
    BY <1>17, <2>1, <2>3 DEF HandlerPush, PushTimedEvent
  <2>4. CASE todo' = Tail(todo) /\ UNCHANGED <<pc, queueVars, timerVars>>
    BY <1>17, <2>1, <2>4 DEF HandlerPush
  <2>. QED
    BY <1>17, <2>2, <2>3, <2>4 DEF HandlerPush
<1>18. ASSUME HandlerSignal PROVE TypeOK'
  BY <1>18, SMTT(60) DEF HandlerSignal, SignalEvent, SignalTimedEvent
<1>19. ASSUME EndHandler PROVE TypeOK'
  BY <1>19 DEF EndHandler
<1>20. ASSUME EndProcessEvents PROVE TypeOK'
  BY <1>20 DEF EndProcessEvents, AfterIndex
<1>21. ASSUME HandleTimed PROVE TypeOK'
  BY <1>21 DEF HandleTimed, AtIndex, BeginTimed
<1>22. ASSUME PushDue PROVE TypeOK'
  BY <1>22 DEF PushDue, PushEvent
<1>23. ASSUME PopDue PROVE TypeOK'
  <2>1. QueueTypeOK'
    BY <1>23 DEF PopDue, SignalEvent
  <2>2. TimerTypeOK' /\ ProcTypeOK'
    BY <1>23 DEF PopDue
  <2>3. PlaceTypeOK'
    BY <1>23 DEF PopDue
  <2>. QED
    BY <1>23, <2>1, <2>2, <2>3 DEF PopDue
<1>24. ASSUME EndTimed PROVE TypeOK'
  BY <1>24 DEF EndTimed
<1>25. ASSUME ResetTimed PROVE TypeOK'
  BY <1>25 DEF ResetTimed, AfterIndex
<1>26. ASSUME Tick PROVE TypeOK'
  BY <1>26 DEF Tick
<1>27. ASSUME UNCHANGED vars PROVE TypeOK'
  BY <1>27 DEF vars
<1>. QED
  BY <1>1, <1>2, <1>3, <1>4, <1>5, <1>6, <1>7, <1>8, <1>9, <1>10, <1>11, <1>12, <1>13, <1>14,
     <1>15, <1>16, <1>17, <1>18, <1>19, <1>20, <1>21, <1>22, <1>23, <1>24, <1>25, <1>26, <1>27
     DEF Next, LoopStep, CallerStep, Done

\* The pipes never overflow and every variable keeps its type.
THEOREM ThreadTypes == Spec => []TypeOK
BY TypeInit, TypeStep, PTL DEF Spec

-------------------------------------------------------------------------------
(***************************************************************************)
(* The inductive invariant, part by part.                                  *)
(***************************************************************************)

\* The places of the loop between select and the end of the batch.
InBatch ==
  {"batch", "events", "handler", "handlerpush", "timed", "timedpush", "timedreset"}

\* A ready index that is still to be handled has its byte, and the timed events
\* come last.
BatchInv ==
  /\ pc[Loop] = "batch" /\ EventIndex \in waitableHandleIndexList => m_eventInvoker > 0
  /\ pc[Loop] \in InBatch /\ TimedIndex \in waitableHandleIndexList => m_timedEventInvoker > 0
  /\ pc[Loop] \in {"timed", "timedpush", "timedreset"} => EventIndex \notin waitableHandleIndexList
  /\ pc[Loop] = "timedreset" => TimedIndex \in waitableHandleIndexList

\* One pthread at most is running: the last one, exactly while m_running.  Who
\* joins it has taken m_abandon back, and is still waiting.
LifeInv ==
  /\ m_running <=> pc[Loop] # "off"
  /\ m_running => runs \in 1..MaxRuns /\ pthread[runs] = "running"
  /\ \A k \in 1..runs : pthread[k] # "none" /\ (pthread[k] = "running" => k = runs /\ m_running)
  /\ \A c \in Callers : Joining(c) => joinableThread[c] \in 1..runs
  /\ \A c \in Callers : Joining(c) /\ joinableThread[c] = runs /\ m_running => ~m_abandon
  /\ m_running /\ ~m_abandon => \E c \in Callers : Joining(c) /\ joinableThread[c] = runs

\* The destructor gets to the deletion of the events when the thread has ended.
DestroyInv ==
  /\ \A c \in Callers : pc[c] = "djoin" => phase = "dying" /\ joinableThread[c] = runs
  /\ \A c \in Callers : pc[c] = "purge" => phase = "dying" /\ ~m_running
  /\ \A c, d \in Callers : pc[c] \in {"djoin", "purge"} /\ pc[d] \in {"djoin", "purge"} => c = d
  /\ \A c \in Callers : phase # "alive" => pc[c] \in {"idle", "djoin", "purge"}

\* The locals of ProcessEvents and ProcessTimedEvents are empty elsewhere, and
\* ProcessTimedEvents holds its mutex.
LocalsInv ==
  /\ pc[Loop] \notin {"events", "handler", "handlerpush"} => stolenEvents = <<>>
  /\ pc[Loop] = "timedpush" <=> moving \in TimedEvents
  /\ pc[Loop] \in {"timed", "timedpush"} => m_timedEventMutex = Loop
  /\ currentTime <= now

\* Who holds m_eventMutex is in PushEvent, between the list and the pipe; every
\* event of the list but the new one has its byte.
PushInv ==
  /\ \A c \in Callers : m_eventMutex = c => pc[c] = "push"
  /\ m_eventMutex = Loop => pc[Loop] \in {"handlerpush", "timedpush"}
  /\ m_timedEventMutex = Loop => pc[Loop] \in {"handlerpush", "timed", "timedpush"}
  /\ pc[Loop] = "handlerpush" => m_eventMutex # Loop \/ m_timedEventMutex # Loop
  /\ m_eventMutex # NoOne => m_eventList # <<>> /\ (Len(m_eventList) > 1 => m_eventInvoker > 0)

\* What is still to be delivered of the events that were queued when the quit
\* message was sent, once select has returned the quit index: what ProcessEvents
\* has stolen, and the list if its index is ready too.
StillToCome ==
  IF pc[Loop] = "batch" /\ EventIndex \in waitableHandleIndexList
  THEN Queued
  ELSE ToSet(stolenEvents)

FlushInv ==
  /\ promised \subseteq Queued
  /\ pc[Loop] \in {"exit", "off"} => promised = {}
  /\ quit \/ QuitIndex \in waitableHandleIndexList => m_quitEvent > 0
  /\ quit => pc[Loop] \in InBatch \cup {"exit", "off", "entry"}
  /\ quit /\ pc[Loop] \in {"timed", "timedpush"} => TimedIndex \in waitableHandleIndexList
  /\ pc[Loop] \in InBatch /\ (quit \/ QuitIndex \in waitableHandleIndexList) =>
       promised \subseteq StillToCome

IInv ==
  /\ NoLostWakeup /\ NoLostTimer /\ BatchInv
  /\ LifeInv /\ JoinXorDetach /\ DestroyInv
  /\ LocalsInv /\ PushInv /\ FlushInv

\* Queued changes only by a byte written, by stealing and by dispatching.
LEMMA QueuedSteps ==
  ASSUME TypeOK, NEW a \in Actors
  PROVE  /\ \A e \in Events : PushEvent(a, e) /\ UNCHANGED stolenEvents => Queued' = Queued
         /\ SignalEvent(a) /\ UNCHANGED stolenEvents => Queued \subseteq Queued'
         /\ UNCHANGED <<queueVars, stolenEvents>> => Queued' = Queued
<1>. USE ThreadAssumption DEF ThreadAssumption, TypeOK, QueueTypeOK, ProcTypeOK, Queued, Actors
<1>1. ASSUME NEW e \in Events, PushEvent(a, e), UNCHANGED stolenEvents PROVE Queued' = Queued
  <2>1. Front(Append(m_eventList, e)) = m_eventList
    BY FrontOfAppend
  <2>. QED
    BY <1>1, <2>1 DEF PushEvent
<1>2. ASSUME SignalEvent(a), UNCHANGED stolenEvents PROVE Queued \subseteq Queued'
  <2>1. ToSet(Front(m_eventList)) \subseteq ToSet(m_eventList)
    BY FrontIsPart
  <2>. QED
    BY <1>2, <2>1 DEF SignalEvent
<1>3. ASSUME UNCHANGED <<queueVars, stolenEvents>> PROVE Queued' = Queued
  BY <1>3 DEF queueVars
<1>. QED
  BY <1>1, <1>2, <1>3

\* PushEvent and ProcessEvents change list and pipe under one mutex.
LEMMA WakeupStep ==
  ASSUME TypeOK, NoLostWakeup, [Next]_vars
  PROVE  NoLostWakeup'
<1>. USE ThreadAssumption DEF NoLostWakeup, TypeOK, QueueTypeOK,
     ThreadAssumption, Goto, Actors, lifeVars, queueVars, timerVars, execVars, procVars,
     userVars
<1>1. ASSUME NEW c \in Callers, Run(c) PROVE NoLostWakeup'
  BY <1>1 DEF Run
<1>2. ASSUME NEW c \in Callers, Quit(c) PROVE NoLostWakeup'
  BY <1>2 DEF Quit, SendQuit
<1>3. ASSUME NEW c \in Callers, Join(c) PROVE NoLostWakeup'
  BY <1>3 DEF Join
<1>4. ASSUME NEW c \in Callers, Destroy(c) PROVE NoLostWakeup'
  BY <1>4 DEF Destroy, SendQuit
<1>5. ASSUME NEW c \in Callers, Purge(c) PROVE NoLostWakeup'
  BY <1>5 DEF Purge
<1>6. ASSUME NEW c \in Callers, CallerPush(c) PROVE NoLostWakeup'
  BY <1>6 DEF CallerPush, PushEvent, PushTimedEvent
<1>7. ASSUME NEW c \in Callers, CallerSignal(c) PROVE NoLostWakeup'
  BY <1>7 DEF CallerSignal, SignalEvent, SignalTimedEvent
<1>8. ASSUME EnterExec PROVE NoLostWakeup'
  BY <1>8 DEF EnterExec
<1>9. ASSUME SkipExec PROVE NoLostWakeup'
  BY <1>9 DEF SkipExec
<1>10. ASSUME LeaveThread PROVE NoLostWakeup'
  BY <1>10 DEF LeaveThread
<1>11. ASSUME ComputeWait PROVE NoLostWakeup'
  BY <1>11 DEF ComputeWait, Waiting, Never
<1>12. ASSUME Select PROVE NoLostWakeup'
  BY <1>12 DEF Select, ReadyIndices
<1>13. ASSUME Timeout PROVE NoLostWakeup'
  BY <1>13 DEF Timeout, BeginTimed
<1>14. ASSUME HandleQuit PROVE NoLostWakeup'
  BY <1>14 DEF HandleQuit, AtIndex
<1>15. ASSUME StealEvents PROVE NoLostWakeup'
  BY <1>15 DEF StealEvents, AtIndex
<1>16. ASSUME DispatchEvent PROVE NoLostWakeup'
  BY <1>16 DEF DispatchEvent
<1>17. ASSUME HandlerPush PROVE NoLostWakeup'
  BY <1>17 DEF HandlerPush, PushEvent, PushTimedEvent
<1>18. ASSUME HandlerSignal PROVE NoLostWakeup'
  BY <1>18 DEF HandlerSignal, SignalEvent, SignalTimedEvent
<1>19. ASSUME EndHandler PROVE NoLostWakeup'
  BY <1>19 DEF EndHandler
<1>20. ASSUME EndProcessEvents PROVE NoLostWakeup'
  BY <1>20 DEF EndProcessEvents, AfterIndex
<1>21. ASSUME HandleTimed PROVE NoLostWakeup'
  BY <1>21 DEF HandleTimed, AtIndex, BeginTimed
<1>22. ASSUME PushDue PROVE NoLostWakeup'
  BY <1>22 DEF PushDue, PushEvent
<1>23. ASSUME PopDue PROVE NoLostWakeup'
  BY <1>23 DEF PopDue, SignalEvent
<1>24. ASSUME EndTimed PROVE NoLostWakeup'
  BY <1>24 DEF EndTimed
<1>25. ASSUME ResetTimed PROVE NoLostWakeup'
  BY <1>25 DEF ResetTimed, AfterIndex
<1>26. ASSUME Tick PROVE NoLostWakeup'
  BY <1>26 DEF Tick
<1>27. ASSUME UNCHANGED vars PROVE NoLostWakeup'
  BY <1>27 DEF vars
<1>. QED
  BY <1>1, <1>2, <1>3, <1>4, <1>5, <1>6, <1>7, <1>8, <1>9, <1>10, <1>11, <1>12, <1>13,
     <1>14, <1>15, <1>16, <1>17, <1>18, <1>19, <1>20, <1>21, <1>22, <1>23, <1>24, <1>25,
     <1>26, <1>27
     DEF Next, LoopStep, CallerStep, Done

\* The computed timeout is no later than any due time, and every PushTimedEvent
\* that follows writes its byte.
LEMMA TimerStep ==
  ASSUME TypeOK, NoLostTimer, [Next]_vars
  PROVE  NoLostTimer'
<1>. USE ThreadAssumption DEF NoLostTimer, TypeOK, TimerTypeOK, PlaceTypeOK, Waiting,
     ThreadAssumption, Goto, Actors, lifeVars, queueVars, timerVars, execVars, procVars,
     userVars
<1>1. ASSUME NEW c \in Callers, Run(c) PROVE NoLostTimer'
  BY <1>1 DEF Run
<1>2. ASSUME NEW c \in Callers, Quit(c) PROVE NoLostTimer'
  BY <1>2 DEF Quit, SendQuit
<1>3. ASSUME NEW c \in Callers, Join(c) PROVE NoLostTimer'
  BY <1>3 DEF Join
<1>4. ASSUME NEW c \in Callers, Destroy(c) PROVE NoLostTimer'
  BY <1>4 DEF Destroy, SendQuit
<1>5. ASSUME NEW c \in Callers, Purge(c) PROVE NoLostTimer'
  BY <1>5 DEF Purge
<1>6. ASSUME NEW c \in Callers, CallerPush(c) PROVE NoLostTimer'
  BY <1>6 DEF CallerPush, PushEvent, PushTimedEvent
<1>7. ASSUME NEW c \in Callers, CallerSignal(c) PROVE NoLostTimer'
  BY <1>7 DEF CallerSignal, SignalEvent, SignalTimedEvent
<1>8. ASSUME EnterExec PROVE NoLostTimer'
  BY <1>8 DEF EnterExec
<1>9. ASSUME SkipExec PROVE NoLostTimer'
  BY <1>9 DEF SkipExec
<1>10. ASSUME LeaveThread PROVE NoLostTimer'
  BY <1>10 DEF LeaveThread
<1>11. ASSUME ComputeWait PROVE NoLostTimer'
  <2>. DEFINE dueTimes == {m_timedEventVector[e] : e \in Waiting} \cup {Never}
  <2>1. dueTimes \in SUBSET Nat /\ dueTimes # {}
    BY DEF ThreadAssumption, Never
  <2>2. \A y \in dueTimes : Min(dueTimes) <= y
    BY <2>1, MinOfNats, Zenon
  <2>3. wakeTime' = Min(dueTimes) /\ UNCHANGED timerVars
    BY <1>11 DEF ComputeWait
  <2>4. \A e \in Waiting : m_timedEventVector[e] \in dueTimes
    OBVIOUS
  <2>. HIDE DEF dueTimes
  <2>. QED
    BY <2>2, <2>3, <2>4
<1>12. ASSUME Select PROVE NoLostTimer'
  BY <1>12 DEF Select, ReadyIndices
<1>13. ASSUME Timeout PROVE NoLostTimer'
  BY <1>13 DEF Timeout, BeginTimed
<1>14. ASSUME HandleQuit PROVE NoLostTimer'
  BY <1>14 DEF HandleQuit, AtIndex
<1>15. ASSUME StealEvents PROVE NoLostTimer'
  BY <1>15 DEF StealEvents, AtIndex
<1>16. ASSUME DispatchEvent PROVE NoLostTimer'
  BY <1>16 DEF DispatchEvent
<1>17. ASSUME HandlerPush PROVE NoLostTimer'
  BY <1>17 DEF HandlerPush, PushEvent, PushTimedEvent
<1>18. ASSUME HandlerSignal PROVE NoLostTimer'
  BY <1>18 DEF HandlerSignal, SignalEvent, SignalTimedEvent
<1>19. ASSUME EndHandler PROVE NoLostTimer'
  BY <1>19 DEF EndHandler
<1>20. ASSUME EndProcessEvents PROVE NoLostTimer'
  BY <1>20 DEF EndProcessEvents, AfterIndex
<1>21. ASSUME HandleTimed PROVE NoLostTimer'
  BY <1>21 DEF HandleTimed, AtIndex, BeginTimed
<1>22. ASSUME PushDue PROVE NoLostTimer'
  BY <1>22 DEF PushDue, PushEvent
<1>23. ASSUME PopDue PROVE NoLostTimer'
  BY <1>23 DEF PopDue, SignalEvent
<1>24. ASSUME EndTimed PROVE NoLostTimer'
  BY <1>24 DEF EndTimed
<1>25. ASSUME ResetTimed PROVE NoLostTimer'
  BY <1>25 DEF ResetTimed, AfterIndex
<1>26. ASSUME Tick PROVE NoLostTimer'
  BY <1>26 DEF Tick
<1>27. ASSUME UNCHANGED vars PROVE NoLostTimer'
  BY <1>27 DEF vars
<1>. QED
  BY <1>1, <1>2, <1>3, <1>4, <1>5, <1>6, <1>7, <1>8, <1>9, <1>10, <1>11, <1>12, <1>13,
     <1>14, <1>15, <1>16, <1>17, <1>18, <1>19, <1>20, <1>21, <1>22, <1>23, <1>24, <1>25,
     <1>26, <1>27
     DEF Next, LoopStep, CallerStep, Done

\* Nothing but the case of an index takes the byte of that index.
LEMMA BatchStep ==
  ASSUME TypeOK, BatchInv, [Next]_vars
  PROVE  BatchInv'
<1>. USE ThreadAssumption DEF BatchInv, TypeOK, ExecTypeOK, QueueTypeOK, TimerTypeOK,
     PlaceTypeOK, InBatch,
     QuitIndex, EventIndex, TimedIndex, ThreadAssumption, Goto, Actors, lifeVars, queueVars,
     timerVars, execVars, procVars,
     userVars
<1>1. ASSUME NEW c \in Callers, Run(c) PROVE BatchInv'
  BY <1>1 DEF Run
<1>2. ASSUME NEW c \in Callers, Quit(c) PROVE BatchInv'
  BY <1>2 DEF Quit, SendQuit
<1>3. ASSUME NEW c \in Callers, Join(c) PROVE BatchInv'
  BY <1>3 DEF Join
<1>4. ASSUME NEW c \in Callers, Destroy(c) PROVE BatchInv'
  BY <1>4 DEF Destroy, SendQuit
<1>5. ASSUME NEW c \in Callers, Purge(c) PROVE BatchInv'
  BY <1>5 DEF Purge
<1>6. ASSUME NEW c \in Callers, CallerPush(c) PROVE BatchInv'
  BY <1>6 DEF CallerPush, PushEvent, PushTimedEvent
<1>7. ASSUME NEW c \in Callers, CallerSignal(c) PROVE BatchInv'
  BY <1>7 DEF CallerSignal, SignalEvent, SignalTimedEvent
<1>8. ASSUME EnterExec PROVE BatchInv'
  BY <1>8 DEF EnterExec
<1>9. ASSUME SkipExec PROVE BatchInv'
  BY <1>9 DEF SkipExec
<1>10. ASSUME LeaveThread PROVE BatchInv'
  BY <1>10 DEF LeaveThread
<1>11. ASSUME ComputeWait PROVE BatchInv'
  BY <1>11 DEF ComputeWait, Waiting, Never
<1>12. ASSUME Select PROVE BatchInv'
  BY <1>12 DEF Select, ReadyIndices
<1>13. ASSUME Timeout PROVE BatchInv'
  BY <1>13 DEF Timeout, BeginTimed
<1>14. ASSUME HandleQuit PROVE BatchInv'
  BY <1>14 DEF HandleQuit, AtIndex
<1>15. ASSUME StealEvents PROVE BatchInv'
  BY <1>15 DEF StealEvents, AtIndex
<1>16. ASSUME DispatchEvent PROVE BatchInv'
  BY <1>16 DEF DispatchEvent
<1>17. ASSUME HandlerPush PROVE BatchInv'
  BY <1>17 DEF HandlerPush, PushEvent, PushTimedEvent
<1>18. ASSUME HandlerSignal PROVE BatchInv'
  BY <1>18 DEF HandlerSignal, SignalEvent, SignalTimedEvent
<1>19. ASSUME EndHandler PROVE BatchInv'
  BY <1>19 DEF EndHandler
<1>20. ASSUME EndProcessEvents PROVE BatchInv'
  BY <1>20 DEF EndProcessEvents, AfterIndex
<1>21. ASSUME HandleTimed PROVE BatchInv'
  <2>1. Min(waitableHandleIndexList) <= EventIndex \/ EventIndex \notin waitableHandleIndexList
    <3>1. waitableHandleIndexList \in SUBSET Nat
      OBVIOUS
    <3>. QED
      BY <3>1, MinOfNats
  <2>2. EventIndex \notin waitableHandleIndexList
    BY <1>21, <2>1 DEF HandleTimed, AtIndex
  <2>. QED
    BY <1>21, <2>2 DEF HandleTimed, AtIndex, BeginTimed
<1>22. ASSUME PushDue PROVE BatchInv'
  BY <1>22 DEF PushDue, PushEvent
<1>23. ASSUME PopDue PROVE BatchInv'
  BY <1>23 DEF PopDue, SignalEvent
<1>24. ASSUME EndTimed PROVE BatchInv'
  BY <1>24 DEF EndTimed
<1>25. ASSUME ResetTimed PROVE BatchInv'
  BY <1>25 DEF ResetTimed, AfterIndex
<1>26. ASSUME Tick PROVE BatchInv'
  BY <1>26 DEF Tick
<1>27. ASSUME UNCHANGED vars PROVE BatchInv'
  BY <1>27 DEF vars
<1>. QED
  BY <1>1, <1>2, <1>3, <1>4, <1>5, <1>6, <1>7, <1>8, <1>9, <1>10, <1>11, <1>12, <1>13,
     <1>14, <1>15, <1>16, <1>17, <1>18, <1>19, <1>20, <1>21, <1>22, <1>23, <1>24, <1>25,
     <1>26, <1>27
     DEF Next, LoopStep, CallerStep, Done

\* Run and the end of the thread keep track of the last pthread, Quit of who joins it.
LEMMA LifeStep ==
  ASSUME TypeOK, LifeInv, [Next]_vars
  PROVE  LifeInv'
<1>. USE ThreadAssumption DEF LifeInv, Joining, TypeOK, LifeTypeOK, PlaceTypeOK, LoopPlaces,
     CallerPlaces,
     ThreadAssumption, Goto, Actors, lifeVars, queueVars, timerVars, execVars, procVars,
     userVars
<1>1. ASSUME NEW c \in Callers, Run(c) PROVE LifeInv'
  <2>1. pc[Loop] = "off" /\ pc'[Loop] = "entry" /\ runs + 1 \in 1..MaxRuns /\ ~m_running
    BY <1>1 DEF Run
  <2>2. \A d \in Callers : (Joining(d)' <=> Joining(d)) /\ joinableThread'[d] = joinableThread[d]
    BY <1>1 DEF Run
  <2>3. pthread'[runs + 1] = "running" /\ \A k \in 1..runs : pthread'[k] = pthread[k]
    BY <1>1, <2>1 DEF Run
  <2>4. m_running' /\ m_abandon' /\ runs' = runs + 1
    BY <1>1 DEF Run
  <2>5. \A k \in 1..runs' : k = runs' \/ k \in 1..runs
    BY <2>1, <2>4
  <2>. HIDE DEF Joining
  <2>6. \A k \in 1..runs' :
          pthread'[k] # "none" /\ (pthread'[k] = "running" => k = runs' /\ m_running')
    BY <2>1, <2>3, <2>4, <2>5
  <2>7. \A d \in Callers : Joining(d)' => joinableThread'[d] \in 1..runs
    BY <2>2
  <2>. QED
    BY <2>1, <2>3, <2>4, <2>6, <2>7
<1>2. ASSUME NEW c \in Callers, Quit(c) PROVE LifeInv'
  <2>1. m_running /\ pc[c] = "idle" /\ pc' = [pc EXCEPT ![c] = "join"]
    BY <1>2 DEF Quit, SendQuit
  <2>2. joinableThread' = [joinableThread EXCEPT ![c] = runs]
    BY <1>2 DEF Quit, SendQuit
  <2>3. UNCHANGED <<m_running, runs, pthread>> /\ ~m_abandon'
    BY <1>2 DEF Quit, SendQuit
  <2>4. pc'[Loop] = pc[Loop] /\ Joining(c)' /\ ~Joining(c) /\ joinableThread'[c] = runs
    BY <2>1, <2>2
  <2>5. \A d \in Callers \ {c} :
          (Joining(d)' <=> Joining(d)) /\ joinableThread'[d] = joinableThread[d]
    BY <2>1, <2>2
  <2>. HIDE DEF Joining
  <2>6. \A d \in Callers : Joining(d)' => joinableThread'[d] \in 1..runs'
    BY <2>1, <2>3, <2>4, <2>5
  <2>7. \E d \in Callers : Joining(d)' /\ joinableThread'[d] = runs'
    BY <2>3, <2>4
  <2>8. m_running' /\ pc'[Loop] # "off" /\ runs' \in 1..MaxRuns /\ pthread'[runs'] = "running"
    BY <2>1, <2>3, <2>4
  <2>9. \A k \in 1..runs' :
          pthread'[k] # "none" /\ (pthread'[k] = "running" => k = runs' /\ m_running')
    BY <2>1, <2>3
  <2>. QED
    BY <2>3, <2>6, <2>7, <2>8, <2>9
<1>3. ASSUME NEW c \in Callers, Join(c) PROVE LifeInv'
  BY <1>3 DEF Join
<1>4. ASSUME NEW c \in Callers, Destroy(c) PROVE LifeInv'
  BY <1>4 DEF Destroy, SendQuit
<1>5. ASSUME NEW c \in Callers, Purge(c) PROVE LifeInv'
  BY <1>5 DEF Purge
<1>6. ASSUME NEW c \in Callers, CallerPush(c) PROVE LifeInv'
  <2>1. /\ pc[c] = "idle"
        /\ UNCHANGED lifeVars
        /\ \E x \in {"push", "pushtimed"} : pc' = [pc EXCEPT ![c] = x]
    BY <1>6 DEF CallerPush
  <2>2. pc'[Loop] = pc[Loop] /\ \A d \in Callers : Joining(d)' <=> Joining(d)
    BY <2>1
  <2>. HIDE DEF Joining
  <2>. QED
    BY <2>1, <2>2
<1>7. ASSUME NEW c \in Callers, CallerSignal(c) PROVE LifeInv'
  <2>1. pc[c] \in {"push", "pushtimed"} /\ pc' = [pc EXCEPT ![c] = "idle"] /\ UNCHANGED lifeVars
    BY <1>7 DEF CallerSignal
  <2>2. pc'[Loop] = pc[Loop] /\ \A d \in Callers : (~Joining(d) /\ ~Joining(d)') \/ pc'[d] = pc[d]
    BY <2>1
  <2>. QED
    BY <2>1, <2>2
<1>8. ASSUME EnterExec PROVE LifeInv'
  BY <1>8 DEF EnterExec
<1>9. ASSUME SkipExec PROVE LifeInv'
  BY <1>9 DEF SkipExec
<1>10. ASSUME LeaveThread PROVE LifeInv'
  <2>1. /\ m_running
        /\ pc'[Loop] = "off"
        /\ ~m_running'
        /\ UNCHANGED <<m_abandon, runs, joinableThread>>
    BY <1>10 DEF LeaveThread
  <2>2. \A d \in Callers : Joining(d)' <=> Joining(d)
    BY <1>10 DEF LeaveThread
  <2>3. /\ pthread'[runs] = IF m_abandon THEN "detached" ELSE "joinable"
        /\ \A k \in 1..runs : k # runs => pthread'[k] = pthread[k]
    BY <1>10, <2>1 DEF LeaveThread
  <2>. HIDE DEF Joining
  <2>4. \A k \in 1..runs' : pthread'[k] # "none" /\ pthread'[k] # "running"
    BY <2>1, <2>3
  <2>. QED
    BY <2>1, <2>2, <2>4
<1>11. ASSUME ComputeWait PROVE LifeInv'
  BY <1>11 DEF ComputeWait, Waiting, Never
<1>12. ASSUME Select PROVE LifeInv'
  BY <1>12 DEF Select, ReadyIndices
<1>13. ASSUME Timeout PROVE LifeInv'
  BY <1>13 DEF Timeout, BeginTimed
<1>14. ASSUME HandleQuit PROVE LifeInv'
  BY <1>14 DEF HandleQuit, AtIndex
<1>15. ASSUME StealEvents PROVE LifeInv'
  BY <1>15 DEF StealEvents, AtIndex
<1>16. ASSUME DispatchEvent PROVE LifeInv'
  BY <1>16 DEF DispatchEvent
<1>17. ASSUME HandlerPush PROVE LifeInv'
  <2>1. /\ pc[Loop] = "handler"
        /\ UNCHANGED lifeVars
        /\ (pc' = pc \/ pc' = [pc EXCEPT ![Loop] = "handlerpush"])
    BY <1>17 DEF HandlerPush
  <2>2. pc'[Loop] # "off" /\ \A d \in Callers : pc'[d] = pc[d]
    BY <2>1
  <2>. QED
    BY <2>1, <2>2
<1>18. ASSUME HandlerSignal PROVE LifeInv'
  BY <1>18 DEF HandlerSignal, SignalEvent, SignalTimedEvent
<1>19. ASSUME EndHandler PROVE LifeInv'
  BY <1>19 DEF EndHandler
<1>20. ASSUME EndProcessEvents PROVE LifeInv'
  BY <1>20 DEF EndProcessEvents, AfterIndex
<1>21. ASSUME HandleTimed PROVE LifeInv'
  BY <1>21 DEF HandleTimed, AtIndex, BeginTimed
<1>22. ASSUME PushDue PROVE LifeInv'
  BY <1>22 DEF PushDue, PushEvent
<1>23. ASSUME PopDue PROVE LifeInv'
  BY <1>23 DEF PopDue, SignalEvent
<1>24. ASSUME EndTimed PROVE LifeInv'
  BY <1>24 DEF EndTimed
<1>25. ASSUME ResetTimed PROVE LifeInv'
  BY <1>25 DEF ResetTimed, AfterIndex
<1>26. ASSUME Tick PROVE LifeInv'
  BY <1>26 DEF Tick
<1>27. ASSUME UNCHANGED vars PROVE LifeInv'
  BY <1>27 DEF vars
<1>. QED
  BY <1>1, <1>2, <1>3, <1>4, <1>5, <1>6, <1>7, <1>8, <1>9, <1>10, <1>11, <1>12, <1>13,
     <1>14, <1>15, <1>16, <1>17, <1>18, <1>19, <1>20, <1>21, <1>22, <1>23, <1>24, <1>25,
     <1>26, <1>27
     DEF Next, LoopStep, CallerStep, Done

\* The ending thread sees in m_abandon whether somebody joins it.
LEMMA JoinStep ==
  ASSUME TypeOK, LifeInv, JoinXorDetach, [Next]_vars
  PROVE  JoinXorDetach'
<1>. USE ThreadAssumption DEF LifeInv, JoinXorDetach, Joining, TypeOK, LifeTypeOK, PlaceTypeOK,
     LoopPlaces, CallerPlaces,
     ThreadAssumption, Goto, Actors, lifeVars, queueVars, timerVars, execVars, procVars,
     userVars
<1>1. ASSUME NEW c \in Callers, Run(c) PROVE JoinXorDetach'
  <2>1. ~m_running /\ runs + 1 \in 1..MaxRuns
    BY <1>1 DEF Run
  <2>2. \A d \in Callers : (Joining(d)' <=> Joining(d)) /\ joinableThread'[d] = joinableThread[d]
    BY <1>1 DEF Run
  <2>3. /\ runs' = runs + 1
        /\ pthread'[runs + 1] = "running"
        /\ \A k \in 1..runs : pthread'[k] = pthread[k]
    BY <1>1, <2>1 DEF Run
  <2>4. \A k \in 1..runs' : k = runs' \/ k \in 1..runs
    BY <2>1, <2>3
  <2>. HIDE DEF Joining
  <2>5. \A k \in 1..runs' : pthread'[k] = "joinable" => k \in 1..runs /\ pthread[k] = "joinable"
    BY <2>3, <2>4
  <2>. QED
    BY <2>2, <2>3, <2>5, SMTT(60)
<1>2. ASSUME NEW c \in Callers, Quit(c) PROVE JoinXorDetach'
  <2>1. m_running /\ pc[c] = "idle" /\ pc' = [pc EXCEPT ![c] = "join"]
    BY <1>2 DEF Quit, SendQuit
  <2>2. joinableThread' = [joinableThread EXCEPT ![c] = runs]
    BY <1>2 DEF Quit, SendQuit
  <2>3. UNCHANGED <<m_running, runs, pthread>> /\ ~m_abandon'
    BY <1>2 DEF Quit, SendQuit
  <2>4. pc'[Loop] = pc[Loop] /\ Joining(c)' /\ ~Joining(c) /\ joinableThread'[c] = runs
    BY <2>1, <2>2
  <2>5. \A d \in Callers \ {c} :
          (Joining(d)' <=> Joining(d)) /\ joinableThread'[d] = joinableThread[d]
    BY <2>1, <2>2
  <2>. HIDE DEF Joining
  <2>6. \A d \in Callers : Joining(d)' => pthread'[joinableThread'[d]] \notin {"none", "detached"}
    BY <2>1, <2>3, <2>4, <2>5
  <2>7. \A d \in Callers : Joining(d) => d \in Callers \ {c}
    BY <2>4
  <2>8. \A k \in 1..runs' :
          pthread'[k] = "joinable" =>
            \E d \in Callers : Joining(d)' /\ joinableThread'[d] = k
    BY <2>3, <2>5, <2>7
  <2>. QED
    BY <2>6, <2>8
<1>3. ASSUME NEW c \in Callers, Join(c) PROVE JoinXorDetach'
  BY <1>3 DEF Join
<1>4. ASSUME NEW c \in Callers, Destroy(c) PROVE JoinXorDetach'
  <2>1. CASE SendQuit(c, "djoin")
    <3>1. m_running /\ pc[c] = "idle" /\ pc' = [pc EXCEPT ![c] = "djoin"]
      BY <1>4, <2>1 DEF Destroy, SendQuit
    <3>2. /\ joinableThread' = [joinableThread EXCEPT ![c] = runs]
          /\ UNCHANGED <<m_running, runs, pthread>>
      BY <2>1 DEF SendQuit
    <3>3. Joining(c)' /\ ~Joining(c) /\ joinableThread'[c] = runs
      BY <3>1, <3>2
    <3>4. \A d \in Callers \ {c} :
            (Joining(d)' <=> Joining(d)) /\ joinableThread'[d] = joinableThread[d]
      BY <3>1, <3>2
    <3>. HIDE DEF Joining
    <3>. QED
      BY <3>1, <3>2, <3>3, <3>4
  <2>2. CASE UNCHANGED lifeVars /\ pc' = [pc EXCEPT ![c] = "purge"]
    BY <1>4, <2>2 DEF Destroy
  <2>. QED
    BY <1>4, <2>1, <2>2 DEF Destroy
<1>5. ASSUME NEW c \in Callers, Purge(c) PROVE JoinXorDetach'
  BY <1>5 DEF Purge
<1>6. ASSUME NEW c \in Callers, CallerPush(c) PROVE JoinXorDetach'
  <2>1. /\ pc[c] = "idle"
        /\ UNCHANGED lifeVars
        /\ \E x \in {"push", "pushtimed"} : pc' = [pc EXCEPT ![c] = x]
    BY <1>6 DEF CallerPush
  <2>2. pc'[Loop] = pc[Loop] /\ \A d \in Callers : Joining(d)' <=> Joining(d)
    BY <2>1
  <2>. HIDE DEF Joining
  <2>. QED
    BY <2>1, <2>2
<1>7. ASSUME NEW c \in Callers, CallerSignal(c) PROVE JoinXorDetach'
  <2>1. pc[c] \in {"push", "pushtimed"} /\ pc' = [pc EXCEPT ![c] = "idle"] /\ UNCHANGED lifeVars
    BY <1>7 DEF CallerSignal
  <2>2. pc'[Loop] = pc[Loop] /\ \A d \in Callers : (~Joining(d) /\ ~Joining(d)') \/ pc'[d] = pc[d]
    BY <2>1
  <2>. QED
    BY <2>1, <2>2
<1>8. ASSUME EnterExec PROVE JoinXorDetach'
  BY <1>8 DEF EnterExec
<1>9. ASSUME SkipExec PROVE JoinXorDetach'
  BY <1>9 DEF SkipExec
<1>10. ASSUME LeaveThread PROVE JoinXorDetach'
  <2>1. /\ m_running
        /\ pc'[Loop] = "off"
        /\ ~m_running'
        /\ UNCHANGED <<m_abandon, runs, joinableThread>>
    BY <1>10 DEF LeaveThread
  <2>2. \A d \in Callers : Joining(d)' <=> Joining(d)
    BY <1>10 DEF LeaveThread
  <2>3. /\ pthread'[runs] = IF m_abandon THEN "detached" ELSE "joinable"
        /\ \A k \in 1..runs : k # runs => pthread'[k] = pthread[k]
    BY <1>10, <2>1 DEF LeaveThread
  <2>. HIDE DEF Joining
  <2>4. \A d \in Callers : Joining(d)' => pthread'[joinableThread'[d]] \notin {"none", "detached"}
    BY <2>1, <2>2, <2>3
  <2>5. \A k \in 1..runs' :
          pthread'[k] = "joinable" =>
            \E d \in Callers : Joining(d)' /\ joinableThread'[d] = k
    BY <2>1, <2>2, <2>3
  <2>. QED
    BY <2>4, <2>5
<1>11. ASSUME ComputeWait PROVE JoinXorDetach'
  BY <1>11 DEF ComputeWait, Waiting, Never
<1>12. ASSUME Select PROVE JoinXorDetach'
  BY <1>12 DEF Select, ReadyIndices
<1>13. ASSUME Timeout PROVE JoinXorDetach'
  BY <1>13 DEF Timeout, BeginTimed
<1>14. ASSUME HandleQuit PROVE JoinXorDetach'
  BY <1>14 DEF HandleQuit, AtIndex
<1>15. ASSUME StealEvents PROVE JoinXorDetach'
  BY <1>15 DEF StealEvents, AtIndex
<1>16. ASSUME DispatchEvent PROVE JoinXorDetach'
  BY <1>16 DEF DispatchEvent
<1>17. ASSUME HandlerPush PROVE JoinXorDetach'
  <2>1. /\ pc[Loop] = "handler"
        /\ UNCHANGED lifeVars
        /\ (pc' = pc \/ pc' = [pc EXCEPT ![Loop] = "handlerpush"])
    BY <1>17 DEF HandlerPush
  <2>2. pc'[Loop] # "off" /\ \A d \in Callers : pc'[d] = pc[d]
    BY <2>1
  <2>. QED
    BY <2>1, <2>2
<1>18. ASSUME HandlerSignal PROVE JoinXorDetach'
  BY <1>18 DEF HandlerSignal, SignalEvent, SignalTimedEvent
<1>19. ASSUME EndHandler PROVE JoinXorDetach'
  BY <1>19 DEF EndHandler
<1>20. ASSUME EndProcessEvents PROVE JoinXorDetach'
  BY <1>20 DEF EndProcessEvents, AfterIndex
<1>21. ASSUME HandleTimed PROVE JoinXorDetach'
  BY <1>21 DEF HandleTimed, AtIndex, BeginTimed
<1>22. ASSUME PushDue PROVE JoinXorDetach'
  BY <1>22 DEF PushDue, PushEvent
<1>23. ASSUME PopDue PROVE JoinXorDetach'
  BY <1>23 DEF PopDue, SignalEvent
<1>24. ASSUME EndTimed PROVE JoinXorDetach'
  BY <1>24 DEF EndTimed
<1>25. ASSUME ResetTimed PROVE JoinXorDetach'
  BY <1>25 DEF ResetTimed, AfterIndex
<1>26. ASSUME Tick PROVE JoinXorDetach'
  BY <1>26 DEF Tick
<1>27. ASSUME UNCHANGED vars PROVE JoinXorDetach'
  BY <1>27 DEF vars
<1>. QED
  BY <1>1, <1>2, <1>3, <1>4, <1>5, <1>6, <1>7, <1>8, <1>9, <1>10, <1>11, <1>12, <1>13,
     <1>14, <1>15, <1>16, <1>17, <1>18, <1>19, <1>20, <1>21, <1>22, <1>23, <1>24, <1>25,
     <1>26, <1>27
     DEF Next, LoopStep, CallerStep, Done

\* One caller at most is in the destructor, and nobody else uses the object then.
LEMMA DestroyStep ==
  ASSUME TypeOK, LifeInv, DestroyInv, [Next]_vars
  PROVE  DestroyInv'
<1>. USE ThreadAssumption DEF LifeInv, DestroyInv, Joining, TypeOK, LifeTypeOK, PlaceTypeOK,
     LoopPlaces, CallerPlaces,
     ThreadAssumption, Goto, Actors, lifeVars, queueVars, timerVars, execVars, procVars,
     userVars
<1>1. ASSUME NEW c \in Callers, Run(c) PROVE DestroyInv'
  BY <1>1 DEF Run
<1>2. ASSUME NEW c \in Callers, Quit(c) PROVE DestroyInv'
  BY <1>2 DEF Quit, SendQuit
<1>3. ASSUME NEW c \in Callers, Join(c) PROVE DestroyInv'
  BY <1>3 DEF Join
<1>4. ASSUME NEW c \in Callers, Destroy(c) PROVE DestroyInv'
  BY <1>4 DEF Destroy, SendQuit
<1>5. ASSUME NEW c \in Callers, Purge(c) PROVE DestroyInv'
  BY <1>5 DEF Purge
<1>6. ASSUME NEW c \in Callers, CallerPush(c) PROVE DestroyInv'
  BY <1>6 DEF CallerPush, PushEvent, PushTimedEvent
<1>7. ASSUME NEW c \in Callers, CallerSignal(c) PROVE DestroyInv'
  BY <1>7 DEF CallerSignal, SignalEvent, SignalTimedEvent
<1>8. ASSUME EnterExec PROVE DestroyInv'
  BY <1>8 DEF EnterExec
<1>9. ASSUME SkipExec PROVE DestroyInv'
  BY <1>9 DEF SkipExec
<1>10. ASSUME LeaveThread PROVE DestroyInv'
  BY <1>10 DEF LeaveThread
<1>11. ASSUME ComputeWait PROVE DestroyInv'
  BY <1>11 DEF ComputeWait, Waiting, Never
<1>12. ASSUME Select PROVE DestroyInv'
  BY <1>12 DEF Select, ReadyIndices
<1>13. ASSUME Timeout PROVE DestroyInv'
  BY <1>13 DEF Timeout, BeginTimed
<1>14. ASSUME HandleQuit PROVE DestroyInv'
  BY <1>14 DEF HandleQuit, AtIndex
<1>15. ASSUME StealEvents PROVE DestroyInv'
  BY <1>15 DEF StealEvents, AtIndex
<1>16. ASSUME DispatchEvent PROVE DestroyInv'
  BY <1>16 DEF DispatchEvent
<1>17. ASSUME HandlerPush PROVE DestroyInv'
  BY <1>17 DEF HandlerPush, PushEvent, PushTimedEvent
<1>18. ASSUME HandlerSignal PROVE DestroyInv'
  BY <1>18 DEF HandlerSignal, SignalEvent, SignalTimedEvent
<1>19. ASSUME EndHandler PROVE DestroyInv'
  BY <1>19 DEF EndHandler
<1>20. ASSUME EndProcessEvents PROVE DestroyInv'
  BY <1>20 DEF EndProcessEvents, AfterIndex
<1>21. ASSUME HandleTimed PROVE DestroyInv'
  BY <1>21 DEF HandleTimed, AtIndex, BeginTimed
<1>22. ASSUME PushDue PROVE DestroyInv'
  BY <1>22 DEF PushDue, PushEvent
<1>23. ASSUME PopDue PROVE DestroyInv'
  BY <1>23 DEF PopDue, SignalEvent
<1>24. ASSUME EndTimed PROVE DestroyInv'
  BY <1>24 DEF EndTimed
<1>25. ASSUME ResetTimed PROVE DestroyInv'
  BY <1>25 DEF ResetTimed, AfterIndex
<1>26. ASSUME Tick PROVE DestroyInv'
  BY <1>26 DEF Tick
<1>27. ASSUME UNCHANGED vars PROVE DestroyInv'
  BY <1>27 DEF vars
<1>. QED
  BY <1>1, <1>2, <1>3, <1>4, <1>5, <1>6, <1>7, <1>8, <1>9, <1>10, <1>11, <1>12, <1>13,
     <1>14, <1>15, <1>16, <1>17, <1>18, <1>19, <1>20, <1>21, <1>22, <1>23, <1>24, <1>25,
     <1>26, <1>27
     DEF Next, LoopStep, CallerStep, Done

\* What ProcessEvents and ProcessTimedEvents keep for themselves is empty when they return.
LEMMA LocalsStep ==
  ASSUME TypeOK, LifeInv, LocalsInv, [Next]_vars
  PROVE  LocalsInv'
<1>. USE ThreadAssumption DEF LifeInv, LocalsInv, TypeOK, TimerTypeOK, ProcTypeOK, PlaceTypeOK,
     LoopPlaces, CallerPlaces,
     ThreadAssumption, Goto, Actors, lifeVars, queueVars, timerVars, execVars, procVars,
     userVars
<1>1. ASSUME NEW c \in Callers, Run(c) PROVE LocalsInv'
  BY <1>1 DEF Run
<1>2. ASSUME NEW c \in Callers, Quit(c) PROVE LocalsInv'
  BY <1>2 DEF Quit, SendQuit
<1>3. ASSUME NEW c \in Callers, Join(c) PROVE LocalsInv'
  BY <1>3 DEF Join
<1>4. ASSUME NEW c \in Callers, Destroy(c) PROVE LocalsInv'
  BY <1>4 DEF Destroy, SendQuit
<1>5. ASSUME NEW c \in Callers, Purge(c) PROVE LocalsInv'
  BY <1>5 DEF Purge
<1>6. ASSUME NEW c \in Callers, CallerPush(c) PROVE LocalsInv'
  BY <1>6 DEF CallerPush, PushEvent, PushTimedEvent
<1>7. ASSUME NEW c \in Callers, CallerSignal(c) PROVE LocalsInv'
  BY <1>7 DEF CallerSignal, SignalEvent, SignalTimedEvent
<1>8. ASSUME EnterExec PROVE LocalsInv'
  BY <1>8 DEF EnterExec
<1>9. ASSUME SkipExec PROVE LocalsInv'
  BY <1>9 DEF SkipExec
<1>10. ASSUME LeaveThread PROVE LocalsInv'
  BY <1>10 DEF LeaveThread
<1>11. ASSUME ComputeWait PROVE LocalsInv'
  BY <1>11 DEF ComputeWait, Waiting, Never
<1>12. ASSUME Select PROVE LocalsInv'
  BY <1>12 DEF Select, ReadyIndices
<1>13. ASSUME Timeout PROVE LocalsInv'
  BY <1>13 DEF Timeout, BeginTimed
<1>14. ASSUME HandleQuit PROVE LocalsInv'
  BY <1>14 DEF HandleQuit, AtIndex
<1>15. ASSUME StealEvents PROVE LocalsInv'
  BY <1>15 DEF StealEvents, AtIndex
<1>16. ASSUME DispatchEvent PROVE LocalsInv'
  BY <1>16 DEF DispatchEvent
<1>17. ASSUME HandlerPush PROVE LocalsInv'
  BY <1>17 DEF HandlerPush, PushEvent, PushTimedEvent
<1>18. ASSUME HandlerSignal PROVE LocalsInv'
  BY <1>18 DEF HandlerSignal, SignalEvent, SignalTimedEvent
<1>19. ASSUME EndHandler PROVE LocalsInv'
  BY <1>19 DEF EndHandler
<1>20. ASSUME EndProcessEvents PROVE LocalsInv'
  BY <1>20 DEF EndProcessEvents, AfterIndex
<1>21. ASSUME HandleTimed PROVE LocalsInv'
  BY <1>21 DEF HandleTimed, AtIndex, BeginTimed
<1>22. ASSUME PushDue PROVE LocalsInv'
  BY <1>22 DEF PushDue, PushEvent
<1>23. ASSUME PopDue PROVE LocalsInv'
  BY <1>23 DEF PopDue, SignalEvent
<1>24. ASSUME EndTimed PROVE LocalsInv'
  BY <1>24 DEF EndTimed
<1>25. ASSUME ResetTimed PROVE LocalsInv'
  BY <1>25 DEF ResetTimed, AfterIndex
<1>26. ASSUME Tick PROVE LocalsInv'
  BY <1>26 DEF Tick
<1>27. ASSUME UNCHANGED vars PROVE LocalsInv'
  BY <1>27 DEF vars
<1>. QED
  BY <1>1, <1>2, <1>3, <1>4, <1>5, <1>6, <1>7, <1>8, <1>9, <1>10, <1>11, <1>12, <1>13,
     <1>14, <1>15, <1>16, <1>17, <1>18, <1>19, <1>20, <1>21, <1>22, <1>23, <1>24, <1>25,
     <1>26, <1>27
     DEF Next, LoopStep, CallerStep, Done

\* The mutex is held from the list to the pipe, and the events before the new one
\* have their byte.
LEMMA PushStep ==
  ASSUME TypeOK, NoLostWakeup, LifeInv, DestroyInv, LocalsInv, PushInv, [Next]_vars
  PROVE  PushInv'
<1>. USE ThreadAssumption DEF PushInv, DestroyInv, LifeInv, NoLostWakeup, TypeOK, QueueTypeOK,
     PlaceTypeOK, LoopPlaces, CallerPlaces,
     ThreadAssumption, Goto, Actors, lifeVars, queueVars, timerVars, execVars, procVars,
     userVars
<1>1. ASSUME NEW c \in Callers, Run(c) PROVE PushInv'
  BY <1>1 DEF Run
<1>2. ASSUME NEW c \in Callers, Quit(c) PROVE PushInv'
  BY <1>2 DEF Quit, SendQuit
<1>3. ASSUME NEW c \in Callers, Join(c) PROVE PushInv'
  BY <1>3 DEF Join
<1>4. ASSUME NEW c \in Callers, Destroy(c) PROVE PushInv'
  BY <1>4 DEF Destroy, SendQuit
<1>5. ASSUME NEW c \in Callers, Purge(c) PROVE PushInv'
  BY <1>5 DEF Purge
<1>6. ASSUME NEW c \in Callers, CallerPush(c) PROVE PushInv'
  BY <1>6 DEF CallerPush, PushEvent, PushTimedEvent
<1>7. ASSUME NEW c \in Callers, CallerSignal(c) PROVE PushInv'
  BY <1>7 DEF CallerSignal, SignalEvent, SignalTimedEvent
<1>8. ASSUME EnterExec PROVE PushInv'
  BY <1>8 DEF EnterExec
<1>9. ASSUME SkipExec PROVE PushInv'
  BY <1>9 DEF SkipExec
<1>10. ASSUME LeaveThread PROVE PushInv'
  BY <1>10 DEF LeaveThread
<1>11. ASSUME ComputeWait PROVE PushInv'
  BY <1>11 DEF ComputeWait, Waiting, Never
<1>12. ASSUME Select PROVE PushInv'
  BY <1>12 DEF Select, ReadyIndices
<1>13. ASSUME Timeout PROVE PushInv'
  BY <1>13 DEF Timeout, BeginTimed
<1>14. ASSUME HandleQuit PROVE PushInv'
  BY <1>14 DEF HandleQuit, AtIndex
<1>15. ASSUME StealEvents PROVE PushInv'
  BY <1>15 DEF StealEvents, AtIndex
<1>16. ASSUME DispatchEvent PROVE PushInv'
  BY <1>16 DEF DispatchEvent
<1>17. ASSUME HandlerPush PROVE PushInv'
  BY <1>17 DEF HandlerPush, PushEvent, PushTimedEvent
<1>18. ASSUME HandlerSignal PROVE PushInv'
  BY <1>18 DEF HandlerSignal, SignalEvent, SignalTimedEvent
<1>19. ASSUME EndHandler PROVE PushInv'
  BY <1>19 DEF EndHandler
<1>20. ASSUME EndProcessEvents PROVE PushInv'
  BY <1>20 DEF EndProcessEvents, AfterIndex
<1>21. ASSUME HandleTimed PROVE PushInv'
  BY <1>21 DEF HandleTimed, AtIndex, BeginTimed
<1>22. ASSUME PushDue PROVE PushInv'
  <2>1. PICK e \in TimedEvents : PushEvent(Loop, e)
    BY <1>22 DEF PushDue
  <2>2. /\ m_eventList' = Append(m_eventList, e) /\ UNCHANGED m_eventInvoker
        /\ m_eventMutex = NoOne /\ m_eventMutex' = Loop
    BY <2>1 DEF PushEvent
  <2>3. m_eventList' # <<>> /\ Len(m_eventList') = Len(m_eventList) + 1
    BY <2>2, AppendProperties
  <2>4. pc' = [pc EXCEPT ![Loop] = "timedpush"] /\ m_timedEventMutex' = m_timedEventMutex
    BY <1>22 DEF PushDue
  <2>. QED
    BY <2>2, <2>3, <2>4
<1>23. ASSUME PopDue PROVE PushInv'
  BY <1>23 DEF PopDue, SignalEvent
<1>24. ASSUME EndTimed PROVE PushInv'
  BY <1>24 DEF EndTimed
<1>25. ASSUME ResetTimed PROVE PushInv'
  BY <1>25 DEF ResetTimed, AfterIndex
<1>26. ASSUME Tick PROVE PushInv'
  BY <1>26 DEF Tick
<1>27. ASSUME UNCHANGED vars PROVE PushInv'
  BY <1>27 DEF vars
<1>. QED
  BY <1>1, <1>2, <1>3, <1>4, <1>5, <1>6, <1>7, <1>8, <1>9, <1>10, <1>11, <1>12, <1>13,
     <1>14, <1>15, <1>16, <1>17, <1>18, <1>19, <1>20, <1>21, <1>22, <1>23, <1>24, <1>25,
     <1>26, <1>27
     DEF Next, LoopStep, CallerStep, Done

\* The critical section of Quit promises what is queued, before select can return
\* the quit index.
LEMMA QuitFlushStep ==
  ASSUME TypeOK, LifeInv, LocalsInv, FlushInv,
         NEW c \in Callers, NEW wait \in CallerPlaces, SendQuit(c, wait)
  PROVE  FlushInv'
<1>. USE ThreadAssumption DEF ThreadAssumption, TypeOK, LifeTypeOK, ExecTypeOK, PlaceTypeOK, Actors,
     queueVars, execVars, procVars, InBatch
<1>1. UNCHANGED <<queueVars, execVars, procVars>> /\ m_quitEvent' > 0
  BY DEF SendQuit
<1>2. Queued' = Queued
  BY <1>1, QueuedSteps
<1>3. pc[Loop] # "off" /\ pc'[Loop] = pc[Loop]
  BY DEF SendQuit, LifeInv, Goto
<1>4. \/ promised' = promised
      \/ m_quitEvent = 0 /\ pc[Loop] # "exit" /\ promised' = Queued
  BY DEF SendQuit
<1>5. StillToCome' = StillToCome
  BY <1>1, <1>2, <1>3 DEF StillToCome
<1>. QED
  BY <1>1, <1>2, <1>3, <1>4, <1>5 DEF FlushInv

\* The quit index leaves the indices behind it in the batch, and what was queued
\* when the message was sent has its byte.
LEMMA FlushStep ==
  ASSUME TypeOK, NoLostWakeup, BatchInv, LifeInv, DestroyInv, LocalsInv, PushInv, FlushInv,
         [Next]_vars
  PROVE  FlushInv'
<1>. USE ThreadAssumption DEF FlushInv, StillToCome, LocalsInv, TypeOK, ExecTypeOK, PlaceTypeOK,
     LoopPlaces, CallerPlaces, InBatch,
     QuitIndex, EventIndex, TimedIndex, ThreadAssumption, Goto, Actors, lifeVars, queueVars,
     timerVars, execVars, procVars,
     userVars
<1>1. ASSUME NEW c \in Callers, Run(c) PROVE FlushInv'
  <2>1. Queued' = Queued
    BY <1>1, QueuedSteps DEF Run
  <2>. QED
    BY <1>1, <2>1 DEF Run
<1>2. ASSUME NEW c \in Callers, Quit(c) PROVE FlushInv'
  BY <1>2, QuitFlushStep DEF Quit, CallerPlaces
<1>3. ASSUME NEW c \in Callers, Join(c) PROVE FlushInv'
  <2>1. Queued' = Queued
    BY <1>3, QueuedSteps DEF Join
  <2>. QED
    BY <1>3, <2>1 DEF Join
<1>4. ASSUME NEW c \in Callers, Destroy(c) PROVE FlushInv'
  <2>1. CASE SendQuit(c, "djoin")
    BY <2>1, QuitFlushStep
  <2>2. CASE UNCHANGED <<lifeVars, queueVars, execVars, procVars, promised>> /\ Goto(c, "purge")
    <3>1. Queued' = Queued
      BY <2>2, QueuedSteps
    <3>. QED
      BY <2>2, <3>1
  <2>. QED
    BY <1>4, <2>1, <2>2 DEF Destroy
<1>5. ASSUME NEW c \in Callers, Purge(c) PROVE FlushInv'
  <2>1. promised = {} /\ pc[Loop] = "off"
    BY <1>5 DEF Purge, DestroyInv, LifeInv
  <2>. QED
    BY <1>5, <2>1 DEF Purge
<1>6. ASSUME NEW c \in Callers, CallerPush(c) PROVE FlushInv'
  <2>1. Queued' = Queued
    <3>1. UNCHANGED stolenEvents /\ \E e \in Events : PushEvent(c, e) \/ UNCHANGED queueVars
      BY <1>6 DEF CallerPush, UserTypeOK
    <3>. QED
      BY <3>1, QueuedSteps
  <2>2. pc'[Loop] = pc[Loop] /\ UNCHANGED <<lifeVars, execVars, procVars, promised>>
    BY <1>6 DEF CallerPush
  <2>. QED
    BY <2>1, <2>2
<1>7. ASSUME NEW c \in Callers, CallerSignal(c) PROVE FlushInv'
  <2>1. Queued \subseteq Queued'
    <3>1. UNCHANGED stolenEvents /\ (SignalEvent(c) \/ UNCHANGED queueVars)
      BY <1>7 DEF CallerSignal
    <3>. QED
      BY <3>1, QueuedSteps
  <2>2. pc'[Loop] = pc[Loop] /\ UNCHANGED <<lifeVars, execVars, procVars, promised>>
    BY <1>7 DEF CallerSignal
  <2>. QED
    BY <2>1, <2>2
<1>8. ASSUME EnterExec PROVE FlushInv'
  <2>1. Queued' = Queued
    BY <1>8, QueuedSteps DEF EnterExec
  <2>. QED
    BY <1>8, <2>1 DEF EnterExec
<1>9. ASSUME SkipExec PROVE FlushInv'
  <2>1. Queued' = Queued
    BY <1>9, QueuedSteps DEF SkipExec
  <2>. QED
    BY <1>9, <2>1 DEF SkipExec
<1>10. ASSUME LeaveThread PROVE FlushInv'
  <2>1. Queued' = Queued
    BY <1>10, QueuedSteps DEF LeaveThread
  <2>. QED
    BY <1>10, <2>1 DEF LeaveThread
<1>11. ASSUME ComputeWait PROVE FlushInv'
  <2>1. Queued' = Queued
    BY <1>11, QueuedSteps DEF ComputeWait, Waiting, Never
  <2>. QED
    BY <1>11, <2>1 DEF ComputeWait, Waiting, Never
<1>12. ASSUME Select PROVE FlushInv'
  <2>1. Queued' = Queued /\ UNCHANGED <<lifeVars, queueVars, procVars, quit, promised>>
    BY <1>12, QueuedSteps DEF Select
  <2>2. pc[Loop] = "select" /\ pc'[Loop] = "batch" /\ waitableHandleIndexList' = ReadyIndices
    BY <1>12 DEF Select
  <2>3. ~quit /\ (QuitIndex \in ReadyIndices <=> m_quitEvent > 0)
    BY <2>2 DEF ReadyIndices
  <2>4. CASE EventIndex \in ReadyIndices
    BY <2>1, <2>2, <2>3, <2>4
  <2>5. CASE EventIndex \notin ReadyIndices
    <3>1. m_eventInvoker = 0
      BY <2>5 DEF ReadyIndices, QueueTypeOK
    <3>2. m_eventMutex # NoOne => Len(m_eventList) <= 1
      BY <3>1 DEF PushInv, QueueTypeOK
    <3>3. Queued = ToSet(stolenEvents)
      BY <3>1, <3>2, FrontIsPart, EmptyToSet DEF Queued, NoLostWakeup, QueueTypeOK
    <3>. QED
      BY <2>1, <2>2, <2>3, <3>3
  <2>. QED
    BY <2>4, <2>5
<1>13. ASSUME Timeout PROVE FlushInv'
  <2>1. Queued' = Queued
    BY <1>13, QueuedSteps DEF Timeout, BeginTimed
  <2>. QED
    BY <1>13, <2>1 DEF Timeout, BeginTimed
<1>14. ASSUME HandleQuit PROVE FlushInv'
  <2>1. Queued' = Queued /\ UNCHANGED <<lifeVars, procVars, promised>> /\ quit'
    BY <1>14, QueuedSteps DEF HandleQuit
  <2>2. /\ pc[Loop] = "batch" /\ QuitIndex \in waitableHandleIndexList
        /\ waitableHandleIndexList' = waitableHandleIndexList \ {QuitIndex}
        /\ pc'[Loop] = IF waitableHandleIndexList' # {} THEN "batch" ELSE "exit"
    BY <1>14 DEF HandleQuit, AtIndex
  <2>3. ToSet(stolenEvents) = {}
    BY <2>2, EmptyToSet
  <2>. QED
    BY <2>1, <2>2, <2>3
<1>15. ASSUME StealEvents PROVE FlushInv'
  <2>1. Queued' = Queued /\ Queued = ToSet(m_eventList) /\ ToSet(stolenEvents') = ToSet(m_eventList)
    BY <1>15, EmptyToSet DEF StealEvents, Queued, AtIndex
  <2>2. pc[Loop] = "batch" /\ EventIndex \in waitableHandleIndexList /\ pc'[Loop] = "events"
    BY <1>15 DEF StealEvents, AtIndex
  <2>3. UNCHANGED <<lifeVars, execVars, promised>>
    BY <1>15 DEF StealEvents
  <2>. QED
    BY <2>1, <2>2, <2>3
<1>16. ASSUME DispatchEvent PROVE FlushInv'
  <2>1. /\ stolenEvents # <<>>
        /\ stolenEvents' = Tail(stolenEvents)
        /\ promised' = promised \ {Head(stolenEvents)}
    BY <1>16 DEF DispatchEvent
  <2>2. ToSet(stolenEvents) \ {Head(stolenEvents)} \subseteq ToSet(stolenEvents')
    BY <2>1, HeadAndTail DEF ProcTypeOK
  <2>3. Queued \ {Head(stolenEvents)} \subseteq Queued'
    BY <1>16, <2>2 DEF DispatchEvent, Queued
  <2>4. pc[Loop] = "events" /\ pc'[Loop] = "handler" /\ UNCHANGED <<lifeVars, execVars>>
    BY <1>16 DEF DispatchEvent
  <2>. QED
    BY <2>1, <2>2, <2>3, <2>4
<1>17. ASSUME HandlerPush PROVE FlushInv'
  <2>1. Queued' = Queued
    <3>1. todo # <<>> /\ Head(todo) \in Events
      BY <1>17 DEF HandlerPush, ProcTypeOK
    <3>2. UNCHANGED stolenEvents /\ (PushEvent(Loop, Head(todo)) \/ UNCHANGED queueVars)
      BY <1>17 DEF HandlerPush
    <3>. QED
      BY <3>1, <3>2, QueuedSteps
  <2>2. pc[Loop] = "handler" /\ pc'[Loop] \in {"handler", "handlerpush"}
    BY <1>17 DEF HandlerPush
  <2>3. UNCHANGED <<stolenEvents, lifeVars, execVars, promised>>
    BY <1>17 DEF HandlerPush
  <2>. QED
    BY <2>1, <2>2, <2>3
<1>18. ASSUME HandlerSignal PROVE FlushInv'
  <2>1. Queued \subseteq Queued'
    <3>1. UNCHANGED stolenEvents /\ (SignalEvent(Loop) \/ UNCHANGED queueVars)
      BY <1>18 DEF HandlerSignal
    <3>. QED
      BY <3>1, QueuedSteps
  <2>2. /\ pc[Loop] = "handlerpush"
        /\ pc'[Loop] = "handler"
        /\ UNCHANGED <<lifeVars, execVars, procVars, promised>>
    BY <1>18 DEF HandlerSignal
  <2>. QED
    BY <2>1, <2>2
<1>19. ASSUME EndHandler PROVE FlushInv'
  <2>1. Queued' = Queued
    BY <1>19, QueuedSteps DEF EndHandler
  <2>. QED
    BY <1>19, <2>1 DEF EndHandler
<1>20. ASSUME EndProcessEvents PROVE FlushInv'
  <2>1. Queued' = Queued /\ UNCHANGED <<lifeVars, procVars, quit, promised>>
    BY <1>20, QueuedSteps DEF EndProcessEvents
  <2>2. /\ pc[Loop] = "events" /\ ToSet(stolenEvents) = {}
        /\ waitableHandleIndexList' = waitableHandleIndexList \ {EventIndex}
        /\ pc'[Loop] = AfterIndex(waitableHandleIndexList')
    BY <1>20, EmptyToSet DEF EndProcessEvents
  <2>3. quit \/ QuitIndex \in waitableHandleIndexList => promised = {}
    BY <2>2
  <2>. QED
    BY <2>1, <2>2, <2>3 DEF AfterIndex
<1>21. ASSUME HandleTimed PROVE FlushInv'
  <2>1. Queued' = Queued /\ UNCHANGED <<lifeVars, execVars, stolenEvents, promised>>
    BY <1>21, QueuedSteps DEF HandleTimed, BeginTimed
  <2>2. pc[Loop] = "batch" /\ TimedIndex \in waitableHandleIndexList /\ pc'[Loop] = "timed"
    BY <1>21 DEF HandleTimed, AtIndex, BeginTimed
  <2>3. EventIndex \notin waitableHandleIndexList
    <3>1. waitableHandleIndexList \in SUBSET Nat /\ TimedIndex = Min(waitableHandleIndexList)
      BY <1>21 DEF HandleTimed, AtIndex
    <3>. QED
      BY <2>2, <3>1, MinOfNats
  <2>. QED
    BY <2>1, <2>2, <2>3
<1>22. ASSUME PushDue PROVE FlushInv'
  <2>1. Queued' = Queued
    <3>1. UNCHANGED stolenEvents /\ \E e \in Events : PushEvent(Loop, e)
      BY <1>22 DEF PushDue
    <3>. QED
      BY <3>1, QueuedSteps
  <2>2. /\ pc[Loop] = "timed"
        /\ pc'[Loop] = "timedpush"
        /\ UNCHANGED <<stolenEvents, lifeVars, execVars, promised>>
    BY <1>22 DEF PushDue
  <2>. QED
    BY <2>1, <2>2
<1>23. ASSUME PopDue PROVE FlushInv'
  <2>1. Queued \subseteq Queued'
    BY <1>23, QueuedSteps DEF PopDue
  <2>2. /\ pc[Loop] = "timedpush"
        /\ pc'[Loop] = "timed"
        /\ UNCHANGED <<stolenEvents, lifeVars, execVars, promised>>
    BY <1>23 DEF PopDue
  <2>. QED
    BY <2>1, <2>2
<1>24. ASSUME EndTimed PROVE FlushInv'
  <2>1. Queued' = Queued
    BY <1>24, QueuedSteps DEF EndTimed
  <2>. QED
    BY <1>24, <2>1 DEF EndTimed
<1>25. ASSUME ResetTimed PROVE FlushInv'
  <2>1. Queued' = Queued /\ UNCHANGED <<lifeVars, procVars, quit, promised>>
    BY <1>25, QueuedSteps DEF ResetTimed, queueVars
  <2>2. /\ pc[Loop] = "timedreset" /\ ToSet(stolenEvents) = {}
        /\ waitableHandleIndexList' = waitableHandleIndexList \ {TimedIndex}
        /\ pc'[Loop] = AfterIndex(waitableHandleIndexList')
    BY <1>25, EmptyToSet DEF ResetTimed
  <2>3. quit \/ QuitIndex \in waitableHandleIndexList => promised = {}
    BY <2>2
  <2>. QED
    BY <2>1, <2>2, <2>3 DEF AfterIndex
<1>26. ASSUME Tick PROVE FlushInv'
  <2>1. Queued' = Queued
    BY <1>26, QueuedSteps DEF Tick
  <2>. QED
    BY <1>26, <2>1 DEF Tick
<1>27. ASSUME UNCHANGED vars PROVE FlushInv'
  <2>1. Queued' = Queued
    BY <1>27, QueuedSteps DEF vars
  <2>. QED
    BY <1>27, <2>1 DEF vars
<1>. QED
  BY <1>1, <1>2, <1>3, <1>4, <1>5, <1>6, <1>7, <1>8, <1>9, <1>10, <1>11, <1>12, <1>13,
     <1>14, <1>15, <1>16, <1>17, <1>18, <1>19, <1>20, <1>21, <1>22, <1>23, <1>24, <1>25,
     <1>26, <1>27
     DEF Next, LoopStep, CallerStep, Done

-------------------------------------------------------------------------------
(***************************************************************************)
(* The invariant holds.                                                    *)
(***************************************************************************)

\* The invariant holds of a Thread object that has just been made.
LEMMA InvInit ==
  Init => IInv
<1>. SUFFICES ASSUME Init PROVE IInv
  OBVIOUS
<1>. USE ThreadAssumption DEF ThreadAssumption, Init, Actors
<1>1. NoLostWakeup /\ NoLostTimer /\ BatchInv
  BY DEF NoLostWakeup, NoLostTimer, BatchInv, InBatch
<1>2. pc[Loop] = "off" /\ \A c \in Callers : pc[c] = "idle"
  OBVIOUS
<1>3. ~m_running
  BY Zenon
<1>4. LifeInv /\ JoinXorDetach
  BY <1>2, <1>3 DEF LifeInv, JoinXorDetach, Joining
<1>5. DestroyInv /\ LocalsInv /\ PushInv
  BY <1>2 DEF DestroyInv, LocalsInv, PushInv
<1>6. FlushInv
  BY <1>2 DEF FlushInv, InBatch
<1>. QED
  BY <1>1, <1>4, <1>5, <1>6 DEF IInv

\* Every step keeps the invariant: one lemma for each of its parts.
LEMMA InvStep ==
  ASSUME TypeOK, IInv, [Next]_vars
  PROVE  IInv'
<1>. USE DEF IInv
<1>1. NoLostWakeup'
  BY WakeupStep
<1>2. NoLostTimer'
  BY TimerStep
<1>3. BatchInv'
  BY BatchStep
<1>4. LifeInv'
  BY LifeStep
<1>5. JoinXorDetach'
  BY JoinStep
<1>6. DestroyInv'
  BY DestroyStep
<1>7. LocalsInv'
  BY LocalsStep
<1>8. PushInv'
  BY PushStep
<1>9. FlushInv'
  BY FlushStep
<1>. QED
  BY <1>1, <1>2, <1>3, <1>4, <1>5, <1>6, <1>7, <1>8, <1>9

\* Every reachable state of a Thread object, its loop and its callers satisfies the
\* inductive invariant.
THEOREM ThreadInvariant == Spec => [](TypeOK /\ IInv)
<1>1. Init => TypeOK /\ IInv
  BY TypeInit, InvInit
<1>2. TypeOK /\ IInv /\ [Next]_vars => (TypeOK /\ IInv)'
  BY TypeStep, InvStep
<1>. QED
  BY <1>1, <1>2, PTL DEF Spec

\* No wake-up is lost: whatever callers and handlers post, an event in
\* m_eventList has a byte in the pipe that select watches (PushEvent,
\* ProcessEvents).
THEOREM WakeupsKept == Spec => []NoLostWakeup
<1>1. TypeOK /\ IInv => NoLostWakeup
  BY DEF IInv
<1>. QED
  BY <1>1, ThreadInvariant, PTL

\* No due time is slept through: Exec computes its timeout before it calls select,
\* and every PushTimedEvent in between is seen by its byte.
THEOREM TimersKept == Spec => []NoLostTimer
<1>1. TypeOK /\ IInv => NoLostTimer
  BY DEF IInv
<1>. QED
  BY <1>1, ThreadInvariant, PTL

\* WaitableEvent::Reset never throws in Exec: an index is handled only while the
\* byte that made it ready is still there.
THEOREM ResetsSucceed == Spec => []ResetNeverFails
<1>1. TypeOK /\ IInv => ResetNeverFails
  <2>1. ASSUME IInv, AtIndex(EventIndex) PROVE m_eventInvoker > 0
    BY <2>1 DEF AtIndex, IInv, BatchInv
  <2>2. ASSUME IInv, pc[Loop] = "timedreset" PROVE m_timedEventInvoker > 0
    BY <2>2 DEF IInv, BatchInv, InBatch
  <2>. QED
    BY <2>1, <2>2 DEF ResetNeverFails
<1>. QED
  BY <1>1, ThreadInvariant, PTL

\* The thread detaches itself if and only if nobody joins it (Quit and the end of
\* StaticThreadEntry agree through m_abandon), over any number of runs and
\* concurrent calls of Quit.
THEOREM JoinOrDetach == Spec => []JoinXorDetach
<1>1. TypeOK /\ IInv => JoinXorDetach
  BY DEF IInv
<1>. QED
  BY <1>1, ThreadInvariant, PTL

\* Quit cuts nothing short: whatever was queued when the quit message was sent is
\* delivered before Exec returns, because the quit index leaves the indices
\* behind it in the batch and the events have their byte.
THEOREM QuitFlushes == Spec => []FlushOnQuit
<1>1. TypeOK /\ IInv => FlushOnQuit
  BY DEF IInv, FlushInv, FlushOnQuit
<1>. QED
  BY <1>1, ThreadInvariant, PTL

\* What the runs check of the signals and of quitting, together.
THEOREM SignalsAreKept == Spec => []SignalsKept
<1>1. TypeOK /\ NoLostWakeup /\ NoLostTimer /\ ResetNeverFails => SignalsKept
  BY DEF SignalsKept
<1>. QED
  BY <1>1, ThreadTypes, WakeupsKept, TimersKept, ResetsSucceed, PTL

\* A quit flushes the queue, and each thread is joined or detached.
THEOREM QuittingIsClean == Spec => []QuitIsClean
<1>1. FlushOnQuit /\ JoinXorDetach => QuitIsClean
  BY DEF QuitIsClean
<1>. QED
  BY <1>1, QuitFlushes, JoinOrDetach, PTL

-------------------------------------------------------------------------------
(***************************************************************************)
(* Thread implements EventQueue.                                           *)
(***************************************************************************)

\* Appending to the second of two sequences appends to both together.
LEMMA AppendToConcat ==
  ASSUME NEW S, NEW s \in Seq(S), NEW t \in Seq(S), NEW e \in S
  PROVE  s \o Append(t, e) = Append(s \o t, e)
<1>1. Append(t, e) = t \o <<e>> /\ Append(s \o t, e) = (s \o t) \o <<e>>
  BY AppendIsConcat, ConcatProperties
<1>. QED
  BY <1>1, ConcatAssociative

\* The front element of two sequences together is that of the first, unless it is empty.
LEMMA TailOfConcat ==
  ASSUME NEW S, NEW s \in Seq(S), NEW t \in Seq(S), s # <<>>
  PROVE  s \o t # <<>> /\ Tail(s) \o t = Tail(s \o t)
<1>1. s \o t \in Seq(S) /\ Len(s \o t) = Len(s) + Len(t) /\ Len(s) \in Nat \ {0} /\ Len(t) \in Nat
  BY ConcatProperties
<1>2. Tail(s) \in Seq(S) /\ Len(Tail(s)) = Len(s) - 1 /\ s \o t # <<>>
  BY <1>1
<1>3. Tail(s) \o t \in Seq(S) /\ Tail(s \o t) \in Seq(S) /\ Len(Tail(s) \o t) = Len(Tail(s \o t))
  BY <1>1, <1>2, ConcatProperties
<1>4. ASSUME NEW i \in 1..Len(Tail(s) \o t) PROVE (Tail(s) \o t)[i] = Tail(s \o t)[i]
  BY <1>1, <1>2, <1>3, ConcatProperties
<1>. QED
  BY <1>3, <1>4, SeqEqual

\* The abstract state.
AbsQueue == stolenEvents \o m_eventList
AbsTimer == [e \in TimedEvents |-> IF e = moving THEN Idle ELSE m_timedEventVector[e]]

\* A Thread object that has just been made is an empty queue that is not served.
LEMMA AbsInit ==
  Init => Queue!Init
<1>. SUFFICES ASSUME Init PROVE Queue!Init
  OBVIOUS
<1>1. Serving = FALSE
  BY Zenon, ThreadAssumption DEF Init, Serving, Actors
<1>2. stolenEvents \o m_eventList = <<>>
  BY DEF Init
<1>3. [e \in TimedEvents |-> IF e = moving THEN Idle ELSE m_timedEventVector[e]]
        = [e \in TimedEvents |-> Idle]
  BY DEF Init
<1>. QED
  BY <1>1, <1>2, <1>3 DEF Queue!Init, Init

\* Steps the clients cannot see.
LEMMA Stutter ==
  ASSUME UNCHANGED <<AbsQueue, AbsTimer, now>>, Serving' = Serving
  PROVE  UNCHANGED Queue!vars
BY DEF Queue!vars, AbsQueue, AbsTimer

\* One event more at the end of the queue.
LEMMA AbsPost ==
  ASSUME QueueTypeOK, ProcTypeOK, NEW a \in Actors, NEW e \in Events, PushEvent(a, e),
         UNCHANGED <<stolenEvents, AbsTimer, now>>, Serving' = Serving
  PROVE  Queue!Next
<1>1. AbsQueue' = Append(AbsQueue, e)
  BY AppendToConcat DEF AbsQueue, PushEvent, QueueTypeOK, ProcTypeOK
<1>2. Queue!Post(e)
  BY <1>1 DEF Queue!Post, AbsQueue, AbsTimer
<1>. QED
  BY <1>2 DEF Queue!Next

\* One timer more.
LEMMA AbsArm ==
  ASSUME TypeOK, NEW a \in Actors, NEW e \in TimedEvents, PushTimedEvent(a, e), e # moving,
         UNCHANGED <<AbsQueue, moving, now>>, Serving' = Serving
  PROVE  Queue!Next
<1>1. AbsTimer[e] = Idle /\ AbsTimer'[e] >= now
  <2>1. AbsTimer[e] = m_timedEventVector[e] /\ AbsTimer'[e] = m_timedEventVector'[e]
    BY DEF AbsTimer
  <2>2. m_timedEventVector[e] = Idle /\ m_timedEventVector'[e] = now + Delay[e]
    BY DEF PushTimedEvent, TypeOK, TimerTypeOK
  <2>3. now + Delay[e] >= now
    BY ThreadAssumption DEF TypeOK, PlaceTypeOK, ThreadAssumption
  <2>. QED
    BY <2>1, <2>2, <2>3
<1>2. AbsTimer' = [AbsTimer EXCEPT ![e] = AbsTimer'[e]]
  BY DEF AbsTimer, PushTimedEvent, TypeOK, TimerTypeOK
<1>3. Queue!Arm(e)
  BY <1>1, <1>2 DEF Queue!Arm, AbsQueue, AbsTimer
<1>. QED
  BY <1>3 DEF Queue!Next

\* Every step of Thread is a step of EventQueue or leaves it as it is.
LEMMA AbsStep ==
  ASSUME TypeOK, TypeOK', IInv, [Next]_vars
  PROVE  [Queue!Next]_Queue!vars
<1>. DEFINE Goal == [Queue!Next]_Queue!vars
<1>. USE ThreadAssumption DEF Goto, lifeVars, queueVars, timerVars, execVars, procVars, userVars
<1>0. /\ pc \in [Callers \cup {Loop} -> LoopPlaces \cup CallerPlaces] /\ Loop \notin Callers
      /\ stolenEvents \in Seq(Events) /\ m_eventList \in Seq(Events)
      /\ LocalsInv
  BY DEF TypeOK, PlaceTypeOK, QueueTypeOK, ProcTypeOK, IInv, Actors, ThreadAssumption
<1>1. ASSUME NEW c \in Callers, Run(c) PROVE Goal
  <2>1. UNCHANGED <<stolenEvents, m_eventList, moving, m_timedEventVector, now>>
    BY <1>1 DEF Run
  <2>2. pc[Loop] = "off" /\ pc'[Loop] = "entry"
    BY <1>1, <1>0 DEF Run, IInv, LifeInv
  <2>3. Serving' = Serving
    BY <2>2 DEF Serving
  <2>. QED
    BY <2>1, <2>3, Stutter DEF AbsQueue, AbsTimer
<1>2. ASSUME NEW c \in Callers, Quit(c) PROVE Goal
  <2>1. UNCHANGED <<stolenEvents, m_eventList, moving, m_timedEventVector, now>>
    BY <1>2 DEF Quit, SendQuit
  <2>2. Serving' = Serving
    BY <1>2, <1>0 DEF Quit, SendQuit, Serving
  <2>. QED
    BY <2>1, <2>2, Stutter DEF AbsQueue, AbsTimer
<1>3. ASSUME NEW c \in Callers, Join(c) PROVE Goal
  <2>1. UNCHANGED <<stolenEvents, m_eventList, moving, m_timedEventVector, now>>
    BY <1>3 DEF Join
  <2>2. Serving' = Serving
    BY <1>3, <1>0 DEF Join, Serving
  <2>. QED
    BY <2>1, <2>2, Stutter DEF AbsQueue, AbsTimer
<1>4. ASSUME NEW c \in Callers, Destroy(c) PROVE Goal
  <2>1. UNCHANGED <<stolenEvents, m_eventList, moving, m_timedEventVector, now>>
    BY <1>4 DEF Destroy, SendQuit
  <2>2. Serving' = Serving
    BY <1>4, <1>0 DEF Destroy, SendQuit, Serving
  <2>. QED
    BY <2>1, <2>2, Stutter DEF AbsQueue, AbsTimer
<1>5. ASSUME NEW c \in Callers, Purge(c) PROVE Goal
  <2>1. pc[Loop] = "off" /\ pc'[Loop] = "off"
    BY <1>5, <1>0 DEF Purge, IInv, LifeInv, DestroyInv
  <2>2. Serving = FALSE /\ Serving' = Serving
    BY <2>1 DEF Serving
  <2>3. AbsQueue' = <<>>
    BY <1>5, <1>0, <2>1 DEF Purge, LocalsInv, AbsQueue
  <2>4. UNCHANGED <<AbsTimer, now>>
    BY <1>5 DEF Purge, AbsTimer
  <2>. QED
    BY <2>2, <2>3, <2>4 DEF Queue!Next, Queue!Discard, AbsQueue, AbsTimer
<1>6. ASSUME NEW c \in Callers, CallerPush(c) PROVE Goal
  <2>1. UNCHANGED <<stolenEvents, moving, now>> /\ pc'[Loop] = pc[Loop] /\ c \in Actors
    BY <1>6, <1>0 DEF CallerPush, Actors
  <2>2. Serving' = Serving
    BY <2>1 DEF Serving
  <2>3. PICK e \in fresh :
          \/ PushEvent(c, e) /\ UNCHANGED timerVars
          \/ e \in TimedEvents /\ PushTimedEvent(c, e) /\ UNCHANGED queueVars
    BY <1>6 DEF CallerPush
  <2>4. CASE PushEvent(c, e) /\ UNCHANGED timerVars
    <3>1. e \in Events /\ UNCHANGED AbsTimer
      BY <2>1, <2>4 DEF AbsTimer, TypeOK, UserTypeOK
    <3>. QED
      BY <2>1, <2>2, <2>4, <3>1, AbsPost DEF TypeOK
  <2>5. CASE e \in TimedEvents /\ PushTimedEvent(c, e) /\ UNCHANGED queueVars
    <3>1. m_timedEventMutex # Loop
      BY <2>5 DEF PushTimedEvent, Actors, ThreadAssumption
    <3>2. moving # e
      BY <1>0, <2>5, <3>1 DEF LocalsInv
    <3>3. UNCHANGED AbsQueue
      BY <2>1, <2>5 DEF AbsQueue
    <3>. QED
      BY <2>1, <2>2, <2>5, <3>2, <3>3, AbsArm
  <2>. QED
    BY <2>3, <2>4, <2>5
<1>7. ASSUME NEW c \in Callers, CallerSignal(c) PROVE Goal
  <2>1. UNCHANGED <<stolenEvents, m_eventList, moving, m_timedEventVector, now>>
    BY <1>7 DEF CallerSignal, SignalEvent, SignalTimedEvent
  <2>2. Serving' = Serving
    BY <1>7, <1>0 DEF CallerSignal, SignalEvent, SignalTimedEvent, Serving
  <2>. QED
    BY <2>1, <2>2, Stutter DEF AbsQueue, AbsTimer
<1>8. ASSUME EnterExec PROVE Goal
  <2>1. UNCHANGED <<AbsQueue, AbsTimer, now>>
    BY <1>8 DEF EnterExec, AbsQueue, AbsTimer
  <2>2. Serving = FALSE /\ Serving' = TRUE
    <3>1. pc[Loop] = "entry" /\ pc'[Loop] = "top"
      BY <1>8, <1>0 DEF EnterExec
    <3>. QED
      BY <3>1, Zenon DEF Serving
  <2>. QED
    BY <2>1, <2>2 DEF Queue!Next, Queue!Start, AbsQueue, AbsTimer
<1>9. ASSUME SkipExec PROVE Goal
  <2>1. UNCHANGED <<stolenEvents, m_eventList, moving, m_timedEventVector, now>>
    BY <1>9 DEF SkipExec
  <2>2. Serving' = Serving
    BY <1>9, <1>0 DEF SkipExec, Serving
  <2>. QED
    BY <2>1, <2>2, Stutter DEF AbsQueue, AbsTimer
<1>10. ASSUME LeaveThread PROVE Goal
  <2>1. UNCHANGED <<stolenEvents, m_eventList, moving, m_timedEventVector, now>>
    BY <1>10 DEF LeaveThread
  <2>2. Serving' = Serving
    BY <1>10, <1>0 DEF LeaveThread, Serving
  <2>. QED
    BY <2>1, <2>2, Stutter DEF AbsQueue, AbsTimer
<1>11. ASSUME ComputeWait PROVE Goal
  <2>1. UNCHANGED <<stolenEvents, m_eventList, moving, m_timedEventVector, now>>
    BY <1>11 DEF ComputeWait
  <2>2. Serving' = Serving
    BY <1>11, <1>0 DEF ComputeWait, Serving
  <2>. QED
    BY <2>1, <2>2, Stutter DEF AbsQueue, AbsTimer
<1>12. ASSUME Select PROVE Goal
  <2>1. UNCHANGED <<stolenEvents, m_eventList, moving, m_timedEventVector, now>>
    BY <1>12 DEF Select
  <2>2. Serving' = Serving
    BY <1>12, <1>0 DEF Select, Serving
  <2>. QED
    BY <2>1, <2>2, Stutter DEF AbsQueue, AbsTimer
<1>13. ASSUME Timeout PROVE Goal
  <2>1. UNCHANGED <<stolenEvents, m_eventList, moving, m_timedEventVector, now>>
    BY <1>13 DEF Timeout, BeginTimed
  <2>2. Serving' = Serving
    BY <1>13, <1>0 DEF Timeout, BeginTimed, Serving
  <2>. QED
    BY <2>1, <2>2, Stutter DEF AbsQueue, AbsTimer
<1>14. ASSUME HandleQuit PROVE Goal
  <2>1. UNCHANGED <<AbsQueue, AbsTimer, now>>
    BY <1>14 DEF HandleQuit, AbsQueue, AbsTimer
  <2>2. pc[Loop] \in {"batch", "events", "timedreset"} /\ pc'[Loop] \in {"batch", "exit", "top"}
    BY <1>14, <1>0 DEF HandleQuit, AtIndex
  <2>3. CASE pc'[Loop] = "exit"
    <3>1. Serving = TRUE /\ Serving' = FALSE
      BY <2>2, <2>3, Zenon DEF Serving
    <3>. QED
      BY <2>1, <3>1 DEF Queue!Next, Queue!Stop, AbsQueue, AbsTimer
  <2>4. CASE pc'[Loop] # "exit"
    <3>1. Serving' = Serving
      BY <2>2, <2>4 DEF Serving
    <3>. QED
      BY <2>1, <3>1, Stutter
  <2>. QED
    BY <2>3, <2>4
<1>15. ASSUME StealEvents PROVE Goal
  <2>1. stolenEvents = <<>> /\ stolenEvents' = m_eventList /\ m_eventList' = <<>>
    BY <1>15, <1>0 DEF StealEvents, AtIndex, LocalsInv
  <2>2. AbsQueue' = AbsQueue
    BY <1>0, <2>1 DEF AbsQueue
  <2>3. UNCHANGED <<AbsTimer, now>>
    BY <1>15 DEF StealEvents, AbsTimer
  <2>4. Serving' = Serving
    BY <1>15, <1>0 DEF StealEvents, AtIndex, Serving
  <2>. QED
    BY <2>2, <2>3, <2>4, Stutter
<1>16. ASSUME DispatchEvent PROVE Goal
  <2>1. stolenEvents # <<>> /\ stolenEvents' = Tail(stolenEvents) /\ m_eventList' = m_eventList
    BY <1>16 DEF DispatchEvent
  <2>2. AbsQueue # <<>> /\ AbsQueue' = Tail(AbsQueue)
    BY <1>0, <2>1, TailOfConcat DEF AbsQueue
  <2>3. UNCHANGED <<AbsTimer, now>>
    BY <1>16 DEF DispatchEvent, AbsTimer
  <2>4. Serving = TRUE /\ Serving' = Serving
    <3>1. pc[Loop] = "events" /\ pc'[Loop] = "handler"
      BY <1>16, <1>0 DEF DispatchEvent
    <3>. QED
      BY <3>1, Zenon DEF Serving
  <2>. QED
    BY <2>2, <2>3, <2>4 DEF Queue!Next, Queue!Deliver, AbsQueue, AbsTimer
<1>17. ASSUME HandlerPush PROVE Goal
  <2>1. UNCHANGED <<stolenEvents, moving, now>> /\ Loop \in Actors
    BY <1>17 DEF HandlerPush, Actors
  <2>2. Serving' = Serving /\ moving \notin TimedEvents
    BY <1>17, <1>0 DEF HandlerPush, Serving, LocalsInv
  <2>3. Head(todo) \in Events
    BY <1>17 DEF HandlerPush, TypeOK, ProcTypeOK
  <2>4. CASE PushEvent(Loop, Head(todo)) /\ UNCHANGED timerVars
    <3>1. UNCHANGED AbsTimer
      BY <2>1, <2>4 DEF AbsTimer
    <3>. QED
      BY <2>1, <2>2, <2>3, <2>4, <3>1, AbsPost DEF TypeOK
  <2>5. CASE Head(todo) \in TimedEvents /\ PushTimedEvent(Loop, Head(todo)) /\ UNCHANGED queueVars
    <3>1. UNCHANGED AbsQueue /\ Head(todo) # moving
      BY <2>1, <2>2, <2>5 DEF AbsQueue
    <3>. QED
      BY <2>1, <2>2, <2>5, <3>1, AbsArm
  <2>6. CASE UNCHANGED <<queueVars, timerVars>>
    BY <2>1, <2>2, <2>6, Stutter DEF AbsQueue, AbsTimer
  <2>. QED
    BY <1>17, <2>4, <2>5, <2>6 DEF HandlerPush
<1>18. ASSUME HandlerSignal PROVE Goal
  <2>1. UNCHANGED <<stolenEvents, m_eventList, moving, m_timedEventVector, now>>
    BY <1>18 DEF HandlerSignal, SignalEvent, SignalTimedEvent
  <2>2. Serving' = Serving
    BY <1>18, <1>0 DEF HandlerSignal, SignalEvent, SignalTimedEvent, Serving
  <2>. QED
    BY <2>1, <2>2, Stutter DEF AbsQueue, AbsTimer
<1>19. ASSUME EndHandler PROVE Goal
  <2>1. UNCHANGED <<stolenEvents, m_eventList, moving, m_timedEventVector, now>>
    BY <1>19 DEF EndHandler
  <2>2. Serving' = Serving
    BY <1>19, <1>0 DEF EndHandler, Serving
  <2>. QED
    BY <2>1, <2>2, Stutter DEF AbsQueue, AbsTimer
<1>20. ASSUME EndProcessEvents PROVE Goal
  <2>1. UNCHANGED <<AbsQueue, AbsTimer, now>>
    BY <1>20 DEF EndProcessEvents, AbsQueue, AbsTimer
  <2>2. pc[Loop] \in {"batch", "events", "timedreset"} /\ pc'[Loop] \in {"batch", "exit", "top"}
    BY <1>20, <1>0 DEF EndProcessEvents, AfterIndex
  <2>3. CASE pc'[Loop] = "exit"
    <3>1. Serving = TRUE /\ Serving' = FALSE
      BY <2>2, <2>3, Zenon DEF Serving
    <3>. QED
      BY <2>1, <3>1 DEF Queue!Next, Queue!Stop, AbsQueue, AbsTimer
  <2>4. CASE pc'[Loop] # "exit"
    <3>1. Serving' = Serving
      BY <2>2, <2>4 DEF Serving
    <3>. QED
      BY <2>1, <3>1, Stutter
  <2>. QED
    BY <2>3, <2>4
<1>21. ASSUME HandleTimed PROVE Goal
  <2>1. UNCHANGED <<stolenEvents, m_eventList, moving, m_timedEventVector, now>>
    BY <1>21 DEF HandleTimed, AtIndex, BeginTimed
  <2>2. Serving' = Serving
    BY <1>21, <1>0 DEF HandleTimed, AtIndex, BeginTimed, Serving
  <2>. QED
    BY <2>1, <2>2, Stutter DEF AbsQueue, AbsTimer
<1>22. ASSUME PushDue PROVE Goal
  <2>1. pc[Loop] = "timed" /\ pc'[Loop] = "timedpush" /\ moving \notin TimedEvents
    BY <1>22, <1>0 DEF PushDue, LocalsInv
  <2>2. PICK e \in TimedEvents : FrontOfHeap(e) /\ currentTime >= m_timedEventVector[e]
                                /\ PushEvent(Loop, e) /\ moving' = e
    BY <1>22 DEF PushDue
  <2>3. UNCHANGED <<stolenEvents, m_timedEventVector, now>>
    BY <1>22 DEF PushDue
  <2>4. Serving = TRUE /\ Serving' = TRUE
    BY <2>1, Zenon DEF Serving
  <2>5. AbsQueue' = Append(AbsQueue, e)
    <3>1. e \in Events
      BY DEF ThreadAssumption
    <3>. QED
      BY <1>0, <2>2, <2>3, <3>1, AppendToConcat DEF AbsQueue, PushEvent
  <2>6. \A f \in TimedEvents : AbsTimer[f] = m_timedEventVector[f]
    BY <2>1 DEF AbsTimer
  <2>7. AbsTimer' = [AbsTimer EXCEPT ![e] = Idle]
    BY <2>1, <2>2, <2>3 DEF AbsTimer
  <2>8. e \in Queue!Waiting /\ \A f \in Queue!Waiting : AbsTimer[e] <= AbsTimer[f]
    BY <2>2, <2>6 DEF Queue!Waiting, AbsTimer, FrontOfHeap, Waiting
  <2>9. AbsTimer[e] <= now
    <3>1. m_timedEventVector[e] \in Int /\ currentTime \in Int /\ now \in Int
      BY DEF TypeOK, TimerTypeOK, ProcTypeOK, PlaceTypeOK, Idle, ThreadAssumption
    <3>. QED
      BY <1>0, <2>2, <2>6, <3>1 DEF LocalsInv
  <2>10. Queue!Fire(e)
    BY <2>3, <2>4, <2>5, <2>7, <2>8, <2>9 DEF Queue!Fire, AbsQueue, AbsTimer
  <2>. QED
    BY <2>10 DEF Queue!Next
<1>23. ASSUME PopDue PROVE Goal
  <2>1. pc[Loop] = "timedpush" /\ pc'[Loop] = "timed" /\ moving \in TimedEvents
    BY <1>23, <1>0 DEF PopDue, LocalsInv
  <2>2. m_timedEventVector' = [m_timedEventVector EXCEPT ![moving] = Idle] /\ moving' = NoOne
    BY <1>23 DEF PopDue
  <2>3. UNCHANGED <<AbsQueue, now>>
    BY <1>23 DEF PopDue, SignalEvent, AbsQueue
  <2>4. AbsTimer' = AbsTimer
    BY <2>1, <2>2 DEF AbsTimer, TypeOK, TimerTypeOK, ThreadAssumption
  <2>5. Serving' = Serving
    BY <2>1 DEF Serving
  <2>. QED
    BY <2>3, <2>4, <2>5, Stutter
<1>24. ASSUME EndTimed PROVE Goal
  <2>1. UNCHANGED <<stolenEvents, m_eventList, moving, m_timedEventVector, now>>
    BY <1>24 DEF EndTimed
  <2>2. Serving' = Serving
    BY <1>24, <1>0 DEF EndTimed, Serving
  <2>. QED
    BY <2>1, <2>2, Stutter DEF AbsQueue, AbsTimer
<1>25. ASSUME ResetTimed PROVE Goal
  <2>1. UNCHANGED <<AbsQueue, AbsTimer, now>>
    BY <1>25 DEF ResetTimed, AbsQueue, AbsTimer
  <2>2. pc[Loop] \in {"batch", "events", "timedreset"} /\ pc'[Loop] \in {"batch", "exit", "top"}
    BY <1>25, <1>0 DEF ResetTimed, AfterIndex
  <2>3. CASE pc'[Loop] = "exit"
    <3>1. Serving = TRUE /\ Serving' = FALSE
      BY <2>2, <2>3, Zenon DEF Serving
    <3>. QED
      BY <2>1, <3>1 DEF Queue!Next, Queue!Stop, AbsQueue, AbsTimer
  <2>4. CASE pc'[Loop] # "exit"
    <3>1. Serving' = Serving
      BY <2>2, <2>4 DEF Serving
    <3>. QED
      BY <2>1, <3>1, Stutter
  <2>. QED
    BY <2>3, <2>4
<1>26. ASSUME Tick PROVE Goal
  <2>1. UNCHANGED <<AbsQueue, AbsTimer>> /\ Serving' = Serving /\ now' = now + 1
    BY <1>26 DEF Tick, AbsQueue, AbsTimer, Serving
  <2>. QED
    BY <2>1 DEF Queue!Next, Queue!Advance, AbsQueue, AbsTimer
<1>27. ASSUME UNCHANGED vars PROVE Goal
  <2>1. UNCHANGED <<AbsQueue, AbsTimer, now>> /\ Serving' = Serving
    BY <1>27 DEF vars, AbsQueue, AbsTimer, Serving
  <2>. QED
    BY <2>1, Stutter
<1>. QED
  BY <1>1, <1>2, <1>3, <1>4, <1>5, <1>6, <1>7, <1>8, <1>9, <1>10, <1>11, <1>12, <1>13,
     <1>14, <1>15, <1>16, <1>17, <1>18, <1>19, <1>20, <1>21, <1>22, <1>23, <1>24, <1>25,
     <1>26, <1>27
     DEF Next, LoopStep, CallerStep, Done

\* The mutexes, pipes, timeouts and stolen lists of a Thread implement one FIFO
\* queue of events, served while Exec runs: nothing is lost, doubled or
\* overtaken, a timed event is never early, and an earlier one comes first.
THEOREM ThreadImplementsQueue == Spec => ImplementsQueue
<1>1. Init => Queue!Init
  BY AbsInit
<1>2. TypeOK /\ TypeOK' /\ IInv /\ [Next]_vars => [Queue!Next]_Queue!vars
  BY AbsStep
<1>. QED
  BY <1>1, <1>2, ThreadInvariant, PTL DEF Spec, ImplementsQueue, Queue!Spec
==============================================================================
