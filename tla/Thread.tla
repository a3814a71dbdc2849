-------------------------------- MODULE Thread --------------------------------
(***************************************************************************)
(* DPL::Thread: the life of the pthread behind a Thread object (Run, Quit, *)
(* StaticThreadEntry, the destructor), its event queue (PushEvent,         *)
(* ProcessEvents), its timed events (PushTimedEvent, ProcessTimedEvents)   *)
(* and the loop of Exec that serves both from select.                      *)
(*                                                                         *)
(* A step is what runs between two points where another thread can matter: *)
(* taking a mutex, a write to a pipe that may be full, the return of       *)
(* select.  A WaitableEvent is the number of bytes in its pipe.  Indices 3 *)
(* and above of Exec's handle list are those of WaitableHandleWatchSupport *)
(* and are left to the module WatchSupport.                                *)
(***************************************************************************)
EXTENDS Integers, Sequences, SequencesExt, FiniteSetsExt

CONSTANTS
  Callers,      \* the other threads of the program, clients of this object
  Quitters,     \* those of them that call Quit
  Loop,         \* the thread that Run creates
  NoOne,        \* the owner of a free mutex
  Events,       \* the events clients post
  TimedEvents,  \* those that are posted with PushTimedEvent
  Delay,        \* Delay[e]: the due time a timed event is posted with
  Posts,        \* Posts[e]: what the handler of e posts to its own thread
  OwnEntry,     \* ThreadEntry is overloaded and may return without Exec
  PipeCapacity, \* how many bytes a pipe holds: 65536 on Linux
  MaxRuns,      \* bound: how many times Run creates a thread
  MaxTime       \* bound: the last value of the clock

Actors == Callers \cup {Loop}
Immediate == Events \ TimedEvents

ASSUME ThreadAssumption ==
  /\ Quitters \subseteq Callers
  /\ Loop \notin Callers
  /\ NoOne \notin Actors \cup Events
  /\ TimedEvents \subseteq Events
  /\ Delay \in [TimedEvents -> Nat]
  /\ Posts \in [Events -> Seq(Events)]
  /\ OwnEntry \in BOOLEAN
  /\ PipeCapacity \in Nat \ {0}
  /\ MaxRuns \in Nat
  /\ MaxTime \in Nat

VARIABLES
  \* the state of the object
  m_running, m_abandon,
  m_quitEvent,            \* bytes in the quit pipe
  m_eventMutex,           \* the owner of the mutex, or NoOne
  m_eventList,
  m_eventInvoker,         \* bytes in the event pipe
  m_timedEventMutex,
  m_timedEventVector,     \* the absolute due time of each timed event, or Idle
  m_timedEventInvoker,    \* bytes in the timed event pipe
  \* the operating system
  runs,                   \* how many pthreads Run has created
  pthread,                \* pthread[k]: the state of the k-th of them
  now,                    \* gettimeofday
  \* control: where each thread is, and its locals
  pc,
  joinableThread,         \* what Quit joins
  quit,                   \* locals of Exec
  waitableHandleIndexList,
  wakeTime,               \* when the current select times out
  stolenEvents,           \* local of ProcessEvents
  todo,                   \* what the running handler has still to post
  currentTime, moving,    \* locals of ProcessTimedEvents
  \* the clients
  fresh,                  \* the events no caller has posted yet
  phase,                  \* the Thread object: alive, being destroyed, gone
  promised                \* ghost: events queued when the quit message was sent

lifeVars  == <<m_running, m_abandon, m_quitEvent, runs, pthread, joinableThread>>
queueVars == <<m_eventMutex, m_eventList, m_eventInvoker>>
timerVars == <<m_timedEventMutex, m_timedEventVector, m_timedEventInvoker>>
execVars  == <<quit, waitableHandleIndexList, wakeTime>>
procVars  == <<stolenEvents, todo, currentTime, moving>>
userVars  == <<fresh, phase>>
vars == <<lifeVars, queueVars, timerVars, execVars, procVars, userVars, now, pc, promised>>

Idle == -1                \* the due time of an event that is not in the vector
Never == MaxTime + 1      \* minimumWaitTime = 0xFFFFFFFF: select has no timeout
QuitIndex == 0
EventIndex == 1
TimedIndex == 2

Waiting == {e \in TimedEvents : m_timedEventVector[e] # Idle}

Goto(a, where) == pc' = [pc EXCEPT ![a] = where]

\* After an index of the batch: the next one, or around the loop, or out of it.
AfterIndex(rest) ==
  IF rest # {} THEN "batch" ELSE IF quit THEN "exit" ELSE "top"
-------------------------------------------------------------------------------
Init ==
  /\ m_running = FALSE
  /\ m_abandon = FALSE
  /\ m_quitEvent = 0
  /\ m_eventMutex = NoOne
  /\ m_eventList = <<>>
  /\ m_eventInvoker = 0
  /\ m_timedEventMutex = NoOne
  /\ m_timedEventVector = [e \in TimedEvents |-> Idle]
  /\ m_timedEventInvoker = 0
  /\ runs = 0
  /\ pthread = [k \in 1..MaxRuns |-> "none"]
  /\ now = 0
  /\ pc = [a \in Actors |-> IF a = Loop THEN "off" ELSE "idle"]
  /\ joinableThread = [c \in Callers |-> 0]
  /\ quit = FALSE
  /\ waitableHandleIndexList = {}
  /\ wakeTime = Never
  /\ stolenEvents = <<>>
  /\ todo = <<>>
  /\ currentTime = 0
  /\ moving = NoOne
  /\ fresh = Events
  /\ phase = "alive"
  /\ promised = {}
-------------------------------------------------------------------------------
\* The life of the thread.

\* Run: the critical section on m_stateMutex is one step.
Run(c) ==
  /\ phase = "alive"
  /\ pc[c] = "idle"
  /\ ~m_running
  /\ runs < MaxRuns
  /\ runs' = runs + 1
  /\ pthread' = [pthread EXCEPT ![runs + 1] = "running"]
  /\ m_abandon' = TRUE
  /\ m_running' = TRUE
  /\ Goto(Loop, "entry")
  /\ UNCHANGED <<m_quitEvent, joinableThread, queueVars, timerVars, execVars, procVars,
                 userVars, now, promised>>

\* The events whose PushEvent has returned and that are not delivered yet.
Queued ==
  ToSet(stolenEvents) \cup
  ToSet(IF m_eventMutex = NoOne THEN m_eventList ELSE Front(m_eventList))

\* The critical section of Quit; "join" is where the caller waits in
\* pthread_join, "djoin" the same wait inside the destructor.
SendQuit(c, wait) ==
  /\ m_running
  /\ m_abandon' = FALSE
  /\ m_quitEvent' = m_quitEvent + 1
  /\ joinableThread' = [joinableThread EXCEPT ![c] = runs]
  /\ Goto(c, wait)
  /\ promised' = IF m_quitEvent = 0 /\ pc[Loop] # "exit" THEN Queued ELSE promised
  /\ UNCHANGED <<m_running, runs, pthread, queueVars, timerVars, execVars, procVars, now>>

Quit(c) ==
  /\ phase = "alive"
  /\ c \in Quitters
  /\ pc[c] = "idle"
  /\ SendQuit(c, "join")
  /\ UNCHANGED userVars

\* pthread_join returns once the thread has ended.  Joining a thread that has
\* been joined before is undefined; here that caller waits for ever.
Join(c) ==
  /\ pc[c] \in {"join", "djoin"}
  /\ pthread[joinableThread[c]] = "joinable"
  /\ pthread' = [pthread EXCEPT ![joinableThread[c]] = "joined"]
  /\ Goto(c, IF pc[c] = "join" THEN "idle" ELSE "purge")
  /\ UNCHANGED <<m_running, m_abandon, m_quitEvent, runs, joinableThread, queueVars, timerVars,
                 execVars, procVars, userVars, now, promised>>

\* ~Thread, which its owner runs when no other thread uses the object: Quit...
Destroy(c) ==
  /\ phase = "alive"
  /\ \A d \in Callers : pc[d] = "idle"
  /\ phase' = "dying"
  /\ fresh' = {}
  /\ \/ SendQuit(c, "djoin")
     \/ /\ ~m_running
        /\ Goto(c, "purge")
        /\ UNCHANGED <<lifeVars, queueVars, timerVars, execVars, procVars, now, promised>>

\* ...then the deletion of the events that remain in m_eventList.
Purge(c) ==
  /\ pc[c] = "purge"
  /\ m_eventList' = <<>>
  /\ phase' = "gone"
  /\ Goto(c, "idle")
  /\ UNCHANGED <<m_eventMutex, m_eventInvoker, lifeVars, timerVars, execVars, procVars, fresh,
                 now, promised>>

\* StaticThreadEntry enters ThreadEntry, whose default is Exec.
EnterExec ==
  /\ pc[Loop] = "entry"
  /\ quit' = FALSE
  /\ waitableHandleIndexList' = {}
  /\ Goto(Loop, "top")
  /\ UNCHANGED <<wakeTime, lifeVars, queueVars, timerVars, procVars, userVars, now, promised>>

\* An overloaded ThreadEntry that returns by itself: the loop serves nothing.
SkipExec ==
  /\ OwnEntry
  /\ pc[Loop] = "entry"
  /\ promised' = {}
  /\ Goto(Loop, "exit")
  /\ UNCHANGED <<lifeVars, queueVars, timerVars, execVars, procVars, userVars, now>>

\* Mutant: the thread detaches itself although somebody waits to join it.
LeaveThreadDetached ==
  /\ pc[Loop] = "exit"
  /\ m_running' = FALSE
  /\ pthread' = [pthread EXCEPT ![runs] = "detached"]
  /\ Goto(Loop, "off")
  /\ UNCHANGED <<m_abandon, m_quitEvent, runs, joinableThread, queueVars, timerVars, execVars,
                 procVars, userVars, now, promised>>

\* The end of StaticThreadEntry, under m_stateMutex: detach unless somebody joins.
LeaveThread ==
  /\ pc[Loop] = "exit"
  /\ m_running' = FALSE
  /\ pthread' = [pthread EXCEPT ![runs] = IF m_abandon THEN "detached" ELSE "joinable"]
  /\ Goto(Loop, "off")
  /\ UNCHANGED <<m_abandon, m_quitEvent, runs, joinableThread, queueVars, timerVars, execVars,
                 procVars, userVars, now, promised>>
-------------------------------------------------------------------------------
\* Posting, by a caller or by the loop itself (from a handler or from
\* ProcessTimedEvents).  "push" and "pushtimed" hold the mutex and have still
\* to write the byte that wakes the loop: the write blocks on a full pipe.

PushEvent(a, e) ==
  /\ m_eventMutex = NoOne
  /\ m_eventMutex' = a
  /\ m_eventList' = Append(m_eventList, e)
  /\ UNCHANGED m_eventInvoker

\* Mutant: the loop is not woken.
SignalEventForgotten(a) ==
  /\ m_eventMutex = a
  /\ m_eventMutex' = NoOne
  /\ UNCHANGED <<m_eventList, m_eventInvoker>>

SignalEvent(a) ==
  /\ m_eventMutex = a
  /\ m_eventInvoker < PipeCapacity
  /\ m_eventInvoker' = m_eventInvoker + 1
  /\ m_eventMutex' = NoOne
  /\ UNCHANGED m_eventList

PushTimedEvent(a, e) ==
  /\ m_timedEventMutex = NoOne
  /\ m_timedEventVector[e] = Idle
  /\ now + Delay[e] <= MaxTime
  /\ m_timedEventMutex' = a
  /\ m_timedEventVector' = [m_timedEventVector EXCEPT ![e] = now + Delay[e]]
  /\ UNCHANGED m_timedEventInvoker

SignalTimedEvent(a) ==
  /\ m_timedEventMutex = a
  /\ m_timedEventInvoker < PipeCapacity
  /\ m_timedEventInvoker' = m_timedEventInvoker + 1
  /\ m_timedEventMutex' = NoOne
  /\ UNCHANGED m_timedEventVector

CallerPush(c) ==
  /\ phase = "alive"
  /\ pc[c] = "idle"
  /\ \E e \in fresh :
       /\ fresh' = fresh \ {e}
       /\ \/ e \in Immediate /\ PushEvent(c, e) /\ Goto(c, "push") /\ UNCHANGED timerVars
          \/ e \in TimedEvents /\ PushTimedEvent(c, e) /\ Goto(c, "pushtimed")
             /\ UNCHANGED queueVars
  /\ UNCHANGED <<phase, lifeVars, execVars, procVars, now, promised>>

CallerSignal(c) ==
  /\ \/ pc[c] = "push" /\ SignalEvent(c) /\ UNCHANGED timerVars
     \/ pc[c] = "pushtimed" /\ SignalTimedEvent(c) /\ UNCHANGED queueVars
  /\ Goto(c, "idle")
  /\ UNCHANGED <<lifeVars, execVars, procVars, userVars, now, promised>>
-------------------------------------------------------------------------------
\* Exec.

\* The top of the loop: how long select may sleep.
ComputeWait ==
  /\ pc[Loop] = "top"
  /\ m_timedEventMutex = NoOne
  /\ wakeTime' = Min({m_timedEventVector[e] : e \in Waiting} \cup {Never})
  /\ Goto(Loop, "select")
  /\ UNCHANGED <<quit, waitableHandleIndexList, lifeVars, queueVars, timerVars, procVars,
                 userVars, now, promised>>

ReadyIndices ==
  (IF m_quitEvent > 0 THEN {QuitIndex} ELSE {}) \cup
  (IF m_eventInvoker > 0 THEN {EventIndex} ELSE {}) \cup
  (IF m_timedEventInvoker > 0 THEN {TimedIndex} ELSE {})

\* select returns the handles that are ready...
Select ==
  /\ pc[Loop] = "select"
  /\ ReadyIndices # {}
  /\ waitableHandleIndexList' = ReadyIndices
  /\ Goto(Loop, "batch")
  /\ UNCHANGED <<quit, wakeTime, lifeVars, queueVars, timerVars, procVars, userVars, now,
                 promised>>

BeginTimed ==
  /\ m_timedEventMutex = NoOne
  /\ m_timedEventMutex' = Loop
  /\ currentTime' = now
  /\ Goto(Loop, "timed")
  /\ UNCHANGED <<m_timedEventVector, m_timedEventInvoker, stolenEvents, todo, moving>>

\* ...or none, when the timeout has passed: ProcessTimedEvents at once.
Timeout ==
  /\ pc[Loop] = "select"
  /\ ReadyIndices = {}
  /\ now >= wakeTime
  /\ waitableHandleIndexList' = {}
  /\ BeginTimed
  /\ UNCHANGED <<quit, wakeTime, lifeVars, queueVars, userVars, now, promised>>

\* The indices are handled in the order of the handle list.
AtIndex(i) ==
  /\ pc[Loop] = "batch"
  /\ i \in waitableHandleIndexList
  /\ i = Min(waitableHandleIndexList)

\* Mutant: the quit index leaves Exec at once.
HandleQuitAtOnce ==
  /\ AtIndex(QuitIndex)
  /\ quit' = TRUE
  /\ waitableHandleIndexList' = {}
  /\ Goto(Loop, "exit")
  /\ UNCHANGED <<wakeTime, lifeVars, queueVars, timerVars, procVars, userVars, now, promised>>

HandleQuit ==
  /\ AtIndex(QuitIndex)
  /\ quit' = TRUE
  /\ waitableHandleIndexList' = waitableHandleIndexList \ {QuitIndex}
  /\ Goto(Loop, IF waitableHandleIndexList' # {} THEN "batch" ELSE "exit")
  /\ UNCHANGED <<wakeTime, lifeVars, queueVars, timerVars, procVars, userVars, now, promised>>

\* Mutant: one event is taken but the pipe is drained.
StealOneEvent ==
  /\ AtIndex(EventIndex)
  /\ m_eventMutex = NoOne
  /\ m_eventInvoker > 0
  /\ stolenEvents' = SubSeq(m_eventList, 1, 1)
  /\ m_eventList' = SubSeq(m_eventList, 2, Len(m_eventList))
  /\ m_eventInvoker' = 0
  /\ Goto(Loop, "events")
  /\ UNCHANGED <<m_eventMutex, todo, currentTime, moving, lifeVars, timerVars, execVars,
                 userVars, now, promised>>

\* ProcessEvents: the whole list is stolen and one byte is read.
StealEvents ==
  /\ AtIndex(EventIndex)
  /\ m_eventMutex = NoOne
  /\ m_eventInvoker > 0
  /\ stolenEvents' = m_eventList
  /\ m_eventList' = <<>>
  /\ m_eventInvoker' = m_eventInvoker - 1
  /\ Goto(Loop, "events")
  /\ UNCHANGED <<m_eventMutex, todo, currentTime, moving, lifeVars, timerVars, execVars,
                 userVars, now, promised>>

DispatchEvent ==
  /\ pc[Loop] = "events"
  /\ stolenEvents # <<>>
  /\ stolenEvents' = Tail(stolenEvents)
  /\ todo' = Posts[Head(stolenEvents)]
  /\ promised' = promised \ {Head(stolenEvents)}
  /\ Goto(Loop, "handler")
  /\ UNCHANGED <<currentTime, moving, lifeVars, queueVars, timerVars, execVars, userVars, now>>

\* The handler posts to its own thread; a timer that is already armed, or that
\* lies behind the bound on the clock, is not armed again.
HandlerPush ==
  /\ pc[Loop] = "handler"
  /\ todo # <<>>
  /\ LET e == Head(todo) IN
     \/ /\ e \in Immediate
        /\ PushEvent(Loop, e)
        /\ todo' = Tail(todo)
        /\ Goto(Loop, "handlerpush")
        /\ UNCHANGED timerVars
     \/ /\ e \in TimedEvents
        /\ PushTimedEvent(Loop, e)
        /\ todo' = Tail(todo)
        /\ Goto(Loop, "handlerpush")
        /\ UNCHANGED queueVars
     \/ /\ e \in TimedEvents
        /\ m_timedEventVector[e] # Idle \/ now + Delay[e] > MaxTime
        /\ todo' = Tail(todo)
        /\ UNCHANGED <<pc, queueVars, timerVars>>
  /\ UNCHANGED <<stolenEvents, currentTime, moving, lifeVars, execVars, userVars, now, promised>>

HandlerSignal ==
  /\ pc[Loop] = "handlerpush"
  /\ \/ SignalEvent(Loop) /\ UNCHANGED timerVars
     \/ SignalTimedEvent(Loop) /\ UNCHANGED queueVars
  /\ Goto(Loop, "handler")
  /\ UNCHANGED <<lifeVars, execVars, procVars, userVars, now, promised>>

\* The handler returns and the event is deleted.
EndHandler ==
  /\ pc[Loop] = "handler"
  /\ todo = <<>>
  /\ Goto(Loop, "events")
  /\ UNCHANGED <<lifeVars, queueVars, timerVars, execVars, procVars, userVars, now, promised>>

EndProcessEvents ==
  /\ pc[Loop] = "events"
  /\ stolenEvents = <<>>
  /\ waitableHandleIndexList' = waitableHandleIndexList \ {EventIndex}
  /\ Goto(Loop, AfterIndex(waitableHandleIndexList'))
  /\ UNCHANGED <<quit, wakeTime, lifeVars, queueVars, timerVars, procVars, userVars, now,
                 promised>>

HandleTimed ==
  /\ AtIndex(TimedIndex)
  /\ BeginTimed
  /\ UNCHANGED <<lifeVars, queueVars, execVars, userVars, now, promised>>

\* Mutant: operator< of InternalTimedEvent the other way round.
LatestOfHeap(e) ==
  /\ e \in Waiting
  /\ \A f \in Waiting : m_timedEventVector[e] >= m_timedEventVector[f]

\* ProcessTimedEvents, under m_timedEventMutex: the front of the heap is one of
\* the events with the earliest due time.
FrontOfHeap(e) ==
  /\ e \in Waiting
  /\ \A f \in Waiting : m_timedEventVector[e] <= m_timedEventVector[f]

PushDue ==
  /\ pc[Loop] = "timed"
  /\ \E e \in TimedEvents :
       /\ FrontOfHeap(e)
       /\ currentTime >= m_timedEventVector[e]
       /\ PushEvent(Loop, e)
       /\ moving' = e
  /\ Goto(Loop, "timedpush")
  /\ UNCHANGED <<stolenEvents, todo, currentTime, lifeVars, timerVars, execVars, userVars, now,
                 promised>>

PopDue ==
  /\ pc[Loop] = "timedpush"
  /\ SignalEvent(Loop)
  /\ m_timedEventVector' = [m_timedEventVector EXCEPT ![moving] = Idle]
  /\ moving' = NoOne
  /\ Goto(Loop, "timed")
  /\ UNCHANGED <<m_timedEventMutex, m_timedEventInvoker, stolenEvents, todo, currentTime, lifeVars,
                 execVars, userVars, now, promised>>

\* Leaving ProcessTimedEvents: from the timeout, or from index 2, whose case
\* then reads its byte.
EndTimed ==
  /\ pc[Loop] = "timed"
  /\ \A e \in Waiting : m_timedEventVector[e] > currentTime
  /\ m_timedEventMutex' = NoOne
  /\ Goto(Loop, IF TimedIndex \in waitableHandleIndexList THEN "timedreset" ELSE "top")
  /\ UNCHANGED <<m_timedEventVector, m_timedEventInvoker, lifeVars, queueVars, execVars, procVars,
                 userVars, now, promised>>

ResetTimed ==
  /\ pc[Loop] = "timedreset"
  /\ m_timedEventInvoker > 0
  /\ m_timedEventInvoker' = m_timedEventInvoker - 1
  /\ waitableHandleIndexList' = waitableHandleIndexList \ {TimedIndex}
  /\ Goto(Loop, AfterIndex(waitableHandleIndexList'))
  /\ UNCHANGED <<m_timedEventMutex, m_timedEventVector, quit, wakeTime, lifeVars, queueVars,
                 procVars, userVars, now, promised>>

Tick ==
  /\ now < MaxTime
  /\ now' = now + 1
  /\ UNCHANGED <<lifeVars, queueVars, timerVars, execVars, procVars, userVars, pc, promised>>
-------------------------------------------------------------------------------
LoopStep ==
  \/ EnterExec \/ SkipExec \/ LeaveThread
  \/ ComputeWait \/ Select \/ Timeout
  \/ HandleQuit
  \/ StealEvents \/ DispatchEvent \/ HandlerPush \/ HandlerSignal \/ EndHandler
  \/ EndProcessEvents
  \/ HandleTimed \/ PushDue \/ PopDue \/ EndTimed \/ ResetTimed

CallerStep(c) ==
  Run(c) \/ Quit(c) \/ Join(c) \/ Destroy(c) \/ Purge(c) \/ CallerPush(c) \/ CallerSignal(c)

\* The object is gone: nothing is left to happen.
Done == phase = "gone" /\ UNCHANGED vars

Next ==
  \/ LoopStep
  \/ \E c \in Callers : CallerStep(c)
  \/ Tick
  \/ Done

Spec == Init /\ [][Next]_vars

\* The scheduler runs every thread that can run, a call once begun goes on, and
\* time passes; no client has to begin anything.
Fairness ==
  /\ WF_vars(LoopStep)
  /\ WF_vars(Tick)
  /\ \A c \in Callers : WF_vars(Join(c) \/ Purge(c) \/ CallerSignal(c))

FairSpec == Spec /\ Fairness
-------------------------------------------------------------------------------
\* Properties.

Serving == pc[Loop] \notin {"off", "entry", "exit"}
Joining(c) == pc[c] \in {"join", "djoin"}

LoopPlaces ==
  {"off", "entry", "top", "select", "batch", "events", "handler", "handlerpush", "timed",
   "timedpush", "timedreset", "exit"}
CallerPlaces == {"idle", "push", "pushtimed", "join", "djoin", "purge"}

LifeTypeOK ==
  /\ m_running \in BOOLEAN
  /\ m_abandon \in BOOLEAN
  /\ m_quitEvent \in Nat
  /\ runs \in 0..MaxRuns
  /\ pthread \in [1..MaxRuns -> {"none", "running", "detached", "joinable", "joined"}]
  /\ joinableThread \in [Callers -> 0..MaxRuns]

QueueTypeOK ==
  /\ m_eventMutex \in Actors \cup {NoOne}
  /\ m_eventList \in Seq(Events)
  /\ m_eventInvoker \in 0..PipeCapacity

TimerTypeOK ==
  /\ m_timedEventMutex \in Actors \cup {NoOne}
  /\ m_timedEventVector \in [TimedEvents -> 0..MaxTime \cup {Idle}]
  /\ m_timedEventInvoker \in 0..PipeCapacity

ExecTypeOK ==
  /\ quit \in BOOLEAN
  /\ waitableHandleIndexList \subseteq {QuitIndex, EventIndex, TimedIndex}
  /\ wakeTime \in 0..Never

ProcTypeOK ==
  /\ stolenEvents \in Seq(Events)
  /\ todo \in Seq(Events)
  /\ currentTime \in 0..MaxTime
  /\ moving \in TimedEvents \cup {NoOne}

UserTypeOK ==
  /\ fresh \subseteq Events
  /\ phase \in {"alive", "dying", "gone"}
  /\ promised \subseteq Events

PlaceTypeOK ==
  /\ now \in 0..MaxTime
  /\ pc \in [Actors -> LoopPlaces \cup CallerPlaces]
  /\ pc[Loop] \in LoopPlaces
  /\ \A c \in Callers : pc[c] \in CallerPlaces

\* The types of the variables: in particular a pipe never holds more than it can.
TypeOK ==
  /\ LifeTypeOK
  /\ QueueTypeOK
  /\ TimerTypeOK
  /\ ExecTypeOK
  /\ ProcTypeOK
  /\ UserTypeOK
  /\ PlaceTypeOK

\* An event in m_eventList is never stranded: whenever the list is not being
\* changed and is not empty, a byte in the pipe will make select return
\* (PushEvent and ProcessEvents change list and pipe under one mutex).
NoLostWakeup ==
  m_eventMutex = NoOne /\ m_eventList # <<>> => m_eventInvoker > 0

\* A timed event posted between the computation of the timeout and select is
\* never slept through: select times out by the earliest due time, or the
\* timed pipe holds the byte of the PushTimedEvent that it did not see.
NoLostTimer ==
  pc[Loop] = "select" /\ m_timedEventMutex = NoOne /\ m_timedEventInvoker = 0 =>
    \A e \in Waiting : wakeTime <= m_timedEventVector[e]

\* WaitableEvent::Reset finds a byte: on an empty pipe it throws ResetFailed,
\* which would leave Exec through the handler of unhandled exceptions.
ResetNeverFails ==
  /\ AtIndex(EventIndex) => m_eventInvoker > 0
  /\ pc[Loop] = "timedreset" => m_timedEventInvoker > 0

\* The pipes tell the loop exactly what it has to know: no wake-up and no due
\* time is lost, and no byte is read that is not there.
SignalsKept == TypeOK /\ NoLostWakeup /\ NoLostTimer /\ ResetNeverFails

\* m_abandon tells the ending thread the truth: a thread that somebody waits for
\* is never detached, and one that is left joinable has a caller to reap it.
JoinXorDetach ==
  /\ \A c \in Callers : Joining(c) => pthread[joinableThread[c]] \notin {"none", "detached"}
  /\ \A k \in 1..runs : pthread[k] = "joinable" =>
       \E c \in Callers : Joining(c) /\ joinableThread[c] = k

\* What had been posted when the quit message was sent is delivered before the
\* loop ends: the quit index does not cut the batch short.
FlushOnQuit == pc[Loop] = "exit" => promised = {}

\* A thread that quits delivers what it was asked to and is reaped or detached.
QuitIsClean == FlushOnQuit /\ JoinXorDetach

\* thread.h: "Run thread."  The event loop of a run ends because Quit was called
\* during that run.
EndsOnlyByQuit == pc[Loop] = "exit" => ~m_abandon

InQueue(e) == e \in ToSet(m_eventList) \cup ToSet(stolenEvents)

\* A writer sleeps in PushEvent with the mutex that ProcessEvents needs, or the
\* loop writes into its own full pipe: a pipe is full for ever.
Jammed ==
  <>[](Serving /\ (m_eventInvoker = PipeCapacity \/ m_timedEventInvoker = PipeCapacity))

JoinedBefore(c) == \E k \in 1..runs : k = joinableThread[c] /\ pthread[k] = "joined"

\* Quit returns: nothing but a jammed pipe keeps the loop from the quit message,
\* and the thread that ends can be joined, unless another caller that was in Quit
\* at the same time has joined it before: this one then waits for ever.
QuitReturns ==
  \/ \A c \in Callers : pc[c] = "join" ~> pc[c] = "idle" \/ JoinedBefore(c)
  \/ Jammed

\* A queued event is delivered unless the loop ends first, and nothing but a
\* jammed pipe can keep a serving loop from it.
Delivered == (\A e \in Events : InQueue(e) ~> ~InQueue(e) \/ ~Serving) \/ Jammed

\* A timed event fires unless the loop ends first, is jammed, or finds immediate
\* events for ever: select then never times out, and only its timeout (or another
\* PushTimedEvent) makes the loop look at the timed events.
TimerFires ==
  \/ \A e \in TimedEvents : m_timedEventVector[e] # Idle ~>
       m_timedEventVector[e] = Idle \/ ~Serving
  \/ []<>(EventIndex \in waitableHandleIndexList)
  \/ Jammed

EventsDelivered == Delivered /\ TimerFires

\* The queue the clients see: a timed event that is being moved is in it already.
Queue == INSTANCE EventQueue WITH
  queue <- stolenEvents \o m_eventList,
  timer <- [e \in TimedEvents |-> IF e = moving THEN Idle ELSE m_timedEventVector[e]],
  clock <- now,
  serving <- Serving

\* The locks, pipes and stolen lists implement one FIFO queue per thread.
ImplementsQueue == Queue!Spec
===============================================================================
