------------------------------- MODULE MainLoop -------------------------------
(***************************************************************************)
(* The main thread on ecore: MainEventDispatcher, which brings the events  *)
(* that other threads post through a list and a pipe into ecore's queue    *)
(* and timers, and Main, which keeps an ecore handler for every watch of   *)
(* its WaitableHandleWatchSupport.                                         *)
(*                                                                         *)
(* Ecore is external.  It calls one callback after the other: the handler  *)
(* of a ready descriptor, of a timer that is due, of the oldest event of   *)
(* its queue; the order between these kinds is left open.  Application     *)
(* code (before the loop, in event handlers and in watch listeners) posts  *)
(* events and changes watches.                                             *)
(***************************************************************************)
EXTENDS Integers, Sequences, SequencesExt, FiniteSets, Lists

CONSTANTS
  Main,          \* g_threadMain
  Threads,       \* the others that post events
  Watchers,      \* those of them that change the watches of the main loop
  NoOne,         \* the owner of a free mutex; no event
  Events, TimedEvents,
  Sender,        \* Sender[e]: the thread that posts e
  Delay,         \* Delay[e]: the dueTime of a timed event
  Handles, Modes,
  PipeCapacity,  \* how many bytes a pipe holds: 65536 on Linux
  MayFail,       \* ecore_event_add and ecore_timer_add may return NULL
  MaxTime,       \* bound: until when time passes though no timer is waiting
  MaxChanges     \* bound: how often the watches are changed

Senders == Threads \cup {Main}
Immediate == Events \ TimedEvents
Watches == Handles \X Modes

ASSUME MainLoopAssumption ==
  /\ Main \notin Threads
  /\ Watchers \subseteq Threads
  /\ NoOne \notin Senders \cup Events
  /\ TimedEvents \subseteq Events
  /\ Sender \in [Events -> Senders]
  /\ Delay \in [TimedEvents -> Nat]
  /\ Modes \subseteq {"Read", "Write"}
  /\ PipeCapacity \in Nat \ {0}
  /\ MayFail \in BOOLEAN
  /\ MaxTime \in Nat
  /\ MaxChanges \in Nat

VARIABLES
  \* MainEventDispatcher
  m_wrappedCrossEventCallList,
  m_crossEventCallMutex,     \* its owner, or NoOne
  m_crossEventCallInvoker,   \* bytes in the pipe
  stolenCrossEvents,         \* local of DispatchCrossInvoker
  lateDispatcher,            \* g_lateMainEventDispatcher is NULL again
  \* Main and WaitableHandleWatchSupport
  m_watchersMap,             \* the watches that have a listener
  m_watchersMutex,
  m_watchersInvoker,         \* bytes in the pipe
  m_watchersInvokerCommit,   \* bytes in the pipe
  m_watchersLists,           \* m_readWatchersList and m_writeWatchersList
  changes,
  \* ecore
  ecoreEvents,               \* its queue of events, the oldest first
  ecoreTimers,               \* when the timer of each event is due, or Idle
  now,
  \* the threads
  pc,
  running,                   \* the event whose handler runs, or NoOne
  current,                   \* the watch whose handler runs, or <<>>
  crashed,                   \* an exception left a callback of ecore
  fresh,                     \* the events nobody has posted yet
  earliest                   \* ghost: the time a timed event was asked for

crossVars == <<m_wrappedCrossEventCallList, m_crossEventCallMutex, m_crossEventCallInvoker,
               stolenCrossEvents>>
watchVars == <<m_watchersMap, m_watchersMutex, m_watchersInvoker, m_watchersInvokerCommit,
               m_watchersLists, changes>>
ecoreVars == <<ecoreEvents, ecoreTimers>>
postVars  == <<fresh, earliest>>
lifeVars  == <<lateDispatcher, crashed>>
vars == <<crossVars, watchVars, ecoreVars, postVars, lifeVars, now, pc, running, current>>

Idle == -1

Goto(t, where) == pc' = [pc EXCEPT ![t] = where]

\* Where the main thread runs code of the application.
AppCode == pc[Main] \in {"start", "handler", "listener"}

\* Ecore may call the next callback.
InLoop == pc[Main] = "loop" /\ ~crashed

Init ==
  /\ m_wrappedCrossEventCallList = <<>>
  /\ m_crossEventCallMutex = NoOne
  /\ m_crossEventCallInvoker = 0
  /\ stolenCrossEvents = <<>>
  /\ lateDispatcher = FALSE
  /\ m_watchersMap = {}
  /\ m_watchersMutex = NoOne
  /\ m_watchersInvoker = 0
  /\ m_watchersInvokerCommit = 0
  /\ m_watchersLists = {}
  /\ changes = 0
  /\ ecoreEvents = <<>>
  /\ ecoreTimers = [e \in TimedEvents |-> Idle]
  /\ now = 0
  /\ pc = [t \in Senders |-> IF t = Main THEN "start" ELSE "idle"]
  /\ running = NoOne
  /\ current = <<>>
  /\ crashed = FALSE
  /\ fresh = Events
  /\ earliest = [e \in TimedEvents |-> Idle]
-------------------------------------------------------------------------------
\* Posting.

\* The constructor of WrappedEventCall, or AddEventCall in the main thread: e is
\* no longer fresh, and its time counts from now.
Posted(t, e) ==
  /\ e \in fresh
  /\ Sender[e] = t
  /\ ~lateDispatcher
  /\ fresh' = fresh \ {e}
  /\ earliest' = [f \in TimedEvents |-> IF f = e THEN now + Delay[f] ELSE earliest[f]]

\* InternalAddEvent: into ecore's queue, or a timer for dueTime seconds from now.
InternalAddEvent(e) ==
  IF e \in TimedEvents
  THEN /\ ecoreTimers' = [ecoreTimers EXCEPT ![e] = now + Delay[e]]
       /\ UNCHANGED ecoreEvents
  ELSE /\ ecoreEvents' = Append(ecoreEvents, e)
       /\ UNCHANGED ecoreTimers

\* AddEventCall and AddTimedEventCall in the main thread.
AddEventCall(e) ==
  /\ AppCode
  /\ Posted(Main, e)
  /\ InternalAddEvent(e)
  /\ UNCHANGED <<crossVars, watchVars, lifeVars, now, pc, running, current>>

\* ... and in another thread: into the cross list, under the mutex,
AddCrossEventCall(t, e) ==
  /\ pc[t] = "idle"
  /\ m_crossEventCallMutex = NoOne
  /\ Posted(t, e)
  /\ m_crossEventCallMutex' = t
  /\ m_wrappedCrossEventCallList' = Append(m_wrappedCrossEventCallList, e)
  /\ Goto(t, "signal")
  /\ UNCHANGED <<m_crossEventCallInvoker, stolenCrossEvents, watchVars, ecoreVars, lifeVars,
                 now, running, current>>

\* ... then a byte into the pipe, which waits while it is full; the mutex is left.
SignalCrossInvoker(t) ==
  /\ pc[t] = "signal"
  /\ m_crossEventCallInvoker < PipeCapacity
  /\ m_crossEventCallInvoker' = m_crossEventCallInvoker + 1
  /\ m_crossEventCallMutex' = NoOne
  /\ Goto(t, "idle")
  /\ UNCHANGED <<m_wrappedCrossEventCallList, stolenCrossEvents, watchVars, ecoreVars, postVars,
                 lifeVars, now, running, current>>
-------------------------------------------------------------------------------
\* The callbacks of MainEventDispatcher.

\* StaticDispatchCrossInvoker, DispatchCrossInvoker: the byte is read before the
\* mutex is taken.
ResetCrossInvoker ==
  /\ InLoop
  /\ ~lateDispatcher
  /\ m_crossEventCallInvoker > 0
  /\ m_crossEventCallInvoker' = m_crossEventCallInvoker - 1
  /\ Goto(Main, "swap")
  /\ UNCHANGED <<m_wrappedCrossEventCallList, m_crossEventCallMutex, stolenCrossEvents, watchVars,
                 ecoreVars, postVars, lifeVars, now, running, current>>

\* Mutant: the list is copied, not swapped.
CopyCrossEvents ==
  /\ pc[Main] = "swap"
  /\ m_crossEventCallMutex = NoOne
  /\ stolenCrossEvents' = m_wrappedCrossEventCallList
  /\ Goto(Main, "repush")
  /\ UNCHANGED <<m_wrappedCrossEventCallList, m_crossEventCallMutex, m_crossEventCallInvoker,
                 watchVars, ecoreVars, postVars, lifeVars, now, running, current>>

StealCrossEvents ==
  /\ pc[Main] = "swap"
  /\ m_crossEventCallMutex = NoOne
  /\ stolenCrossEvents' = m_wrappedCrossEventCallList
  /\ m_wrappedCrossEventCallList' = <<>>
  /\ Goto(Main, "repush")
  /\ UNCHANGED <<m_crossEventCallMutex, m_crossEventCallInvoker, watchVars, ecoreVars, postVars,
                 lifeVars, now, running, current>>

\* The stolen events are added one by one; the timers count from here.
RepushEvent ==
  /\ pc[Main] = "repush"
  /\ stolenCrossEvents # <<>>
  /\ InternalAddEvent(Head(stolenCrossEvents))
  /\ stolenCrossEvents' = Tail(stolenCrossEvents)
  /\ UNCHANGED <<m_wrappedCrossEventCallList, m_crossEventCallMutex, m_crossEventCallInvoker,
                 watchVars, postVars, lifeVars, now, pc, running, current>>

\* Ecore refuses: the exception flies out of its callback and ends the process.
RepushFails ==
  /\ MayFail
  /\ pc[Main] = "repush"
  /\ stolenCrossEvents # <<>>
  /\ stolenCrossEvents' = <<>>
  /\ crashed' = TRUE
  /\ Goto(Main, "loop")
  /\ UNCHANGED <<m_wrappedCrossEventCallList, m_crossEventCallMutex, m_crossEventCallInvoker,
                 watchVars, ecoreVars, postVars, lateDispatcher, now, running, current>>

\* Mutant: the pipe is emptied once the stolen events are dispatched.
EndCrossInvokerDrained ==
  /\ pc[Main] = "repush"
  /\ stolenCrossEvents = <<>>
  /\ m_crossEventCallInvoker' = 0
  /\ Goto(Main, "loop")
  /\ UNCHANGED <<m_wrappedCrossEventCallList, m_crossEventCallMutex, stolenCrossEvents, watchVars,
                 ecoreVars, postVars, lifeVars, now, running, current>>

EndCrossInvoker ==
  /\ pc[Main] = "repush"
  /\ stolenCrossEvents = <<>>
  /\ Goto(Main, "loop")
  /\ UNCHANGED <<crossVars, watchVars, ecoreVars, postVars, lifeVars, now, running, current>>

\* StaticDispatchEvent; once the dispatcher is gone its ecore handler is removed,
\* and ecore only deletes the event (StaticDeleteEvent).
DispatchEvent ==
  /\ InLoop
  /\ ecoreEvents # <<>>
  /\ ecoreEvents' = Tail(ecoreEvents)
  /\ IF lateDispatcher
     THEN UNCHANGED <<running, pc>>
     ELSE running' = Head(ecoreEvents) /\ Goto(Main, "handler")
  /\ UNCHANGED <<ecoreTimers, crossVars, watchVars, postVars, lifeVars, now, current>>

\* StaticDispatchTimedEvent: the timer with the earliest due time; its event is
\* deleted, and called only while there is a dispatcher.
DispatchTimedEvent(e) ==
  /\ InLoop
  /\ ecoreTimers[e] # Idle
  /\ ecoreTimers[e] <= now
  /\ \A f \in TimedEvents : ecoreTimers[f] # Idle => ecoreTimers[e] <= ecoreTimers[f]
  /\ ecoreTimers' = [ecoreTimers EXCEPT ![e] = Idle]
  /\ earliest' = [earliest EXCEPT ![e] = Idle]
  /\ IF lateDispatcher
     THEN UNCHANGED <<running, pc>>
     ELSE running' = e /\ Goto(Main, "handler")
  /\ UNCHANGED <<ecoreEvents, fresh, crossVars, watchVars, lifeVars, now, current>>

\* The handler returns, StaticDeleteEvent deletes the call; or the application
\* enters the loop.
EnterLoop ==
  /\ pc[Main] \in {"start", "handler"}
  /\ running' = NoOne
  /\ Goto(Main, "loop")
  /\ UNCHANGED <<crossVars, watchVars, ecoreVars, postVars, lifeVars, now, current>>

\* ~Main and ~MainEventDispatcher, after the loop, when no other thread is at
\* work with them; all watches have been removed (an assertion).
Destroy ==
  /\ InLoop
  /\ ~lateDispatcher
  /\ \A t \in Threads : pc[t] = "idle"
  /\ m_watchersMap = {}
  /\ m_watchersLists' = {}
  /\ lateDispatcher' = TRUE
  /\ UNCHANGED <<m_watchersMap, m_watchersMutex, m_watchersInvoker, m_watchersInvokerCommit,
                 changes, crossVars, ecoreVars, postVars, crashed, now, pc, running, current>>
-------------------------------------------------------------------------------
\* Main: watches.

\* AddWaitableHandleWatch for a pair that is not watched, or
\* RemoveWaitableHandleWatch for one that is: up to CommitInvoker.
ChangeWatch(w) ==
  /\ changes < MaxChanges
  /\ ~lateDispatcher
  /\ changes' = changes + 1
  /\ m_watchersMap' = (m_watchersMap \ {w}) \cup ({w} \ m_watchersMap)

\* Mutant: handlers are only added.
ReloadWatchListAdding(lists, wanted) == lists \cup wanted

\* ReloadWatchList: handlers nobody asks for are removed from either list,
\* handlers that are missing are added.
ReloadWatchList(lists, wanted) ==
  LET kept == {w \in lists : w \in wanted} IN kept \cup (wanted \ kept)

\* CommitInvoker in the main thread: HandleDirectInvoker.
ChangeDirectly(w) ==
  /\ AppCode
  /\ m_watchersMutex \in {NoOne, Main}
  /\ ChangeWatch(w)
  /\ m_watchersLists' = ReloadWatchList(m_watchersLists, m_watchersMap')
  /\ UNCHANGED <<m_watchersMutex, m_watchersInvoker, m_watchersInvokerCommit, crossVars, ecoreVars,
                 postVars, lifeVars, now, pc, running, current>>

\* CommitInvoker in another thread: signal, and wait with the mutex held for a
\* commit, which the main thread, wanting that mutex, never comes to.
ChangeIndirectly(t, w) ==
  /\ t \in Watchers
  /\ \/ /\ pc[t] = "idle"
        /\ m_watchersMutex = NoOne
        /\ ChangeWatch(w)
        /\ m_watchersMutex' = t
        /\ m_watchersInvoker' = m_watchersInvoker + 1
        /\ Goto(t, "commit")
        /\ UNCHANGED m_watchersInvokerCommit
     \/ /\ pc[t] = "commit"
        /\ m_watchersInvokerCommit > 0
        /\ m_watchersInvokerCommit' = m_watchersInvokerCommit - 1
        /\ m_watchersMutex' = NoOne
        /\ Goto(t, "idle")
        /\ UNCHANGED <<m_watchersMap, m_watchersInvoker, changes>>
  /\ UNCHANGED <<m_watchersLists, crossVars, ecoreVars, postVars, lifeVars, now, running, current>>

\* StaticDispatchInvoker, DispatchInvoker: ReloadWatchList wants the mutex.
DispatchInvoker ==
  /\ \/ /\ InLoop
        /\ m_watchersInvoker > 0
        /\ Goto(Main, "invoker")
        /\ UNCHANGED watchVars
     \/ /\ pc[Main] = "invoker"
        /\ m_watchersMutex = NoOne
        /\ m_watchersLists' = ReloadWatchList(m_watchersLists, m_watchersMap)
        /\ m_watchersInvoker' = m_watchersInvoker - 1
        /\ m_watchersInvokerCommit' = m_watchersInvokerCommit + 1
        /\ Goto(Main, "loop")
        /\ UNCHANGED <<m_watchersMap, m_watchersMutex, changes>>
  /\ UNCHANGED <<crossVars, ecoreVars, postVars, lifeVars, now, running, current>>

\* StaticDispatchReadWatcher, StaticDispatchWriteWatcher: a descriptor with a
\* handler is ready, and HandleWatcher wants the mutex,
DispatchWatcher(w) ==
  /\ InLoop
  /\ w \in m_watchersLists
  /\ current' = w
  /\ Goto(Main, "watcher")
  /\ UNCHANGED <<crossVars, watchVars, ecoreVars, postVars, lifeVars, now, running>>

\* ... which it holds while the listener runs, if there is one still.
HandleWatcher ==
  /\ pc[Main] = "watcher"
  /\ m_watchersMutex = NoOne
  /\ IF current \in m_watchersMap
     THEN m_watchersMutex' = Main /\ Goto(Main, "listener") /\ UNCHANGED current
     ELSE current' = <<>> /\ Goto(Main, "loop") /\ UNCHANGED m_watchersMutex
  /\ UNCHANGED <<m_watchersMap, m_watchersInvoker, m_watchersInvokerCommit, m_watchersLists,
                 changes, crossVars, ecoreVars, postVars, lifeVars, now, running>>

EndListener ==
  /\ pc[Main] = "listener"
  /\ m_watchersMutex' = NoOne
  /\ current' = <<>>
  /\ Goto(Main, "loop")
  /\ UNCHANGED <<m_watchersMap, m_watchersInvoker, m_watchersInvokerCommit, m_watchersLists,
                 changes, crossVars, ecoreVars, postVars, lifeVars, now, running>>

\* Time passes: always when a timer waits for it, else up to a bound.
Tick ==
  /\ now < MaxTime \/ \E e \in TimedEvents : ecoreTimers[e] > now
  /\ now' = now + 1
  /\ UNCHANGED <<crossVars, watchVars, ecoreVars, postVars, lifeVars, pc, running, current>>
-------------------------------------------------------------------------------
MainStep ==
  \/ ResetCrossInvoker \/ StealCrossEvents \/ RepushEvent \/ RepushFails \/ EndCrossInvoker
  \/ DispatchEvent \/ (\E e \in TimedEvents : DispatchTimedEvent(e)) \/ EnterLoop
  \/ DispatchInvoker \/ (\E w \in Watches : DispatchWatcher(w)) \/ HandleWatcher \/ EndListener

Next ==
  \/ MainStep
  \/ Destroy
  \/ \E e \in Events : AddEventCall(e) \/ \E t \in Threads : AddCrossEventCall(t, e)
  \/ \E w \in Watches : ChangeDirectly(w) \/ \E t \in Threads : ChangeIndirectly(t, w)
  \/ \E t \in Threads : SignalCrossInvoker(t)
  \/ Tick

Spec == Init /\ [][Next]_vars

\* Callbacks return, a call once begun goes on, time passes; and ecore comes to
\* every kind of work again and again, however busy it is with the others.
Fairness ==
  /\ WF_vars(MainStep)
  /\ WF_vars(Tick)
  /\ SF_vars(ResetCrossInvoker)
  /\ SF_vars(DispatchEvent)
  /\ \A e \in TimedEvents : SF_vars(DispatchTimedEvent(e))
  /\ \A t \in Threads : WF_vars(SignalCrossInvoker(t))

FairSpec == Spec /\ Fairness
-------------------------------------------------------------------------------
\* Properties.

MainPlaces ==
  {"start", "loop", "swap", "repush", "handler", "invoker", "watcher", "listener"}

\* The types of the variables.
TypeOK ==
  /\ m_wrappedCrossEventCallList \in Seq(Events)
  /\ m_crossEventCallMutex \in Threads \cup {NoOne}
  /\ m_crossEventCallInvoker \in 0..PipeCapacity
  /\ stolenCrossEvents \in Seq(Events)
  /\ lateDispatcher \in BOOLEAN
  /\ m_watchersMap \subseteq Watches
  /\ m_watchersMutex \in Senders \cup {NoOne}
  /\ m_watchersInvoker \in Nat
  /\ m_watchersInvokerCommit \in Nat
  /\ m_watchersLists \subseteq Watches
  /\ changes \in 0..MaxChanges
  /\ ecoreEvents \in Seq(Events)
  /\ ecoreTimers \in [TimedEvents -> Nat \cup {Idle}]
  /\ now \in Nat
  /\ pc \in [Senders -> MainPlaces \cup {"idle", "signal", "commit"}]
  /\ pc[Main] \in MainPlaces
  /\ \A t \in Threads : pc[t] \in {"idle", "signal", "commit"}
  /\ running \in Events \cup {NoOne}
  /\ crashed \in BOOLEAN
  /\ fresh \subseteq Events
  /\ earliest \in [TimedEvents -> Nat \cup {Idle}]

\* An event in the cross list is never stranded: while nobody changes the list,
\* a byte in the pipe wakes ecore, or the main thread is about to take the list.
\* DispatchCrossInvoker reads the byte before it takes the mutex, so a byte may
\* be gone while the list is filled again.
NoStrandedEvent ==
  m_crossEventCallMutex = NoOne /\ m_wrappedCrossEventCallList # <<>> =>
    m_crossEventCallInvoker > 0 \/ pc[Main] = "swap"

\* Ecore watches what the listeners asked for whenever it is about to wait:
\* unless another thread's change is on its way, every watch has its handler,
\* and no handler is left for a descriptor that its owner may have closed.
HandlersMatchWatches ==
  pc[Main] = "loop" /\ m_watchersInvoker = 0 => m_watchersLists = m_watchersMap

\* The main thread is woken for whatever it has to do.
WakesAreKept == TypeOK /\ NoStrandedEvent /\ HandlersMatchWatches

\* A change from another thread waits for the commit with the mutex that the main
\* thread needs to reload its handlers: both stop.
Stopped == <>[](\E t \in Threads : pc[t] = "commit")

\* A sender refills the pipe between the reading of the byte and the taking of the
\* mutex, and the next one waits for room with the mutex that the main thread wants.
Jammed == <>[](pc[Main] = "swap" /\ m_crossEventCallInvoker = PipeCapacity)

Pending(e) ==
  \/ e \in ToSet(ecoreEvents \o stolenCrossEvents \o m_wrappedCrossEventCallList)
  \/ e \in TimedEvents /\ ecoreTimers[e] # Idle

\* Every event that is posted is delivered, though its sender may have to wait
\* for room in the pipe, unless the dispatcher goes before.
PostedIsDelivered ==
  \/ \A e \in Events : Pending(e) ~> running = e \/ crashed \/ lateDispatcher
  \/ Stopped
  \/ Jammed

FromSender(s, events) == Kept(events, {e \in Immediate : Sender[e] = s})

Over == lateDispatcher \/ crashed

\* The lists a posted event goes through are one queue per sender.
Posts == INSTANCE PostedEvents WITH
  queue <- [s \in Senders |-> IF Over THEN <<>> ELSE
              FromSender(s, ecoreEvents \o stolenCrossEvents \o m_wrappedCrossEventCallList)],
  earliest <- [e \in TimedEvents |-> IF Over THEN Idle ELSE earliest[e]],
  current <- running,
  clock <- now,
  NoEvent <- NoOne

\* Once each, in the order of their sender, never early, never nested, and not
\* after the end: for events that come through the pipe or not.
ImplementsPostedEvents == Posts!Spec
===============================================================================
