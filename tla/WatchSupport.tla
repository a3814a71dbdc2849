----------------------------- MODULE WatchSupport -----------------------------
(***************************************************************************)
(* WaitableHandleWatchSupport as the base of DPL::Thread: listeners watch  *)
(* file descriptors, the loop of Exec selects on them and calls the        *)
(* listeners of those that are ready.  The map of watchers is protected by *)
(* a recursive mutex; a change made by the loop thread itself is taken up  *)
(* through m_directInvoke, a change made by another thread through a byte  *)
(* in the invoker's pipe, for whose commit that thread waits.              *)
(*                                                                         *)
(* Of Exec this module keeps what concerns the handle list: indices 1 (an  *)
(* event whose handler may change the watches), 3 (the invoker) and 4, 5,  *)
(* ... (the watched handles).  The queues behind the events are in Thread. *)
(***************************************************************************)
EXTENDS Integers, Sequences, SequencesExt, FiniteSetsExt

CONSTANTS
  NumHandles,   \* the descriptors are 1..NumHandles: the map is sorted by them
  Listeners,
  Modes,        \* the modes listeners ask for, of "Read" and "Write"
  Clients,      \* other threads that add and remove watches
  Loop,         \* the thread of the loop
  NoOne,        \* the owner of a free mutex; no listener
  MaxChanges    \* bound: how often the watches are changed

Handles == 1..NumHandles
Pairs == Handles \X Modes
Watchers == [listener : Listeners, mode : Modes]

WatchAssumption ==
  /\ NumHandles \in Nat
  /\ Modes \subseteq {"Read", "Write"}
  /\ Loop \notin Clients
  /\ NoOne \notin Clients \cup {Loop} \cup Watchers
  /\ MaxChanges \in Nat

VARIABLES
  m_watchersMap,            \* the listeners of each handle; no entry is <<>>
  m_watchersMutex,          \* its owner, or NoOne
  m_watchersInvoker,        \* bytes in the pipe
  m_watchersInvokerCommit,  \* bytes in the pipe
  m_directInvoke,
  handleSlots,              \* the storage of handleList from index 4 on...
  handleCount,              \* ...and how many of its slots are in the list
  waitableHandleIndexList,  \* the indices of this batch still to be handled
  pc,
  current,                  \* the handle and mode HandleWatcher was called with
  trackedListeners,         \* those HandleWatcher has not come to yet
  calling,                  \* the watcher whose listener is being called
  signaled,                 \* the descriptors that are readable or writable
  event,                    \* an event is queued for the loop
  changes

mapVars  == <<m_watchersMap, changes>>
syncVars == <<m_watchersMutex, m_watchersInvoker, m_watchersInvokerCommit>>
listVars == <<handleSlots, handleCount>>
callVars == <<current, trackedListeners, calling>>
envVars  == <<signaled, event>>
vars == <<mapVars, syncVars, listVars, callVars, envVars, m_directInvoke,
          waitableHandleIndexList, pc>>

EventIndex == 1
InvokerIndex == 3
FirstWatch == 4          \* MIN_HANDLE_LIST_SIZE

Goto(a, where) == pc' = [pc EXCEPT ![a] = where]
Registered(h, w) == w \in ToSet(m_watchersMap[h])

Init ==
  /\ m_watchersMap = [h \in Handles |-> <<>>]
  /\ m_watchersMutex = NoOne
  /\ m_watchersInvoker = 0
  /\ m_watchersInvokerCommit = 0
  /\ m_directInvoke = FALSE
  /\ handleSlots = <<>>
  /\ handleCount = 0
  /\ waitableHandleIndexList = {}
  /\ pc = [a \in Clients \cup {Loop} |-> IF a = Loop THEN "start" ELSE "idle"]
  /\ current = <<>>
  /\ trackedListeners = <<>>
  /\ calling = NoOne
  /\ signaled = {}
  /\ event = FALSE
  /\ changes = 0
-------------------------------------------------------------------------------
\* WaitableWatcherHandles: the handles and modes that have a listener, in the
\* order of the map, and reading before writing.
Before(p, q) == p[1] < q[1] \/ (p[1] = q[1] /\ p[2] = "Read" /\ q[2] = "Write")

Listened == {p \in Pairs : \E w \in ToSet(m_watchersMap[p[1]]) : w.mode = p[2]}

WaitableWatcherHandles ==
  [i \in 1..Cardinality(Listened) |->
     CHOOSE p \in Listened : Cardinality({q \in Listened : Before(q, p)}) = i - 1]

\* handleList is cut to its first four entries and filled again.  The slots
\* behind the new end keep what they held: a std::vector does not shrink.
Refill ==
  LET new == WaitableWatcherHandles IN
  /\ handleCount' = Len(new)
  /\ handleSlots' = new \o SubSeq(handleSlots, Len(new) + 1, Len(handleSlots))

\* AddWaitableHandleWatch and RemoveWaitableHandleWatch, up to CommitInvoker;
\* their assertions are what a client must observe.
AddWatch(h, w) ==
  /\ ~Registered(h, w)
  /\ m_watchersMap' = [m_watchersMap EXCEPT ![h] = Append(@, w)]

RemoveWatch(h, w) ==
  /\ Registered(h, w)
  /\ m_watchersMap' = [m_watchersMap EXCEPT ![h] = SelectSeq(@, LAMBDA v : v # w)]

ChangeWatch ==
  /\ changes < MaxChanges
  /\ changes' = changes + 1
  /\ \E h \in Handles, w \in Watchers : AddWatch(h, w) \/ RemoveWatch(h, w)

\* Mutant: the direct invoker is not recorded.
LoopChangeUnrecorded ==
  /\ pc[Loop] \in {"handler", "callback"}
  /\ m_watchersMutex \in {NoOne, Loop}
  /\ ChangeWatch
  /\ UNCHANGED <<m_directInvoke, syncVars, listVars, callVars, envVars, waitableHandleIndexList,
                 pc>>

\* CommitInvoker in the loop thread: from the handler of an event, or from a
\* listener, under the mutex that HandleWatcher holds and this call takes again.
LoopChange ==
  /\ pc[Loop] \in {"handler", "callback"}
  /\ m_watchersMutex \in {NoOne, Loop}
  /\ ChangeWatch
  /\ m_directInvoke' = TRUE
  /\ UNCHANGED <<syncVars, listVars, callVars, envVars, waitableHandleIndexList, pc>>

\* AddWaitableHandleWatch or RemoveWaitableHandleWatch in another thread: signal
\* the invoker, wait for its commit, and hold the mutex all the while.
ClientChange(c) ==
  /\ \/ /\ pc[c] = "idle"
        /\ m_watchersMutex = NoOne
        /\ m_watchersMutex' = c
        /\ ChangeWatch
        /\ m_watchersInvoker' = m_watchersInvoker + 1
        /\ Goto(c, "commit")
        /\ UNCHANGED m_watchersInvokerCommit
     \/ /\ pc[c] = "commit"
        /\ m_watchersInvokerCommit > 0
        /\ m_watchersInvokerCommit' = m_watchersInvokerCommit - 1
        /\ m_watchersMutex' = NoOne
        /\ Goto(c, "idle")
        /\ UNCHANGED <<m_watchersInvoker, mapVars>>
  /\ UNCHANGED <<m_directInvoke, listVars, callVars, envVars, waitableHandleIndexList>>
-------------------------------------------------------------------------------
\* Exec.

\* Before the loop: the watches made before the thread was started.
StartExec ==
  /\ pc[Loop] = "start"
  /\ m_watchersMutex = NoOne
  /\ Refill
  /\ Goto(Loop, "select")
  /\ UNCHANGED <<m_directInvoke, mapVars, syncVars, callVars, envVars, waitableHandleIndexList>>

WatchIndex(k) == FirstWatch + k - 1

Select ==
  LET watched == {k \in 1..handleCount : handleSlots[k] \in signaled}
      ready == {WatchIndex(k) : k \in watched} \cup
               (IF event THEN {EventIndex} ELSE {}) \cup
               (IF m_watchersInvoker > 0 THEN {InvokerIndex} ELSE {})
  IN
  /\ pc[Loop] = "select"
  /\ ready # {}
  /\ waitableHandleIndexList' = ready
  /\ Goto(Loop, "batch")
  /\ UNCHANGED <<m_directInvoke, mapVars, syncVars, listVars, callVars, envVars>>

\* The next index of the batch is i.
TakeIndex(i) ==
  /\ pc[Loop] = "batch"
  /\ i = Min(waitableHandleIndexList)
  /\ waitableHandleIndexList' = waitableHandleIndexList \ {i}

AfterIndex == IF waitableHandleIndexList = {} THEN "select" ELSE "batch"

\* Index 1: the handler of an event runs.
HandleEvent ==
  /\ TakeIndex(EventIndex)
  /\ event' = FALSE
  /\ Goto(Loop, "handler")
  /\ UNCHANGED <<m_directInvoke, mapVars, syncVars, listVars, callVars, signaled>>

EndHandler ==
  /\ pc[Loop] = "handler"
  /\ Goto(Loop, "direct")
  /\ UNCHANGED <<m_directInvoke, mapVars, syncVars, listVars, callVars, envVars,
                 waitableHandleIndexList>>

\* Index 3: the invoker's byte has been seen.
HandleInvoker ==
  /\ TakeIndex(InvokerIndex)
  /\ Goto(Loop, "invoker")
  /\ UNCHANGED <<m_directInvoke, mapVars, syncVars, listVars, callVars, envVars>>

\* The list is filled again under the mutex: for the direct invoker, after index
\* 1 or a watched handle, or for index 3, which InvokerFinished concludes.
UpdateList ==
  LET committed == IF pc[Loop] = "invoker" THEN 1 ELSE 0 IN
  /\ \/ pc[Loop] = "invoker"
     \/ pc[Loop] = "direct" /\ m_directInvoke
  /\ m_watchersMutex = NoOne
  /\ Refill
  /\ m_directInvoke' = (pc[Loop] = "invoker" /\ m_directInvoke)
  /\ m_watchersInvoker' = m_watchersInvoker - committed
  /\ m_watchersInvokerCommit' = m_watchersInvokerCommit + committed
  /\ Goto(Loop, AfterIndex)
  /\ UNCHANGED <<m_watchersMutex, mapVars, callVars, envVars, waitableHandleIndexList>>

NoDirectInvoker ==
  /\ pc[Loop] = "direct"
  /\ ~m_directInvoke
  /\ Goto(Loop, AfterIndex)
  /\ UNCHANGED <<m_directInvoke, mapVars, syncVars, listVars, callVars, envVars,
                 waitableHandleIndexList>>

\* The other indices: HandleWatcher(handleList[index]) copies the listeners.
HandleWatcher ==
  \E k \in 1..Len(handleSlots) :
    /\ TakeIndex(WatchIndex(k))
    /\ m_watchersMutex = NoOne
    /\ m_watchersMutex' = Loop
    /\ current' = handleSlots[k]
    /\ trackedListeners' = m_watchersMap[handleSlots[k][1]]
    /\ Goto(Loop, "listeners")
    /\ UNCHANGED <<calling, m_watchersInvoker, m_watchersInvokerCommit, m_directInvoke, mapVars,
                   listVars, envVars>>

WatcherExists == m_watchersMap[current[1]] # <<>>

\* The next tracked listener is called if it listens in this mode.  That it
\* "still exists" is looked up in the tracked copy, which always holds it.
NextListener ==
  /\ pc[Loop] = "listeners"
  /\ trackedListeners # <<>>
  /\ WatcherExists
  /\ trackedListeners' = Tail(trackedListeners)
  /\ IF Head(trackedListeners).mode = current[2]
     THEN calling' = Head(trackedListeners) /\ Goto(Loop, "callback")
     ELSE UNCHANGED <<calling, pc>>
  /\ UNCHANGED <<current, m_directInvoke, mapVars, syncVars, listVars, envVars,
                 waitableHandleIndexList>>

\* OnWaitableHandleEvent returns; it may have consumed what was there to read.
EndCallback ==
  /\ pc[Loop] = "callback"
  /\ calling' = NoOne
  /\ signaled' \in {signaled, signaled \ {current}}
  /\ Goto(Loop, "listeners")
  /\ UNCHANGED <<current, trackedListeners, event, m_directInvoke, mapVars, syncVars, listVars,
                 waitableHandleIndexList>>

EndHandleWatcher ==
  /\ pc[Loop] = "listeners"
  /\ trackedListeners = <<>> \/ ~WatcherExists
  /\ m_watchersMutex' = NoOne
  /\ current' = <<>>
  /\ trackedListeners' = <<>>
  /\ Goto(Loop, "direct")
  /\ UNCHANGED <<calling, m_watchersInvoker, m_watchersInvokerCommit, m_directInvoke, mapVars,
                 listVars, envVars, waitableHandleIndexList>>
-------------------------------------------------------------------------------
\* The outside: data arrives, a buffer drains, somebody posts an event.
Signal ==
  /\ \E p \in Pairs : signaled' = signaled \cup {p} /\ p \notin signaled
  /\ UNCHANGED <<event, mapVars, syncVars, listVars, callVars, m_directInvoke,
                 waitableHandleIndexList, pc>>

PostEvent ==
  /\ ~event
  /\ event' = TRUE
  /\ UNCHANGED <<signaled, mapVars, syncVars, listVars, callVars, m_directInvoke,
                 waitableHandleIndexList, pc>>

LoopStep ==
  \/ StartExec \/ Select
  \/ HandleEvent \/ EndHandler \/ HandleInvoker \/ UpdateList \/ NoDirectInvoker
  \/ HandleWatcher \/ NextListener \/ EndCallback \/ EndHandleWatcher
  \/ LoopChange

Next ==
  \/ LoopStep
  \/ \E c \in Clients : ClientChange(c)
  \/ Signal
  \/ PostEvent

Spec == Init /\ [][Next]_vars

\* The loop thread runs, and so does a client: its wait ends with the commit.
Fairness == WF_vars(LoopStep) /\ \A c \in Clients : WF_vars(ClientChange(c))

FairSpec == Spec /\ Fairness
-------------------------------------------------------------------------------
\* Properties.

TypeOK ==
  /\ m_watchersMap \in [Handles -> Seq(Watchers)]
  /\ m_watchersMutex \in Clients \cup {Loop, NoOne}
  /\ m_watchersInvoker \in 0..1
  /\ m_watchersInvokerCommit \in 0..1
  /\ m_directInvoke \in BOOLEAN
  /\ handleSlots \in Seq(Pairs)
  /\ handleCount \in 0..Len(handleSlots)
  /\ waitableHandleIndexList \subseteq {EventIndex, InvokerIndex} \cup
       {WatchIndex(k) : k \in 1..Len(handleSlots)}
  /\ current \in Pairs \cup {<<>>}
  /\ trackedListeners \in Seq(Watchers)
  /\ calling \in Watchers \cup {NoOne}
  /\ signaled \subseteq Pairs
  /\ event \in BOOLEAN
  /\ changes \in 0..MaxChanges

\* select never works on an outdated list: unless the invoker's byte is there to
\* tell, the list selected on is the one the map asks for.
SelectsCurrentList ==
  pc[Loop] = "select" /\ m_watchersInvoker = 0 =>
    SubSeq(handleSlots, 1, handleCount) = WaitableWatcherHandles

\* A client and the loop wait for each other: CommitInvoker waits for the commit
\* with the mutex that the loop needs to fill its list or to serve a descriptor.
Committing == \E c \in Clients : pc[c] = "commit"
Jammed == <>[]Committing

Ready(h, w)  == Registered(h, w) /\ <<h, w.mode>> \in signaled
Called(h, w) == calling = w /\ current = <<h, w.mode>>

\* waitable_handle_watch_support.cpp: "All removed listeners are handled
\* correctly".  A listener is called only while it is registered.
OnlyRegisteredCalled ==
  [][calling' # calling /\ calling' # NoOne => Registered(current[1], calling')]_vars

===============================================================================
