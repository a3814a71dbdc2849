----------------------------- MODULE EventSupport -----------------------------
(***************************************************************************)
(* DPL::Event::EventSupport<EventType> with its EventSupportData and       *)
(* GenericEventCall: listeners registered with the thread they belong to,  *)
(* EmitEvent in its four modes, the receiving side in the listener's       *)
(* thread, removal and switching of listeners, and the destructor that     *)
(* disables the calls still queued.                                        *)
(*                                                                         *)
(* Each thread has a FIFO queue of calls (the abstract queue of EventQueue,*)
(* which Thread implements) and a stack of frames: what its code is doing  *)
(* inside this object.  A frame of a handler is application code and may   *)
(* call the object again.  The delegates of an EventSupport are handled by *)
(* the same code as its listeners and count as listeners.                  *)
(***************************************************************************)
EXTENDS Naturals, Sequences, SequencesExt, FiniteSets

CONSTANTS
  Threads,      \* the threads of the program, each serving its event queue
  Listeners,
  Homes,        \* Homes[l]: the threads that register l
  NoOne,        \* no thread: a free mutex, an unregistered listener, no barrier
  Modes,        \* the emit modes clients use
  Foreign,      \* a thread may remove or switch the listener of another thread
  Destroyers,   \* the threads that may destroy the object
  MaxEmits,     \* bound: how many events are emitted
  MaxSwitches,  \* bound: how often listeners are switched to another thread
  MaxDepth      \* bound: the depth of a thread's stack at which handlers still act

ASSUME EventSupportAssumption ==
  /\ NoOne \notin Threads
  /\ Homes \in [Listeners -> SUBSET Threads]
  /\ Modes \subseteq {"Auto", "Queued", "Blocking", "Deffered"}
  /\ Foreign \in BOOLEAN
  /\ Destroyers \subseteq Threads
  /\ MaxEmits \in Nat
  /\ MaxSwitches \in Nat
  /\ MaxDepth \in Nat

VARIABLES
  m_eventListenerList,     \* the thread of each listener, or NoOne
  m_listenerDelegateMutex, \* its owner, or NoOne
  m_eventListMutex,        \* held across steps by the destructor only
  queue,                   \* the calls waiting in each thread's event queue
  timed,                   \* the deferred calls of each thread that are not due
  stack,                   \* the frames of each thread, the innermost first
  barrier,                 \* synchronizationBarrier: whom each emitter waits for
  phase,                   \* the object: alive, dying, gone
  emitted,                 \* the mode each event was emitted with
  switches,                \* how many times a listener was switched
  log                      \* ghost: the events each listener has received, in order

listVars == <<m_eventListenerList, m_listenerDelegateMutex>>
callVars == <<queue, timed>>
countVars == <<emitted, switches, log>>
vars == <<listVars, m_eventListMutex, callVars, stack, barrier, phase, countVars>>

EventNumbers == 1..MaxEmits
Registered == {l \in Listeners : m_eventListenerList[l] # NoOne}

Top(t) == Head(stack[t])
At(t, where) == stack[t] # <<>> /\ Top(t).at = where

\* Thread t runs application code, which may call the object.
InClientCode(t) ==
  /\ phase = "alive"
  /\ stack[t] = <<>> \/ At(t, "handler") \/ At(t, "direct")
  /\ Len(stack[t]) < MaxDepth

Enter(t, frame) == stack' = [stack EXCEPT ![t] = <<frame>> \o @]
Leave(t) == stack' = [stack EXCEPT ![t] = Tail(@)]
Goto(t, where) == stack' = [stack EXCEPT ![t][1].at = where]

EmitFrame(event, mode) == [at |-> "lock", event |-> event, mode |-> mode, todo |-> {}]

Init ==
  /\ m_eventListenerList = [l \in Listeners |-> NoOne]
  /\ m_listenerDelegateMutex = NoOne
  /\ m_eventListMutex = NoOne
  /\ queue = [t \in Threads |-> <<>>]
  /\ timed = [t \in Threads |-> {}]
  /\ stack = [t \in Threads |-> <<>>]
  /\ barrier = [t \in Threads |-> {}]
  /\ phase = "alive"
  /\ emitted = <<>>
  /\ switches = 0
  /\ log = [l \in Listeners |-> <<>>]
-------------------------------------------------------------------------------
\* The list of listeners; each operation is one critical section.

AddListener(t, l) ==
  /\ InClientCode(t)
  /\ m_listenerDelegateMutex = NoOne
  /\ t \in Homes[l]
  /\ l \notin Registered
  /\ m_eventListenerList' = [m_eventListenerList EXCEPT ![l] = t]
  /\ UNCHANGED <<m_listenerDelegateMutex, m_eventListMutex, callVars, stack, barrier, phase,
                 countVars>>

MayChange(t, l) == l \in Registered /\ (Foreign \/ m_eventListenerList[l] = t)

RemoveListener(t, l) ==
  /\ InClientCode(t)
  /\ m_listenerDelegateMutex = NoOne
  /\ MayChange(t, l)
  /\ m_eventListenerList' = [m_eventListenerList EXCEPT ![l] = NoOne]
  /\ UNCHANGED <<m_listenerDelegateMutex, m_eventListMutex, callVars, stack, barrier, phase,
                 countVars>>

\* SwitchListenerToThread for one listener, SwitchAllListenersToThread for all.
SwitchListeners(t, some, thread) ==
  /\ InClientCode(t)
  /\ m_listenerDelegateMutex = NoOne
  /\ \A l \in some : MayChange(t, l)
  /\ switches < MaxSwitches
  /\ switches' = switches + 1
  /\ m_eventListenerList' =
       [l \in Listeners |-> IF l \in some THEN thread ELSE m_eventListenerList[l]]
  /\ UNCHANGED <<m_listenerDelegateMutex, m_eventListMutex, callVars, stack, barrier, phase,
                 emitted, log>>

SwitchListenerToThread(t, l, thread) == SwitchListeners(t, {l}, thread)
SwitchAllListenersToThread(t, thread) == Registered # {} /\ SwitchListeners(t, Registered, thread)
-------------------------------------------------------------------------------
\* EmitEvent.

\* The call, up to the mutex...
EmitEvent(t, mode) ==
  /\ InClientCode(t)
  /\ Len(emitted) < MaxEmits
  /\ emitted' = Append(emitted, mode)
  /\ Enter(t, EmitFrame(Len(emitted'), mode))
  /\ UNCHANGED <<listVars, m_eventListMutex, callVars, barrier, phase, switches, log>>

\* Mutant: emitters do not exclude each other.
LockListenersShared(t) ==
  /\ At(t, "lock")
  /\ m_listenerDelegateMutex' = t
  /\ stack' = [stack EXCEPT ![t][1].at = "post", ![t][1].todo = Registered]
  /\ UNCHANGED <<m_eventListenerList, m_eventListMutex, callVars, barrier, phase, countVars>>

\* ...which is not recursive: a thread that owns it waits for itself.
LockListeners(t) ==
  /\ At(t, "lock")
  /\ m_listenerDelegateMutex = NoOne
  /\ m_listenerDelegateMutex' = t
  /\ stack' = [stack EXCEPT ![t][1].at = "post", ![t][1].todo = Registered]
  /\ UNCHANGED <<m_eventListenerList, m_eventListMutex, callVars, barrier, phase, countVars>>

Direct(t, l) == Top(t).mode \in {"Auto", "Blocking"} /\ m_eventListenerList[l] = t

\* One listener of the list: its handler is called here and now...
CallDirectly(t) ==
  /\ At(t, "post")
  /\ \E l \in Top(t).todo :
       /\ Direct(t, l)
       /\ stack' = [stack EXCEPT ![t] = <<[at |-> "direct", listener |-> l]>> \o
                       <<[Top(t) EXCEPT !.todo = @ \ {l}]>> \o Tail(@)]
       /\ log' = [log EXCEPT ![l] = Append(@, Top(t).event)]
  /\ UNCHANGED <<listVars, m_eventListMutex, callVars, barrier, phase, emitted, switches>>

EndDirect(t) ==
  /\ At(t, "direct")
  /\ Leave(t)
  /\ UNCHANGED <<listVars, m_eventListMutex, callVars, barrier, phase, countVars>>

\* RegisterEventCall, and AddEventCall or AddTimedEventCall of the dispatcher.
NewCall(t, l) ==
  [listener |-> l, event |-> Top(t).event, live |-> TRUE,
   sync |-> IF Top(t).mode = "Blocking" THEN t ELSE NoOne]

\* ...or a call is registered and put into the queue of the listener's thread.
AddEventCall(t) ==
  /\ At(t, "post")
  /\ m_eventListMutex = NoOne
  /\ \E l \in Top(t).todo :
       LET target == m_eventListenerList[l] IN
       /\ ~Direct(t, l)
       /\ IF Top(t).mode = "Deffered"
          THEN /\ timed' = [timed EXCEPT ![target] = @ \cup {NewCall(t, l)}]
               /\ UNCHANGED queue
          ELSE /\ queue' = [queue EXCEPT ![target] = Append(@, NewCall(t, l))]
               /\ UNCHANGED timed
       /\ barrier' = IF Top(t).mode = "Blocking"
                     THEN [barrier EXCEPT ![t] = @ \cup {l}]
                     ELSE barrier
       /\ stack' = [stack EXCEPT ![t][1].todo = @ \ {l}]
  /\ UNCHANGED <<listVars, m_eventListMutex, phase, countVars>>

\* The mutex is left, before the wait for the barrier if there is one.
EndPosting(t) ==
  /\ At(t, "post")
  /\ Top(t).todo = {}
  /\ m_listenerDelegateMutex' = NoOne
  /\ IF Top(t).mode = "Blocking" THEN Goto(t, "barrier") ELSE Leave(t)
  /\ UNCHANGED <<m_eventListenerList, m_eventListMutex, callVars, barrier, phase, countVars>>

AwaitBarrier(t) ==
  /\ At(t, "barrier")
  /\ barrier[t] = {}
  /\ Leave(t)
  /\ UNCHANGED <<listVars, m_eventListMutex, callVars, barrier, phase, countVars>>
-------------------------------------------------------------------------------
\* The listener's thread.

\* A deferred call is due and joins the queue.
CallIsDue(t) ==
  /\ \E call \in timed[t] :
       /\ timed' = [timed EXCEPT ![t] = @ \ {call}]
       /\ queue' = [queue EXCEPT ![t] = Append(@, call)]
  /\ UNCHANGED <<listVars, m_eventListMutex, stack, barrier, phase, countVars>>

\* The frame of a call that is made.
CallFrame(call) ==
  [at |-> "check", listener |-> call.listener, event |-> call.event, live |-> call.live,
   sync |-> call.sync]

\* Mutant: the call that is made stays in the queue.
TakeCallAgain(t) ==
  /\ stack[t] = <<>>
  /\ queue[t] # <<>>
  /\ Head(queue[t]).live
  /\ Enter(t, CallFrame(Head(queue[t])))
  /\ UNCHANGED <<listVars, m_eventListMutex, callVars, barrier, phase, countVars>>

\* Call and CallAndDestroy: m_dataMutex is taken; a disabled call is ignored.
\* The data mutex is held in "check", "resent", "ready", "handler" and "remove".
TakeCall(t) ==
  /\ stack[t] = <<>>
  /\ queue[t] # <<>>
  /\ queue' = [queue EXCEPT ![t] = Tail(@)]
  /\ LET call == Head(queue[t]) IN
     IF call.live
     THEN Enter(t, CallFrame(call))
     ELSE UNCHANGED stack
  /\ UNCHANGED <<listVars, m_eventListMutex, timed, barrier, phase, countVars>>

\* synchronization->Signal(), if there is a barrier to signal.
Signal(t) ==
  barrier' = IF Top(t).sync = NoOne
             THEN barrier
             ELSE [barrier EXCEPT ![Top(t).sync] = @ \ {Top(t).listener}]

\* The first half of ReceiveAbstractEventCall: is the listener still there, and
\* is this its thread?  The answer is used after the mutex is left.
ReceiveWith(t, SignalsIfGone, IsHere(_)) ==
  LET target == m_eventListenerList[Top(t).listener] IN
  /\ At(t, "check")
  /\ m_listenerDelegateMutex = NoOne
  /\ \/ /\ target = NoOne                            \* it disappeared
        /\ IF SignalsIfGone THEN Signal(t) ELSE UNCHANGED barrier
        /\ Goto(t, "called")
     \/ /\ target \in Threads
        /\ IsHere(target)
        /\ UNCHANGED barrier
        /\ Goto(t, "ready")
     \/ /\ target \in Threads
        /\ ~IsHere(target)
        /\ Top(t).sync # NoOne                       \* ping-pong, synchronized
        /\ Signal(t)
        /\ Goto(t, "called")
     \/ /\ target \in Threads
        /\ ~IsHere(target)
        /\ Top(t).sync = NoOne                       \* ping-pong: emit it again
        /\ UNCHANGED barrier
        /\ stack' = [stack EXCEPT ![t] = <<EmitFrame(Top(t).event, "Queued")>> \o
                       <<[Top(t) EXCEPT !.at = "resent"]>> \o Tail(@)]
  /\ UNCHANGED <<listVars, m_eventListMutex, callVars, phase, countVars>>

\* Mutant: the emitter is forgotten when the listener has disappeared.
ReceiveUnsignalled(t) == ReceiveWith(t, FALSE, LAMBDA target : target = t)

\* Mutant: the thread of the listener is not looked at.
ReceiveAnywhere(t) == ReceiveWith(t, TRUE, LAMBDA target : TRUE)

ReceiveAbstractEventCall(t) == ReceiveWith(t, TRUE, LAMBDA target : target = t)

\* The emission that replaced the call has ended.
EndResent(t) ==
  /\ At(t, "resent")
  /\ Goto(t, "called")
  /\ UNCHANGED <<listVars, m_eventListMutex, callVars, barrier, phase, countVars>>

\* The second half: GuardedEventCall...
GuardedEventCall(t) ==
  /\ At(t, "ready")
  /\ Goto(t, "handler")
  /\ log' = [log EXCEPT ![Top(t).listener] = Append(@, Top(t).event)]
  /\ UNCHANGED <<listVars, m_eventListMutex, callVars, barrier, phase, emitted, switches>>

\* ...and, when the handler has returned, the release of the emitter.
EndHandler(t) ==
  /\ At(t, "handler")
  /\ Signal(t)
  /\ Goto(t, "called")
  /\ UNCHANGED <<listVars, m_eventListMutex, callVars, phase, countVars>>

\* ~EventSupportData, with m_dataMutex once more: a call that was disabled
\* meanwhile ends here, the others have to leave the list of the support.
DestroyData(t) ==
  /\ At(t, "called")
  /\ IF Top(t).live THEN Goto(t, "remove") ELSE Leave(t)
  /\ UNCHANGED <<listVars, m_eventListMutex, callVars, barrier, phase, countVars>>

RemoveEventCall(t) ==
  /\ At(t, "remove")
  /\ m_eventListMutex = NoOne
  /\ Leave(t)
  /\ UNCHANGED <<listVars, m_eventListMutex, callVars, barrier, phase, countVars>>
-------------------------------------------------------------------------------
\* ~EventSupport.

\* No thread may be inside a member function, or in a handler (asserted).
Destroy(t) ==
  /\ t \in Destroyers
  /\ phase = "alive"
  /\ stack[t] = <<>>
  /\ \A u \in Threads : stack[u] = <<>> \/ \E where \in {"check", "ready", "called", "remove"} :
       At(u, where) /\ Len(stack[u]) = 1
  /\ phase' = "dying"
  /\ m_eventListenerList' = [l \in Listeners |-> NoOne]
  /\ m_eventListMutex' = t
  /\ Enter(t, [at |-> "destroy"])
  /\ UNCHANGED <<m_listenerDelegateMutex, callVars, barrier, countVars>>

\* DisableEvent on the calls in the queues, whose data mutexes are free...
Disabled(call) == [call EXCEPT !.live = FALSE]

DisableQueued(t) ==
  /\ At(t, "destroy")
  /\ \E u \in Threads : \E call \in ToSet(queue[u]) \cup timed[u] : call.live
  /\ queue' = [u \in Threads |-> [i \in 1..Len(queue[u]) |-> Disabled(queue[u][i])]]
  /\ timed' = [u \in Threads |-> {Disabled(call) : call \in timed[u]}]
  /\ UNCHANGED <<listVars, m_eventListMutex, stack, barrier, phase, countVars>>

\* ...and on a call that is being made, once its data mutex is free.
DisableCalled(t) ==
  /\ At(t, "destroy")
  /\ \E u \in Threads :
       /\ At(u, "called")
       /\ Top(u).live
       /\ stack' = [stack EXCEPT ![u][1].live = FALSE]
  /\ UNCHANGED <<listVars, m_eventListMutex, callVars, barrier, phase, countVars>>

\* m_eventsList: the calls that are still to be disabled or removed.
IsCall(frame) == frame.at \in {"check", "resent", "ready", "handler", "called", "remove"}

EventsListEmpty ==
  /\ \A u \in Threads : \A call \in ToSet(queue[u]) \cup timed[u] : ~call.live
  /\ \A u \in Threads : \A i \in 1..Len(stack[u]) : IsCall(stack[u][i]) => ~stack[u][i].live

\* Mutant: the destructor does not wait for the calls that are being made.
EndDestroyEarly(t) ==
  /\ At(t, "destroy")
  /\ m_eventListMutex' = NoOne
  /\ phase' = "gone"
  /\ Leave(t)
  /\ UNCHANGED <<listVars, callVars, barrier, countVars>>

EndDestroy(t) ==
  /\ At(t, "destroy")
  /\ EventsListEmpty
  /\ m_eventListMutex' = NoOne
  /\ phase' = "gone"
  /\ Leave(t)
  /\ UNCHANGED <<listVars, callVars, barrier, countVars>>
-------------------------------------------------------------------------------
\* What a thread does once a call has begun.
ObjectStep(t) ==
  \/ LockListeners(t) \/ CallDirectly(t) \/ EndDirect(t) \/ AddEventCall(t)
  \/ EndPosting(t) \/ AwaitBarrier(t)
  \/ CallIsDue(t) \/ TakeCall(t)
  \/ ReceiveAbstractEventCall(t) \/ EndResent(t) \/ GuardedEventCall(t) \/ EndHandler(t)
  \/ DestroyData(t) \/ RemoveEventCall(t)
  \/ DisableQueued(t) \/ DisableCalled(t) \/ EndDestroy(t)

\* What clients choose to do.
ClientStep(t) ==
  \/ \E l \in Listeners :
       \/ AddListener(t, l)
       \/ RemoveListener(t, l)
       \/ \E u \in Threads : SwitchListenerToThread(t, l, u)
  \/ \E u \in Threads : SwitchAllListenersToThread(t, u)
  \/ \E mode \in Modes : EmitEvent(t, mode)
  \/ Destroy(t)

Next == \E t \in Threads : ObjectStep(t) \/ ClientStep(t)

Spec == Init /\ [][Next]_vars

\* Every thread runs, and every handler returns; clients need not do anything.
FairSpec == Spec /\ \A t \in Threads : WF_vars(ObjectStep(t))
-------------------------------------------------------------------------------
\* Properties.

\* The types of the variables.
TypeOK ==
  /\ m_eventListenerList \in [Listeners -> Threads \cup {NoOne}]
  /\ m_listenerDelegateMutex \in Threads \cup {NoOne}
  /\ m_eventListMutex \in Threads \cup {NoOne}
  /\ \A t \in Threads : \A call \in ToSet(queue[t]) \cup timed[t] :
       call \in [listener : Listeners, event : EventNumbers, live : BOOLEAN,
                 sync : Threads \cup {NoOne}]
  /\ barrier \in [Threads -> SUBSET Listeners]
  /\ phase \in {"alive", "dying", "gone"}
  /\ emitted \in Seq(Modes) /\ Len(emitted) <= MaxEmits
  /\ switches \in 0..MaxSwitches
  /\ \A l \in Listeners : ToSet(log[l]) \subseteq EventNumbers

\* "Listener might have been removed, ensure that it still exits": a queued call
\* reaches a handler only while its listener is registered, with this thread.
CalledWhileRegistered ==
  phase = "alive" =>
    \A t \in Threads : At(t, "ready") => m_eventListenerList[Top(t).listener] = t

\* Every listener stays in one thread: none is switched, or removed and then
\* registered by another thread.
Settled == switches = 0 /\ \A l \in Listeners : \A t, u \in Homes[l] : t = u

\* An emission reaches a listener at most once, over all modes, nested emissions
\* and removals.  Only a change of thread breaks this: a call found in the wrong
\* thread is retried by an emission to all listeners, the others of which have
\* had theirs.
ReceivedOnce ==
  Settled =>
    \A l \in Listeners : \A i, j \in 1..Len(log[l]) : log[l][i] = log[l][j] => i = j

\* The lists, locks and queued calls stay what they are, and each event is
\* received once by each listener it was emitted to.
HandledOnce == TypeOK /\ ReceivedOnce

Precedes(l, e, f) ==
  \E i, j \in 1..Len(log[l]) : i < j /\ log[l][i] = e /\ log[l][j] = f

\* Events that different threads emit as queued reach all listeners in one
\* order, although every listener has a queue of its own thread: EmitEvent
\* keeps the mutex until every listener has its call.
SameOrder ==
  Settled =>
    \A l, m \in Listeners : \A e, f \in 1..Len(emitted) :
      emitted[e] = "Queued" /\ emitted[f] = "Queued" /\ Precedes(l, e, f) => ~Precedes(m, f, e)

\* After ~EventSupport no thread uses the object any more: every call is
\* disabled, and none is in the middle of the object's code.
DestroyedIsUnused ==
  phase = "gone" => EventsListEmpty /\ \A t \in Threads :
    \A where \in {"check", "ready", "handler", "remove"} : ~At(t, where)

HoldsCallOf(u, t) ==
  \/ \E call \in ToSet(queue[u]) : call.sync = t
  \/ \E i \in 1..Len(stack[u]) : IsCall(stack[u][i]) /\ stack[u][i].sync = t

WaitsFor(t, u) ==
  \/ At(t, "lock") /\ m_listenerDelegateMutex = u
  \/ At(t, "barrier") /\ HoldsCallOf(u, t)

MutuallyWaiting ==
  \E S \in SUBSET Threads \ {{}} : \A t \in S : \E u \in S : WaitsFor(t, u)

\* A blocking EmitEvent returns, even if its listeners are removed or switched
\* meanwhile, unless the handlers of the program make threads wait for each other.
BlockingReturns ==
  \A t \in Threads : At(t, "barrier") ~> ~At(t, "barrier") \/ MutuallyWaiting

\* An emitter gets the mutex, unless the handler it is called from was called
\* directly, with the mutex held, or threads wait for each other.
EmitGetsLock == \A t \in Threads : At(t, "lock") ~> ~At(t, "lock") \/ MutuallyWaiting

\* Whatever waits to emit, or for its emission to be handled, goes on.
EmissionsEnd == BlockingReturns /\ EmitGetsLock

\* event_support.h: a call that was made "can be safely destroyed now".
CallIsDestroyed == \A t \in Threads : At(t, "remove") ~> ~At(t, "remove")
===============================================================================
