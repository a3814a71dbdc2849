-------------------------- MODULE EventSupport_proofs --------------------------
(***************************************************************************)
(* Theorems about EventSupport, for every set of threads and listeners,    *)
(* every choice of modes, and every number of emissions, switches and      *)
(* nested calls.                                                           *)
(***************************************************************************)
EXTENDS EventSupport, TLAPS

AllModes == {"Auto", "Queued", "Blocking", "Deffered"}
EmitPlaces == {"lock", "post", "barrier"}
CallPlaces == {"check", "resent", "ready", "handler", "called", "remove"}

Calls ==
  [listener : Listeners, event : EventNumbers, live : BOOLEAN, sync : Threads \cup {NoOne}]

CallFrames ==
  [at : CallPlaces, listener : Listeners, event : EventNumbers, live : BOOLEAN,
   sync : Threads \cup {NoOne}]

EmitFrames ==
  [at : EmitPlaces, event : EventNumbers, mode : AllModes, todo : SUBSET Listeners]

Frames ==
  CallFrames \cup EmitFrames \cup [at : {"direct"}, listener : Listeners] \cup [at : {"destroy"}]

\* The types of the variables, the frames of the stacks included.
Types ==
  /\ m_eventListenerList \in [Listeners -> Threads \cup {NoOne}]
  /\ m_listenerDelegateMutex \in Threads \cup {NoOne}
  /\ m_eventListMutex \in Threads \cup {NoOne}
  /\ queue \in [Threads -> Seq(Calls)]
  /\ timed \in [Threads -> SUBSET Calls]
  /\ stack \in [Threads -> Seq(Frames)]
  /\ barrier \in [Threads -> SUBSET Listeners]
  /\ phase \in {"alive", "dying", "gone"}
  /\ emitted \in Seq(Modes) /\ Len(emitted) <= MaxEmits
  /\ switches \in 0..MaxSwitches
  /\ log \in [Listeners -> Seq(EventNumbers)]

\* Only these calls call others; and a call that was disabled has been made.
StackShape ==
  \A t \in Threads : \A i \in 1..Len(stack[t]) :
    /\ i > 1 => stack[t][i].at \in {"handler", "direct", "post", "resent"}
    /\ stack[t][i].at \in CallPlaces /\ ~stack[t][i].live => stack[t][i].at = "called"

\* Once the destructor has begun, nobody is registered any more, and every thread
\* is outside the object or ends the one call it had begun.
Retiring ==
  phase # "alive" =>
    /\ \A l \in Listeners : m_eventListenerList[l] = NoOne
    /\ \A t \in Threads : \/ stack[t] = <<>>
                          \/ /\ Len(stack[t]) = 1
                             /\ stack[t][1].at \notin {"direct", "resent", "lock", "post", "barrier"}

OneDestructor ==
  \A t \in Threads : At(t, "destroy") => phase = "dying" /\ m_eventListMutex = t

Retired == phase = "gone" => EventsListEmpty

\* A call that has found its listener registered still finds it, as long as only
\* the thread of a listener takes it away.
Here ==
  ~Foreign /\ phase = "alive" =>
    \A t \in Threads : At(t, "ready") => m_eventListenerList[Top(t).listener] = t

\* The inductive invariant.
SupportInv == Types /\ StackShape /\ Retiring /\ OneDestructor /\ Retired /\ Here

-------------------------------------------------------------------------------
(***************************************************************************)
(* The three ways in which a stack changes.                                *)
(***************************************************************************)

Others(t) == \A u \in Threads : u # t => stack'[u] = stack[u]

\* The innermost frame becomes g.
Changed(t, g) ==
  /\ Others(t)
  /\ stack[t] # <<>> /\ Len(stack'[t]) = Len(stack[t])
  /\ stack'[t][1] = g
  /\ \A i \in 2..Len(stack[t]) : stack'[t][i] = stack[t][i]

\* ... becomes g and calls f.
Pushed(t, f, g) ==
  /\ Others(t)
  /\ Len(stack'[t]) = Len(stack[t]) + 1
  /\ stack'[t][1] = f
  /\ stack[t] # <<>> => stack'[t][2] = g
  /\ \A i \in 2..Len(stack[t]) : stack'[t][i + 1] = stack[t][i]

\* ... ends.
Popped(t) ==
  /\ Others(t)
  /\ stack[t] # <<>> /\ Len(stack'[t]) = Len(stack[t]) - 1
  /\ \A i \in 1..(Len(stack[t]) - 1) : stack'[t][i] = stack[t][i + 1]

LEMMA TopIsFrame ==
  ASSUME Types, NEW t \in Threads, stack[t] # <<>>
  PROVE  Top(t) = stack[t][1] /\ Top(t) \in Frames /\ Len(stack[t]) \in Nat \ {0}
BY DEF Types, Top

\* A frame of a call differs from the other frames in its place.
LEMMA PlaceTellsFrame ==
  ASSUME NEW f \in Frames
  PROVE  /\ f.at \in CallPlaces <=> f \in CallFrames
         /\ f.at \in EmitPlaces <=> f \in EmitFrames
         /\ IsCall(f) <=> f.at \in CallPlaces
BY DEF Frames, CallFrames, EmitFrames, CallPlaces, EmitPlaces, IsCall

LEMMA ReplacementChanges ==
  ASSUME Types, NEW t \in Threads, NEW g \in Frames, stack[t] # <<>>,
         stack' = [stack EXCEPT ![t] = [stack[t] EXCEPT ![1] = g]]
  PROVE  stack' \in [Threads -> Seq(Frames)] /\ Changed(t, g)
<1>1. [stack[t] EXCEPT ![1] = g] \in Seq(Frames) /\ Len([stack[t] EXCEPT ![1] = g]) = Len(stack[t])
  BY TopIsFrame DEF Types
<1>. QED
  BY <1>1, TopIsFrame DEF Types, Changed, Others

LEMMA GotoChanges ==
  ASSUME Types, NEW t \in Threads, NEW where, stack[t] # <<>>,
         \/ Top(t).at \in CallPlaces /\ where \in CallPlaces
         \/ Top(t).at \in EmitPlaces /\ where \in EmitPlaces,
         Goto(t, where)
  PROVE  /\ stack' \in [Threads -> Seq(Frames)]
         /\ Changed(t, [Top(t) EXCEPT !.at = where])
<1>. DEFINE g == [Top(t) EXCEPT !.at = where]
<1>1. g \in Frames
  BY TopIsFrame, PlaceTellsFrame DEF Frames, CallFrames, EmitFrames
<1>2. stack' = [stack EXCEPT ![t] = [stack[t] EXCEPT ![1] = g]]
  BY TopIsFrame DEF Goto
<1>. QED
  BY <1>1, <1>2, ReplacementChanges

LEMMA EnterPushes ==
  ASSUME Types, NEW t \in Threads, NEW f \in Frames, Enter(t, f)
  PROVE  stack' \in [Threads -> Seq(Frames)] /\ Pushed(t, f, stack[t][1])
<1>1. <<f>> \o stack[t] \in Seq(Frames) /\ Len(<<f>> \o stack[t]) = Len(stack[t]) + 1
  BY DEF Types
<1>2. (<<f>> \o stack[t])[1] = f /\ \A i \in 1..Len(stack[t]) : (<<f>> \o stack[t])[i + 1] = stack[t][i]
  BY DEF Types
<1>3. stack[t] # <<>> => 1 \in 1..Len(stack[t])
  BY DEF Types
<1>4. stack' = [stack EXCEPT ![t] = <<f>> \o stack[t]]
  BY DEF Enter
<1>. QED
  BY <1>1, <1>2, <1>3, <1>4 DEF Types, Pushed, Others

LEMMA CallPushes ==
  ASSUME Types, NEW t \in Threads, NEW f \in Frames, NEW g \in Frames, stack[t] # <<>>,
         stack' = [stack EXCEPT ![t] = <<f>> \o <<g>> \o Tail(@)]
  PROVE  stack' \in [Threads -> Seq(Frames)] /\ Pushed(t, f, g)
<1>. DEFINE s == stack[t]
            n == <<f>> \o <<g>> \o Tail(s)
<1>1. s \in Seq(Frames) /\ s # <<>> /\ Tail(s) \in Seq(Frames) /\ Len(Tail(s)) = Len(s) - 1
  BY DEF Types
<1>2. n \in Seq(Frames) /\ Len(n) = Len(s) + 1 /\ n[1] = f /\ n[2] = g
  BY <1>1
<1>3. \A i \in 2..Len(s) : n[i + 1] = s[i]
  BY <1>1
<1>4. stack' = [stack EXCEPT ![t] = n]
  OBVIOUS
<1>. QED
  BY <1>2, <1>3, <1>4 DEF Types, Pushed, Others

LEMMA LeavePops ==
  ASSUME Types, NEW t \in Threads, stack[t] # <<>>, Leave(t)
  PROVE  stack' \in [Threads -> Seq(Frames)] /\ Popped(t)
<1>1. /\ Tail(stack[t]) \in Seq(Frames) /\ Len(Tail(stack[t])) = Len(stack[t]) - 1
      /\ \A i \in 1..(Len(stack[t]) - 1) : Tail(stack[t])[i] = stack[t][i + 1]
  BY DEF Types
<1>. QED
  BY <1>1 DEF Types, Leave, Popped, Others

-------------------------------------------------------------------------------
(***************************************************************************)
(* What such a change has to respect to keep the invariant.                *)
(***************************************************************************)

LEMMA KeptWithStack ==
  ASSUME SupportInv, Types', UNCHANGED <<stack, phase, m_eventListMutex>>,
         phase # "alive" => m_eventListenerList' = m_eventListenerList,
         m_eventListenerList' = m_eventListenerList \/ Here',
         phase = "gone" => \A u \in Threads : \A call \in ToSet(queue'[u]) \cup timed'[u] : ~call.live
  PROVE  SupportInv'
BY DEF SupportInv, StackShape, Retiring, OneDestructor, Retired, Here, EventsListEmpty, At, Top

LEMMA KeptWhenChanged ==
  ASSUME SupportInv, Types', NEW t \in Threads, NEW g \in Frames, Changed(t, g),
         UNCHANGED <<phase, m_eventListMutex, m_eventListenerList>>,
         g.at # "destroy",
         g.at = "ready" => m_eventListenerList[g.listener] = t,
         g.at \in CallPlaces /\ ~g.live => g.at = "called",
         phase # "alive" => /\ UNCHANGED <<queue, timed>>
                            /\ g.at \in CallPlaces \ {"resent"}
                            /\ phase = "gone" => ~g.live
  PROVE  SupportInv'
<1>. USE DEF SupportInv
<1>1. \A u \in Threads : Len(stack[u]) \in Nat /\ Len(stack'[u]) = Len(stack[u])
  <2>1. \A u \in Threads : stack[u] \in Seq(Frames)
    BY DEF Types
  <2>2. \A u \in Threads : Len(stack'[u]) = Len(stack[u])
    BY DEF Changed, Others
  <2>. QED
    BY <2>1, <2>2
<1>2. StackShape'
  BY <1>1 DEF StackShape, Changed, Others
<1>3. Retiring'
  <2>1. Len(stack[t]) = 1 \/ phase = "alive"
    BY DEF Retiring, Changed
  <2>. QED
    BY <1>1, <2>1 DEF Retiring, Changed, Others, CallPlaces
<1>4. OneDestructor'
  <2>1. \A u \in Threads : u # t => (At(u, "destroy")' <=> At(u, "destroy"))
    BY DEF At, Top, Changed, Others
  <2>2. ~At(t, "destroy")'
    BY DEF At, Top, Changed
  <2>. QED
    BY <2>1, <2>2 DEF OneDestructor
<1>5. Retired'
  <2>. SUFFICES ASSUME phase = "gone" PROVE EventsListEmpty'
    BY DEF Retired
  <2>1. \A u \in Threads : \A i \in 1..Len(stack'[u]) :
          stack'[u][i] = stack[u][i] \/ stack'[u][i] = g
    <3>. SUFFICES ASSUME NEW u \in Threads, NEW i \in 1..Len(stack'[u])
                  PROVE  stack'[u][i] = stack[u][i] \/ stack'[u][i] = g
      OBVIOUS
    <3>1. i = 1 \/ i \in 2..Len(stack[u])
      BY <1>1
    <3>. QED
      BY <3>1 DEF Changed, Others
  <2>. QED
    BY <1>1, <2>1 DEF Retired, EventsListEmpty
<1>6. Here'
  BY DEF Here, At, Top, Changed, Others
<1>. QED
  BY <1>2, <1>3, <1>4, <1>5, <1>6

LEMMA KeptWhenPushed ==
  ASSUME SupportInv, Types', NEW t \in Threads, NEW f \in Frames, NEW g, Pushed(t, f, g),
         phase = "alive", phase' = "alive", UNCHANGED m_eventListenerList,
         f.at \notin {"destroy", "ready"},
         f.at \in CallPlaces => f.live,
         stack[t] # <<>> => /\ g.at \in {"handler", "direct", "post", "resent"}
                            /\ g.at \in CallPlaces => g.live
  PROVE  SupportInv'
<1>. USE DEF SupportInv
<1>1. \A u \in Threads : Len(stack[u]) \in Nat
  BY DEF Types
<1>2. StackShape'
  <2>1. SUFFICES ASSUME NEW i \in 1..Len(stack'[t])
                 PROVE  /\ i > 1 => stack'[t][i].at \in {"handler", "direct", "post", "resent"}
                        /\ stack'[t][i].at \in CallPlaces /\ ~stack'[t][i].live
                             => stack'[t][i].at = "called"
    BY DEF StackShape, Pushed, Others
  <2>2. i = 1 \/ (i = 2 /\ stack[t] # <<>>) \/ (i - 1 \in 2..Len(stack[t]) /\ (i - 1) + 1 = i)
    BY <1>1 DEF Pushed, Types
  <2>3. CASE i = 1
    BY <2>3 DEF Pushed
  <2>4. CASE i = 2 /\ stack[t] # <<>>
    BY <2>4 DEF Pushed
  <2>5. CASE i - 1 \in 2..Len(stack[t]) /\ (i - 1) + 1 = i
    <3>1. stack'[t][i] = stack[t][i - 1] /\ i - 1 \in 1..Len(stack[t]) /\ i - 1 > 1
      BY <1>1, <2>5 DEF Pushed
    <3>. QED
      BY <3>1 DEF StackShape
  <2>. QED
    BY <2>2, <2>3, <2>4, <2>5
<1>3. OneDestructor'
  <2>1. \A u \in Threads : u # t => (At(u, "destroy")' <=> At(u, "destroy"))
    BY DEF At, Top, Pushed, Others
  <2>2. ~At(t, "destroy")'
    BY <1>1 DEF At, Top, Pushed
  <2>. QED
    BY <2>1, <2>2 DEF OneDestructor
<1>4. Here'
  <2>1. \A u \in Threads : u # t => stack'[u] = stack[u]
    BY DEF Pushed, Others
  <2>2. ~At(t, "ready")'
    BY <1>1 DEF At, Top, Pushed
  <2>. QED
    BY <2>1, <2>2 DEF Here, At, Top
<1>. QED
  BY <1>2, <1>3, <1>4 DEF Retiring, Retired

LEMMA KeptWhenPopped ==
  ASSUME SupportInv, Types', NEW t \in Threads, Popped(t),
         UNCHANGED <<phase, m_eventListMutex, m_eventListenerList, queue, timed>>
  PROVE  SupportInv'
<1>. USE DEF SupportInv
<1>1. \A u \in Threads : Len(stack[u]) \in Nat
  BY DEF Types
<1>2. \A i \in 1..Len(stack'[t]) : i + 1 \in 1..Len(stack[t]) /\ stack'[t][i] = stack[t][i + 1]
  BY <1>1 DEF Popped
<1>3. StackShape'
  <2>. SUFFICES ASSUME NEW u \in Threads, NEW i \in 1..Len(stack'[u])
                PROVE  /\ i > 1 => stack'[u][i].at \in {"handler", "direct", "post", "resent"}
                       /\ stack'[u][i].at \in CallPlaces /\ ~stack'[u][i].live
                            => stack'[u][i].at = "called"
    BY DEF StackShape
  <2>1. CASE u = t
    <3>1. i + 1 \in 1..Len(stack[t]) /\ i + 1 > 1 /\ stack'[t][i] = stack[t][i + 1]
      BY <1>2, <2>1
    <3>. QED
      BY <2>1, <3>1 DEF StackShape
  <2>2. CASE u # t
    <3>1. stack'[u] = stack[u]
      BY <2>2 DEF Popped, Others
    <3>. QED
      BY <3>1 DEF StackShape
  <2>. QED
    BY <2>1, <2>2
<1>4. Retiring'
  <2>1. phase # "alive" => stack'[t] = <<>>
    <3>1. phase # "alive" => Len(stack'[t]) = 0
      BY DEF Retiring, Popped
    <3>2. stack'[t] \in Seq(Frames)
      BY DEF Types
    <3>. QED
      BY <3>1, <3>2
  <2>. QED
    BY <2>1 DEF Retiring, Popped, Others
<1>5. OneDestructor'
  <2>1. \A u \in Threads : u # t => (At(u, "destroy")' <=> At(u, "destroy"))
    BY DEF At, Top, Popped, Others
  <2>2. ASSUME At(t, "destroy")' PROVE FALSE
    <3>1. stack'[t] # <<>> /\ stack'[t][1].at = "destroy" /\ Len(stack'[t]) >= 1
      BY <2>2 DEF At, Top, Types
    <3>2. stack'[t][1] = stack[t][2] /\ 2 \in 1..Len(stack[t])
      BY <1>1, <3>1 DEF Popped
    <3>. QED
      BY <3>1, <3>2 DEF StackShape
  <2>. QED
    BY <2>1, <2>2 DEF OneDestructor
<1>6. Retired'
  BY <1>2, SMTT(30) DEF Retired, EventsListEmpty, Popped, Others
<1>7. Here'
  <2>1. \A u \in Threads : u # t => stack'[u] = stack[u]
    BY DEF Popped, Others
  <2>2. ASSUME At(t, "ready")' PROVE FALSE
    <3>1. stack'[t] # <<>> /\ stack'[t][1].at = "ready" /\ Len(stack'[t]) >= 1
      BY <2>2 DEF At, Top, Types
    <3>2. stack'[t][1] = stack[t][2] /\ 2 \in 1..Len(stack[t])
      BY <1>1, <3>1 DEF Popped
    <3>. QED
      BY <3>1, <3>2 DEF StackShape
  <2>. QED
    BY <2>1, <2>2 DEF Here, At, Top
<1>. QED
  BY <1>3, <1>4, <1>5, <1>6, <1>7

-------------------------------------------------------------------------------
(***************************************************************************)
(* The steps, by what they do to the stack of their thread.                *)
(***************************************************************************)

LEMMA SupportInit == Init => SupportInv
<1>. SUFFICES ASSUME Init PROVE SupportInv
  OBVIOUS
<1>1. \A S : <<>> \in Seq(S) /\ Len(<<>>) = 0
  OBVIOUS
<1>2. Types
  <2>1. queue \in [Threads -> Seq(Calls)] /\ timed \in [Threads -> SUBSET Calls]
    BY <1>1 DEF Init
  <2>2. stack \in [Threads -> Seq(Frames)] /\ barrier \in [Threads -> SUBSET Listeners]
    BY <1>1 DEF Init
  <2>3. emitted \in Seq(Modes) /\ Len(emitted) <= MaxEmits /\ switches \in 0..MaxSwitches
    BY <1>1, EventSupportAssumption DEF Init
  <2>4. log \in [Listeners -> Seq(EventNumbers)]
    BY <1>1 DEF Init
  <2>. QED
    BY <2>1, <2>2, <2>3, <2>4 DEF Init, Types
<1>. QED
  BY <1>2 DEF Init, SupportInv, StackShape, Retiring, OneDestructor, Retired, Here, At

\* Operations that change the list of listeners.
LEMMA ListStepsKeep ==
  ASSUME SupportInv, NEW t \in Threads,
         \/ \E l \in Listeners : AddListener(t, l) \/ RemoveListener(t, l)
         \/ \E some \in SUBSET Listeners, thread \in Threads : SwitchListeners(t, some, thread)
  PROVE  SupportInv'
<1>1. m_eventListenerList' \in [Listeners -> Threads \cup {NoOne}] /\ switches' \in 0..MaxSwitches
  <2>1. ASSUME NEW l \in Listeners, AddListener(t, l) \/ RemoveListener(t, l)
        PROVE  /\ m_eventListenerList' \in [Listeners -> Threads \cup {NoOne}]
               /\ switches' \in 0..MaxSwitches
    BY <2>1 DEF SupportInv, Types, AddListener, RemoveListener, countVars
  <2>2. ASSUME NEW some \in SUBSET Listeners, NEW thread \in Threads,
               SwitchListeners(t, some, thread)
        PROVE  /\ m_eventListenerList' \in [Listeners -> Threads \cup {NoOne}]
               /\ switches' \in 0..MaxSwitches
    <3>1. \A l \in Listeners :
            (IF l \in some THEN thread ELSE m_eventListenerList[l]) \in Threads \cup {NoOne}
      BY DEF SupportInv, Types
    <3>2. switches + 1 \in 0..MaxSwitches
      BY <2>2, EventSupportAssumption DEF SupportInv, Types, SwitchListeners
    <3>. QED
      BY <2>2, <3>1, <3>2 DEF SwitchListeners
  <2>. QED
    BY <2>1, <2>2
<1>2. Types'
  BY <1>1 DEF SupportInv, Types, AddListener, RemoveListener, SwitchListeners, callVars, countVars
<1>3. Here'
  <2>. SUFFICES ASSUME ~Foreign, phase = "alive", NEW u \in Threads, At(u, "ready")
                PROVE  m_eventListenerList'[Top(u).listener] = u
    BY DEF Here, At, Top, AddListener, RemoveListener, SwitchListeners, callVars
  <2>1. u # t
    BY DEF AddListener, RemoveListener, SwitchListeners, InClientCode, At
  <2>2. Top(u).listener \in Listeners /\ m_eventListenerList[Top(u).listener] = u
    BY TopIsFrame, PlaceTellsFrame DEF SupportInv, Here, At, CallPlaces, CallFrames
  <2>. QED
    BY <2>1, <2>2, EventSupportAssumption
       DEF AddListener, RemoveListener, SwitchListeners, MayChange, Registered, SupportInv, Types
<1>. QED
  BY <1>2, <1>3, KeptWithStack
     DEF SupportInv, Retired, EventsListEmpty, AddListener, RemoveListener, SwitchListeners, InClientCode, callVars, countVars

LEMMA EmitEventKeeps ==
  ASSUME SupportInv, NEW t \in Threads, NEW mode \in Modes, EmitEvent(t, mode)
  PROVE  SupportInv'
<1>. USE DEF SupportInv
<1>. DEFINE f == EmitFrame(Len(emitted'), mode)
<1>1. emitted' \in Seq(Modes) /\ Len(emitted') \in EventNumbers
  BY EventSupportAssumption DEF EmitEvent, Types, EventNumbers
<1>2. f \in Frames
  BY <1>1, EventSupportAssumption DEF EmitFrame, Frames, EmitFrames, EmitPlaces, AllModes
<1>3. stack' \in [Threads -> Seq(Frames)] /\ Pushed(t, f, stack[t][1])
  BY <1>2, EnterPushes DEF EmitEvent
<1>4. Types'
  BY <1>1, <1>3 DEF EmitEvent, Types, listVars, callVars, EventNumbers
<1>5. stack[t] # <<>> => stack[t][1].at \in {"handler", "direct"} /\ 1 \in 1..Len(stack[t])
  BY TopIsFrame DEF EmitEvent, InClientCode, At
<1>6. stack[t] # <<>> /\ stack[t][1].at \in CallPlaces => stack[t][1].live
  BY <1>5 DEF StackShape, CallPlaces
<1>. QED
  BY <1>2, <1>3, <1>4, <1>5, <1>6, KeptWhenPushed
     DEF EmitEvent, InClientCode, EmitFrame, CallPlaces, listVars

LEMMA LockListenersKeeps ==
  ASSUME SupportInv, NEW t \in Threads, LockListeners(t)
  PROVE  SupportInv'
<1>. USE DEF SupportInv
<1>. DEFINE g == [stack[t][1] EXCEPT !.at = "post", !.todo = Registered]
<1>1. stack[t] # <<>> /\ Top(t) = stack[t][1] /\ stack[t][1].at = "lock" /\ stack[t][1] \in EmitFrames
  BY TopIsFrame, PlaceTellsFrame DEF LockListeners, At, EmitPlaces
<1>2. g \in Frames /\ g.at = "post"
  BY <1>1 DEF Registered, Frames, EmitFrames, EmitPlaces
<1>3. stack' = [stack EXCEPT ![t] = [stack[t] EXCEPT ![1] = g]]
  BY <1>1 DEF LockListeners
<1>5. stack' \in [Threads -> Seq(Frames)] /\ Changed(t, g)
  BY <1>1, <1>2, <1>3, ReplacementChanges
<1>6. Types'
  BY <1>5 DEF LockListeners, Types, callVars, countVars
<1>7. phase = "alive"
  BY <1>1, TopIsFrame DEF Retiring, Types
<1>. QED
  BY <1>2, <1>5, <1>6, <1>7, KeptWhenChanged DEF LockListeners, CallPlaces

LEMMA CallDirectlyKeeps ==
  ASSUME SupportInv, NEW t \in Threads, CallDirectly(t)
  PROVE  SupportInv'
<1>. USE DEF SupportInv
<1>1. PICK l \in Top(t).todo :
        /\ stack' = [stack EXCEPT ![t] = <<[at |-> "direct", listener |-> l]>> \o
                       <<[Top(t) EXCEPT !.todo = @ \ {l}]>> \o Tail(@)]
        /\ log' = [log EXCEPT ![l] = Append(@, Top(t).event)]
  BY DEF CallDirectly
<1>. DEFINE f == [at |-> "direct", listener |-> l]
            g == [Top(t) EXCEPT !.todo = @ \ {l}]
<1>2. stack[t] # <<>> /\ Top(t) = stack[t][1] /\ Top(t).at = "post" /\ Top(t) \in EmitFrames
  BY TopIsFrame, PlaceTellsFrame DEF CallDirectly, At, EmitPlaces
<1>3. l \in Listeners /\ f \in Frames /\ g \in Frames /\ g.at = "post"
  BY <1>1, <1>2 DEF Frames, EmitFrames
<1>4. stack' \in [Threads -> Seq(Frames)] /\ Pushed(t, f, g)
  BY <1>1, <1>2, <1>3, CallPushes
<1>5. Types'
  <2>1. Top(t).event \in EventNumbers
    BY <1>2 DEF EmitFrames
  <2>2. Append(log[l], Top(t).event) \in Seq(EventNumbers)
    BY <1>3, <2>1 DEF Types
  <2>3. log' \in [Listeners -> Seq(EventNumbers)]
    BY <1>1, <2>2 DEF Types
  <2>. QED
    BY <1>4, <2>3 DEF CallDirectly, Types, listVars, callVars
<1>6. phase = "alive"
  BY <1>2 DEF Retiring
<1>. QED
  BY <1>3, <1>4, <1>5, <1>6, KeptWhenPushed DEF CallDirectly, CallPlaces, listVars

LEMMA AddEventCallKeeps ==
  ASSUME SupportInv, NEW t \in Threads, AddEventCall(t)
  PROVE  SupportInv'
<1>. USE DEF SupportInv
<1>1. PICK l \in Top(t).todo :
        LET target == m_eventListenerList[l] IN
        /\ IF Top(t).mode = "Deffered"
           THEN /\ timed' = [timed EXCEPT ![target] = @ \cup {NewCall(t, l)}]
                /\ UNCHANGED queue
           ELSE /\ queue' = [queue EXCEPT ![target] = Append(@, NewCall(t, l))]
                /\ UNCHANGED timed
        /\ barrier' = IF Top(t).mode = "Blocking"
                      THEN [barrier EXCEPT ![t] = @ \cup {l}]
                      ELSE barrier
        /\ stack' = [stack EXCEPT ![t][1].todo = @ \ {l}]
  BY DEF AddEventCall
<1>. DEFINE g == [stack[t][1] EXCEPT !.todo = @ \ {l}]
<1>2. stack[t] # <<>> /\ Top(t) = stack[t][1] /\ Top(t).at = "post" /\ Top(t) \in EmitFrames
  BY TopIsFrame, PlaceTellsFrame DEF AddEventCall, At, EmitPlaces
<1>3. l \in Listeners /\ g \in Frames /\ g.at = "post" /\ Top(t).event \in EventNumbers
  BY <1>1, <1>2 DEF Frames, EmitFrames
<1>4. NewCall(t, l) \in Calls
  BY <1>3 DEF NewCall, Calls
<1>5. /\ queue' \in [Threads -> Seq(Calls)]
      /\ timed' \in [Threads -> SUBSET Calls]
      /\ barrier' \in [Threads -> SUBSET Listeners]
  <2>1. ASSUME NEW u \in Threads PROVE Append(queue[u], NewCall(t, l)) \in Seq(Calls)
    BY <1>4 DEF Types
  <2>. DEFINE target == m_eventListenerList[l]
  <2>2. queue' = queue \/ queue' = [queue EXCEPT ![target] = Append(@, NewCall(t, l))]
    BY <1>1
  <2>3. timed' = timed \/ timed' = [timed EXCEPT ![target] = @ \cup {NewCall(t, l)}]
    BY <1>1
  <2>4. queue' \in [Threads -> Seq(Calls)]
    <3>1. CASE target \in Threads
      BY <2>1, <2>2, <3>1 DEF Types
    <3>2. CASE target \notin Threads
      BY <2>2, <3>2 DEF Types
    <3>. QED
      BY <3>1, <3>2
  <2>5. timed' \in [Threads -> SUBSET Calls]
    <3>1. CASE target \in Threads
      <4>1. timed[target] \cup {NewCall(t, l)} \in SUBSET Calls
        BY <1>4, <3>1 DEF Types
      <4>. QED
        BY <2>3, <4>1 DEF Types
    <3>2. CASE target \notin Threads
      BY <2>3, <3>2 DEF Types
    <3>. QED
      BY <3>1, <3>2
  <2>6. barrier' \in [Threads -> SUBSET Listeners]
    BY <1>1, <1>3 DEF Types
  <2>. QED
    BY <2>4, <2>5, <2>6
<1>6. stack' = [stack EXCEPT ![t] = [stack[t] EXCEPT ![1] = g]]
  BY <1>1, <1>2
<1>8. stack' \in [Threads -> Seq(Frames)] /\ Changed(t, g)
  BY <1>2, <1>3, <1>6, ReplacementChanges
<1>9. Types'
  BY <1>5, <1>8 DEF AddEventCall, Types, listVars, countVars
<1>10. phase = "alive"
  BY <1>2 DEF Retiring
<1>. QED
  BY <1>3, <1>8, <1>9, <1>10, KeptWhenChanged DEF AddEventCall, CallPlaces, listVars

\* The ends of calls: the frame is left.
LEMMA LeavingKeeps ==
  ASSUME SupportInv, NEW t \in Threads,
         \/ AwaitBarrier(t) \/ EndDirect(t) \/ RemoveEventCall(t)
         \/ EndPosting(t) /\ Top(t).mode # "Blocking"
         \/ DestroyData(t) /\ ~Top(t).live
  PROVE  SupportInv'
<1>. USE DEF SupportInv
<1>1. stack[t] # <<>> /\ Leave(t)
  BY DEF AwaitBarrier, EndDirect, RemoveEventCall, EndPosting, DestroyData, At
<1>2. stack' \in [Threads -> Seq(Frames)] /\ Popped(t)
  BY <1>1, LeavePops
<1>3. UNCHANGED <<phase, m_eventListMutex, m_eventListenerList, queue, timed>>
  BY DEF AwaitBarrier, EndDirect, RemoveEventCall, EndPosting, DestroyData, listVars, callVars
<1>4. Types'
  BY <1>2, <1>3 DEF AwaitBarrier, EndDirect, RemoveEventCall, EndPosting, DestroyData, Types,
                    listVars, countVars
<1>. QED
  BY <1>2, <1>3, <1>4, KeptWhenPopped

\* A call goes on to its next place.
LEMMA GoingOnKeeps ==
  ASSUME SupportInv, NEW t \in Threads, NEW where, stack[t] # <<>>, Goto(t, where),
         \/ Top(t).at = "post" /\ where = "barrier"
         \/ Top(t).at \in CallPlaces /\ Top(t).live /\ where \in CallPlaces \ {"resent"},
         phase # "gone",
         where = "ready" => m_eventListenerList[Top(t).listener] = t,
         stack' \in [Threads -> Seq(Frames)] => Types',
         UNCHANGED <<phase, m_eventListMutex, m_eventListenerList, queue, timed>>
  PROVE  SupportInv'
<1>. USE DEF SupportInv
<1>. DEFINE g == [Top(t) EXCEPT !.at = where]
<1>1. stack' \in [Threads -> Seq(Frames)] /\ Changed(t, g)
  BY GotoChanges DEF CallPlaces, EmitPlaces
<1>2. Top(t) = stack[t][1] /\ Top(t) \in Frames
  BY TopIsFrame
<1>3. g \in Frames
  BY <1>2, PlaceTellsFrame DEF Frames, CallFrames, EmitFrames, CallPlaces, EmitPlaces
<1>4. g.at = where
  BY <1>2 DEF Frames, CallFrames, EmitFrames
<1>5. Top(t).at \in CallPlaces => g.live = Top(t).live /\ g.listener = Top(t).listener
  BY <1>2, PlaceTellsFrame DEF CallFrames
<1>6. Top(t).at = "post" => phase = "alive"
  BY <1>2 DEF Retiring
<1>. QED
  BY <1>1, <1>3, <1>4, <1>5, <1>6, KeptWhenChanged DEF CallPlaces

\* Whoever has a call in its stack that is live finds the object there.
LEMMA LiveCallKeepsObject ==
  ASSUME SupportInv, NEW t \in Threads, stack[t] # <<>>, Top(t).at \in CallPlaces \ {"called"}
  PROVE  phase # "gone" /\ Top(t).live
<1>1. Top(t) = stack[t][1] /\ 1 \in 1..Len(stack[t]) /\ IsCall(stack[t][1])
  BY TopIsFrame, PlaceTellsFrame DEF SupportInv
<1>2. Top(t).live
  BY <1>1 DEF SupportInv, StackShape
<1>. QED
  BY <1>1, <1>2 DEF SupportInv, Retired, EventsListEmpty

LEMMA EndPostingKeeps ==
  ASSUME SupportInv, NEW t \in Threads, EndPosting(t)
  PROVE  SupportInv'
<1>1. CASE Top(t).mode # "Blocking"
  BY <1>1, LeavingKeeps
<1>2. CASE Top(t).mode = "Blocking"
  <2>1. stack[t] # <<>> /\ Top(t).at = "post" /\ Goto(t, "barrier")
    BY <1>2 DEF EndPosting, At
  <2>2. phase # "gone"
    BY <2>1, TopIsFrame DEF SupportInv, Retiring
  <2>3. stack' \in [Threads -> Seq(Frames)] => Types'
    BY DEF EndPosting, SupportInv, Types, callVars, countVars
  <2>. QED
    BY <2>1, <2>2, <2>3, GoingOnKeeps DEF EndPosting, callVars
<1>. QED
  BY <1>1, <1>2

LEMMA SignalIsTyped ==
  ASSUME Types, NEW t \in Threads, Signal(t)
  PROVE  barrier' \in [Threads -> SUBSET Listeners]
<1>1. CASE Top(t).sync \in Threads
  BY <1>1 DEF Signal, Types
<1>2. CASE Top(t).sync \notin Threads
  BY <1>2 DEF Signal, Types
<1>. QED
  BY <1>1, <1>2

LEMMA EndResentKeeps ==
  ASSUME SupportInv, NEW t \in Threads, EndResent(t)
  PROVE  SupportInv'
<1>1. stack[t] # <<>> /\ Top(t).at = "resent" /\ Goto(t, "called")
  BY DEF EndResent, At
<1>2. phase # "gone" /\ Top(t).live
  BY <1>1, LiveCallKeepsObject DEF CallPlaces
<1>3. stack' \in [Threads -> Seq(Frames)] => Types'
  BY DEF EndResent, SupportInv, Types, listVars, callVars, countVars
<1>. QED
  BY <1>1, <1>2, <1>3, GoingOnKeeps DEF EndResent, CallPlaces, listVars, callVars

LEMMA GuardedEventCallKeeps ==
  ASSUME SupportInv, NEW t \in Threads, GuardedEventCall(t)
  PROVE  SupportInv'
<1>1. stack[t] # <<>> /\ Top(t).at = "ready" /\ Goto(t, "handler")
  BY DEF GuardedEventCall, At
<1>2. phase # "gone" /\ Top(t).live
  BY <1>1, LiveCallKeepsObject DEF CallPlaces
<1>3. log' \in [Listeners -> Seq(EventNumbers)]
  <2>1. Top(t) \in CallFrames
    BY <1>1, TopIsFrame, PlaceTellsFrame DEF SupportInv, CallPlaces
  <2>2. Append(log[Top(t).listener], Top(t).event) \in Seq(EventNumbers)
    BY <2>1 DEF SupportInv, Types, CallFrames
  <2>. QED
    BY <2>1, <2>2 DEF GuardedEventCall, SupportInv, Types, CallFrames
<1>4. stack' \in [Threads -> Seq(Frames)] => Types'
  BY <1>3 DEF GuardedEventCall, SupportInv, Types, listVars, callVars
<1>. QED
  BY <1>1, <1>2, <1>4, GoingOnKeeps DEF GuardedEventCall, CallPlaces, listVars, callVars

LEMMA EndHandlerKeeps ==
  ASSUME SupportInv, NEW t \in Threads, EndHandler(t)
  PROVE  SupportInv'
<1>1. stack[t] # <<>> /\ Top(t).at = "handler" /\ Goto(t, "called")
  BY DEF EndHandler, At
<1>2. phase # "gone" /\ Top(t).live
  BY <1>1, LiveCallKeepsObject DEF CallPlaces
<1>3. stack' \in [Threads -> Seq(Frames)] => Types'
  BY SignalIsTyped DEF EndHandler, SupportInv, Types, listVars, callVars, countVars
<1>. QED
  BY <1>1, <1>2, <1>3, GoingOnKeeps DEF EndHandler, CallPlaces, listVars, callVars

LEMMA DestroyDataKeeps ==
  ASSUME SupportInv, NEW t \in Threads, DestroyData(t)
  PROVE  SupportInv'
<1>1. CASE ~Top(t).live
  BY <1>1, LeavingKeeps
<1>2. CASE Top(t).live
  <2>1. stack[t] # <<>> /\ Top(t).at = "called" /\ Goto(t, "remove")
    BY <1>2 DEF DestroyData, At
  <2>2. phase # "gone"
    <3>1. Top(t) = stack[t][1] /\ 1 \in 1..Len(stack[t]) /\ IsCall(stack[t][1])
      BY <2>1, TopIsFrame, PlaceTellsFrame DEF SupportInv, CallPlaces
    <3>. QED
      BY <1>2, <3>1 DEF SupportInv, Retired, EventsListEmpty
  <2>3. stack' \in [Threads -> Seq(Frames)] => Types'
    BY DEF DestroyData, SupportInv, Types, listVars, callVars, countVars
  <2>. QED
    BY <1>2, <2>1, <2>2, <2>3, GoingOnKeeps DEF DestroyData, CallPlaces, listVars, callVars
<1>. QED
  BY <1>1, <1>2

\* A call that was disabled is dropped; another is made.
LEMMA TakeCallKeeps ==
  ASSUME SupportInv, NEW t \in Threads, TakeCall(t)
  PROVE  SupportInv'
<1>. USE DEF SupportInv
<1>. DEFINE call == Head(queue[t])
<1>1. queue[t] \in Seq(Calls) /\ queue[t] # <<>> /\ stack[t] = <<>>
  BY DEF TakeCall, Types
<1>2. call \in Calls /\ call = queue[t][1] /\ Tail(queue[t]) \in Seq(Calls)
  BY <1>1
<1>3. queue' \in [Threads -> Seq(Calls)]
  BY <1>2 DEF TakeCall, Types
<1>4. CASE ~call.live
  <2>1. Types' /\ UNCHANGED <<stack, phase, m_eventListMutex, m_eventListenerList, timed>>
    BY <1>3, <1>4 DEF TakeCall, Types, listVars, countVars
  <2>2. ToSet(queue'[t]) \subseteq ToSet(queue[t]) /\ \A u \in Threads : u # t => queue'[u] = queue[u]
    BY <1>1 DEF TakeCall, Types, ToSet
  <2>. QED
    BY <2>1, <2>2, KeptWithStack DEF Retired, EventsListEmpty
<1>5. CASE call.live
  <2>. DEFINE f == CallFrame(call)
  <2>1. f \in CallFrames /\ f.at = "check" /\ f.live
    BY <1>2, <1>5 DEF Calls, CallFrames, CallPlaces, CallFrame
  <2>2. f \in Frames
    BY <2>1 DEF Frames
  <2>3. stack' \in [Threads -> Seq(Frames)] /\ Pushed(t, f, stack[t][1])
    BY <1>5, <2>2, EnterPushes DEF TakeCall
  <2>4. Types'
    BY <1>3, <2>3 DEF TakeCall, Types, listVars, countVars
  <2>5. phase # "gone"
    <3>1. call \in ToSet(queue[t])
      BY <1>1 DEF ToSet
    <3>. QED
      BY <1>5, <3>1 DEF Retired, EventsListEmpty
  <2>6. CASE phase = "alive"
    BY <1>1, <2>1, <2>2, <2>3, <2>4, <2>6, KeptWhenPushed DEF TakeCall, listVars
  <2>7. CASE phase = "dying"
    <3>1. phase' = "dying" /\ UNCHANGED <<m_eventListMutex, m_eventListenerList>>
      BY <2>7 DEF TakeCall, listVars
    <3>2. Len(stack'[t]) = 1 /\ stack'[t][1] = f /\ Others(t)
      BY <1>1, <2>3 DEF Pushed
    <3>3. StackShape'
      BY <2>1, <3>2 DEF StackShape, Others
    <3>4. Retiring'
      BY <2>1, <2>7, <3>1, <3>2 DEF Retiring, Others
    <3>5. OneDestructor'
      <4>1. \A u \in Threads : u # t => (At(u, "destroy")' <=> At(u, "destroy"))
        BY <3>2 DEF At, Top, Others
      <4>2. ~At(t, "destroy")'
        BY <2>1, <3>2 DEF At, Top
      <4>. QED
        BY <3>1, <4>1, <4>2 DEF OneDestructor
    <3>. QED
      BY <2>4, <3>1, <3>3, <3>4, <3>5 DEF Retired, Here
  <2>. QED
    BY <2>5, <2>6, <2>7 DEF Types
<1>. QED
  BY <1>4, <1>5

LEMMA CallIsDueKeeps ==
  ASSUME SupportInv, NEW t \in Threads, CallIsDue(t)
  PROVE  SupportInv'
<1>. USE DEF SupportInv
<1>1. PICK call \in timed[t] : /\ timed' = [timed EXCEPT ![t] = @ \ {call}]
                               /\ queue' = [queue EXCEPT ![t] = Append(@, call)]
  BY DEF CallIsDue
<1>2. call \in Calls /\ queue[t] \in Seq(Calls) /\ Append(queue[t], call) \in Seq(Calls)
  BY DEF Types
<1>3. timed' \in [Threads -> SUBSET Calls] /\ queue' \in [Threads -> Seq(Calls)]
  BY <1>1, <1>2 DEF Types
<1>4. Types' /\ UNCHANGED <<stack, phase, m_eventListMutex, m_eventListenerList>>
  BY <1>3 DEF CallIsDue, Types, listVars, countVars
<1>5. ToSet(Append(queue[t], call)) \subseteq ToSet(queue[t]) \cup {call}
  <2>1. \A i \in 1..(Len(queue[t]) + 1) :
          \/ Append(queue[t], call)[i] = call
          \/ i \in 1..Len(queue[t]) /\ Append(queue[t], call)[i] = queue[t][i]
    <3>. SUFFICES ASSUME NEW i \in 1..(Len(queue[t]) + 1)
                  PROVE  \/ Append(queue[t], call)[i] = call
                         \/ i \in 1..Len(queue[t]) /\ Append(queue[t], call)[i] = queue[t][i]
      OBVIOUS
    <3>1. Len(queue[t]) \in Nat /\ (i = Len(queue[t]) + 1 \/ i \in 1..Len(queue[t]))
      BY <1>2
    <3>. QED
      BY <1>2, <3>1
  <2>2. DOMAIN Append(queue[t], call) = 1..(Len(queue[t]) + 1) /\ DOMAIN queue[t] = 1..Len(queue[t])
    BY <1>2
  <2>. QED
    BY <2>1, <2>2 DEF ToSet
<1>6. \A u \in Threads :
        ToSet(queue'[u]) \cup timed'[u] \subseteq ToSet(queue[u]) \cup timed[u]
  BY <1>1, <1>5 DEF Types
<1>. QED
  BY <1>4, <1>6, KeptWithStack DEF Retired, EventsListEmpty

\* The call looks for its listener; the object is there while it does.
LEMMA ReceiveKeeps ==
  ASSUME SupportInv, NEW t \in Threads, ReceiveAbstractEventCall(t)
  PROVE  SupportInv'
<1>. USE DEF SupportInv
<1>. DEFINE target == m_eventListenerList[Top(t).listener]
            f == EmitFrame(Top(t).event, "Queued")
            g == [Top(t) EXCEPT !.at = "resent"]
<1>1. stack[t] # <<>> /\ Top(t).at = "check"
  BY DEF ReceiveAbstractEventCall, ReceiveWith, At
<1>2. Top(t) = stack[t][1] /\ Top(t) \in CallFrames /\ phase # "gone" /\ Top(t).live
  BY <1>1, TopIsFrame, PlaceTellsFrame, LiveCallKeepsObject DEF CallPlaces
<1>3. \/ Goto(t, "called") /\ (barrier' = barrier \/ Signal(t))
      \/ Goto(t, "ready") /\ barrier' = barrier /\ target = t
      \/ /\ target \in Threads
         /\ barrier' = barrier
         /\ stack' = [stack EXCEPT ![t] = <<f>> \o <<g>> \o Tail(@)]
  BY DEF ReceiveAbstractEventCall, ReceiveWith
<1>4. UNCHANGED <<m_eventListenerList, m_listenerDelegateMutex, m_eventListMutex, queue, timed,
                  phase, emitted, switches, log>>
  BY DEF ReceiveAbstractEventCall, ReceiveWith, listVars, callVars, countVars
<1>5. barrier' \in [Threads -> SUBSET Listeners]
  BY <1>3, SignalIsTyped DEF Types
<1>6. stack' \in [Threads -> Seq(Frames)] => Types'
  BY <1>4, <1>5 DEF Types
<1>7. CASE Goto(t, "called") \/ (Goto(t, "ready") /\ target = t)
  BY <1>1, <1>2, <1>4, <1>6, <1>7, GoingOnKeeps DEF CallPlaces
<1>8. CASE target \in Threads /\ stack' = [stack EXCEPT ![t] = <<f>> \o <<g>> \o Tail(@)]
  <2>1. f \in Frames /\ f.at = "lock"
    BY <1>2 DEF EmitFrame, Frames, EmitFrames, CallFrames, EmitPlaces, AllModes
  <2>2. g \in CallFrames /\ g.at = "resent" /\ g.live
    BY <1>2 DEF CallFrames, CallPlaces
  <2>3. stack' \in [Threads -> Seq(Frames)] /\ Pushed(t, f, g)
    BY <1>1, <1>8, <2>1, <2>2, CallPushes DEF Frames
  <2>4. phase = "alive"
    BY <1>2, <1>8, EventSupportAssumption DEF Retiring, CallFrames
  <2>. QED
    BY <1>4, <1>6, <2>1, <2>2, <2>3, <2>4, KeptWhenPushed DEF CallPlaces
<1>9. \/ Goto(t, "called") \/ (Goto(t, "ready") /\ target = t)
      \/ (target \in Threads /\ stack' = [stack EXCEPT ![t] = <<f>> \o <<g>> \o Tail(@)])
  BY <1>3
<1>. QED
  BY <1>7, <1>8, <1>9

-------------------------------------------------------------------------------
(***************************************************************************)
(* The destructor.                                                         *)
(***************************************************************************)

LEMMA DestroyKeeps ==
  ASSUME SupportInv, NEW t \in Threads, Destroy(t)
  PROVE  SupportInv'
<1>. USE DEF SupportInv
<1>. DEFINE f == [at |-> "destroy"]
<1>1. f \in Frames /\ stack[t] = <<>>
  BY DEF Destroy, Frames
<1>2. stack' \in [Threads -> Seq(Frames)] /\ Pushed(t, f, stack[t][1])
  BY <1>1, EnterPushes DEF Destroy
<1>3. Len(stack'[t]) = 1 /\ stack'[t][1] = f /\ Others(t)
  BY <1>1, <1>2 DEF Pushed
<1>4. Types'
  BY <1>2 DEF Destroy, Types, callVars, countVars
<1>5. StackShape'
  BY <1>3 DEF StackShape, Others, CallPlaces
<1>6. Retiring'
  <2>1. \A u \in Threads : u # t =>
          \/ stack[u] = <<>>
          \/ Len(stack[u]) = 1 /\ stack[u][1].at \in {"check", "ready", "called", "remove"}
    <3>. SUFFICES ASSUME NEW u \in Threads, stack[u] # <<>>
                  PROVE  Len(stack[u]) = 1 /\ stack[u][1].at \in {"check", "ready", "called", "remove"}
      OBVIOUS
    <3>1. \E where \in {"check", "ready", "called", "remove"} : At(u, where) /\ Len(stack[u]) = 1
      BY DEF Destroy
    <3>2. Top(u) = stack[u][1]
      BY TopIsFrame
    <3>. QED
      BY <3>1, <3>2 DEF At
  <2>. QED
    BY <1>3, <2>1 DEF Retiring, Others, Destroy
<1>7. OneDestructor'
  <2>1. \A u \in Threads : u # t => ~At(u, "destroy")
    BY DEF OneDestructor, Destroy
  <2>2. \A u \in Threads : u # t => ~At(u, "destroy")'
    BY <1>3, <2>1 DEF At, Top, Others
  <2>. QED
    BY <2>2 DEF OneDestructor, Destroy
<1>8. Retired' /\ Here'
  BY DEF Retired, Here, Destroy
<1>. QED
  BY <1>4, <1>5, <1>6, <1>7, <1>8

LEMMA DisableQueuedKeeps ==
  ASSUME SupportInv, NEW t \in Threads, DisableQueued(t)
  PROVE  SupportInv'
<1>. USE DEF SupportInv
<1>1. \A call \in Calls : Disabled(call) \in Calls /\ ~Disabled(call).live
  BY DEF Calls, Disabled
<1>2. \A u \in Threads : queue[u] \in Seq(Calls) /\ timed[u] \subseteq Calls
  BY DEF Types
<1>3. \A u \in Threads : \A i \in 1..Len(queue[u]) : queue[u][i] \in Calls
  BY <1>2
<1>4. \A u \in Threads : queue'[u] = [i \in 1..Len(queue[u]) |-> Disabled(queue[u][i])]
  BY DEF DisableQueued
<1>5. ASSUME NEW u \in Threads
      PROVE  /\ queue'[u] \in Seq(Calls)
             /\ DOMAIN queue'[u] = 1..Len(queue[u])
             /\ \A i \in 1..Len(queue[u]) : queue'[u][i] = Disabled(queue[u][i])
  <2>1. Len(queue[u]) \in Nat /\ \A i \in 1..Len(queue[u]) : Disabled(queue[u][i]) \in Calls
    BY <1>1, <1>2, <1>3
  <2>. DEFINE k == Len(queue[u])
              n == [i \in 1..k |-> Disabled(queue[u][i])]
  <2>2. k \in Nat /\ n \in [1..k -> Calls]
    BY <2>1
  <2>3. n \in Seq(Calls)
    <3>. HIDE DEF k, n
    <3>. QED
      BY <2>2
  <2>. QED
    BY <1>4, <2>3
<1>6. \A u \in Threads : timed'[u] = {Disabled(call) : call \in timed[u]}
  BY DEF DisableQueued
<1>7. queue' \in [Threads -> Seq(Calls)] /\ timed' \in [Threads -> SUBSET Calls]
  BY <1>1, <1>2, <1>5, <1>6 DEF DisableQueued
<1>8. Types'
  BY <1>7 DEF DisableQueued, Types, listVars, countVars
<1>9. \A u \in Threads : \A call \in ToSet(queue'[u]) \cup timed'[u] : ~call.live
  <2>1. ASSUME NEW u \in Threads, NEW call \in ToSet(queue'[u]) PROVE ~call.live
    BY <1>1, <1>3, <1>5 DEF ToSet
  <2>2. ASSUME NEW u \in Threads, NEW call \in timed'[u] PROVE ~call.live
    BY <1>1, <1>2, <1>6
  <2>. QED
    BY <2>1, <2>2
<1>. QED
  BY <1>8, <1>9, KeptWithStack DEF DisableQueued, listVars

LEMMA DisableCalledKeeps ==
  ASSUME SupportInv, NEW t \in Threads, DisableCalled(t)
  PROVE  SupportInv'
<1>. USE DEF SupportInv
<1>1. PICK u \in Threads : /\ At(u, "called")
                           /\ Top(u).live
                           /\ stack' = [stack EXCEPT ![u][1].live = FALSE]
  BY DEF DisableCalled
<1>. DEFINE g == [stack[u][1] EXCEPT !.live = FALSE]
<1>2. stack[u] # <<>> /\ Top(u) = stack[u][1] /\ stack[u][1].at = "called" /\ stack[u][1] \in CallFrames
  BY <1>1, TopIsFrame, PlaceTellsFrame DEF At, CallPlaces
<1>3. g \in CallFrames /\ g.at = "called" /\ ~g.live
  BY <1>2 DEF CallFrames, CallPlaces
<1>4. g \in Frames
  BY <1>3 DEF Frames
<1>5. stack' = [stack EXCEPT ![u] = [stack[u] EXCEPT ![1] = g]]
  BY <1>1, <1>2
<1>6. stack' \in [Threads -> Seq(Frames)] /\ Changed(u, g)
  BY <1>2, <1>4, <1>5, ReplacementChanges
<1>7. Types'
  BY <1>6 DEF DisableCalled, Types, listVars, callVars, countVars
<1>. QED
  BY <1>3, <1>4, <1>6, <1>7, KeptWhenChanged DEF DisableCalled, CallPlaces, listVars, callVars

LEMMA EndDestroyKeeps ==
  ASSUME SupportInv, NEW t \in Threads, EndDestroy(t)
  PROVE  SupportInv'
<1>. USE DEF SupportInv
<1>1. stack[t] # <<>> /\ At(t, "destroy") /\ phase = "dying" /\ m_eventListMutex = t
  BY DEF EndDestroy, OneDestructor, At
<1>2. stack' \in [Threads -> Seq(Frames)] /\ Popped(t)
  BY <1>1, LeavePops DEF EndDestroy
<1>3. Types'
  BY <1>2 DEF EndDestroy, Types, listVars, callVars, countVars
<1>4. Others(t) /\ stack'[t] = <<>>
  <2>1. Len(stack'[t]) = 0 /\ stack'[t] \in Seq(Frames)
    BY <1>1, <1>2 DEF Retiring, Popped
  <2>. QED
    BY <1>2, <2>1 DEF Popped
<1>5. StackShape'
  BY <1>4 DEF StackShape, Others
<1>6. Retiring'
  BY <1>1, <1>4 DEF Retiring, Others, EndDestroy, listVars
<1>7. OneDestructor'
  <2>1. \A u \in Threads : u # t => ~At(u, "destroy")
    BY <1>1 DEF OneDestructor
  <2>. QED
    BY <1>4, <2>1 DEF OneDestructor, At, Top, Others
<1>8. Retired'
  BY <1>4 DEF Retired, EventsListEmpty, EndDestroy, callVars, Others
<1>9. Here'
  BY DEF Here, EndDestroy
<1>. QED
  BY <1>3, <1>5, <1>6, <1>7, <1>8, <1>9

LEMMA SupportNext == SupportInv /\ [Next]_vars => SupportInv'
<1>. SUFFICES ASSUME SupportInv, [Next]_vars PROVE SupportInv'
  OBVIOUS
<1>1. CASE UNCHANGED vars
  BY <1>1 DEF SupportInv, Types, StackShape, Retiring, OneDestructor, Retired, Here, EventsListEmpty,
              At, Top, vars, listVars, callVars, countVars
<1>2. ASSUME NEW t \in Threads, ClientStep(t) PROVE SupportInv'
  <2>1. Registered \in SUBSET Listeners /\ \A l \in Listeners : {l} \in SUBSET Listeners
    BY DEF Registered
  <2>. QED
    BY <1>2, <2>1, ListStepsKeep, EmitEventKeeps, DestroyKeeps
       DEF ClientStep, SwitchListenerToThread, SwitchAllListenersToThread
<1>3. ASSUME NEW t \in Threads, ObjectStep(t) PROVE SupportInv'
  BY <1>3, LockListenersKeeps, CallDirectlyKeeps, LeavingKeeps, AddEventCallKeeps,
     EndPostingKeeps, CallIsDueKeeps, TakeCallKeeps, ReceiveKeeps, EndResentKeeps,
     GuardedEventCallKeeps, EndHandlerKeeps, DestroyDataKeeps, DisableQueuedKeeps,
     DisableCalledKeeps, EndDestroyKeeps
     DEF ObjectStep
<1>. QED
  BY <1>1, <1>2, <1>3 DEF Next

\* ~EventSupport returns only when no thread is in the middle of the object's code
\* and every call that is left anywhere is disabled: no thread, queue or stack can
\* lead back into the destroyed object.
THEOREM DestroyedStaysUnused == Spec => []DestroyedIsUnused
<1>1. SupportInv => DestroyedIsUnused
  <2>. SUFFICES ASSUME SupportInv, phase = "gone",
                       NEW t \in Threads, NEW where \in {"check", "ready", "handler", "remove"},
                       At(t, where)
                PROVE  FALSE
    BY DEF DestroyedIsUnused, SupportInv, Retired
  <2>. QED
    BY LiveCallKeepsObject DEF At, CallPlaces
<1>. QED
  BY SupportInit, SupportNext, <1>1, PTL DEF Spec

\* The answer of the first half of ReceiveAbstractEventCall (event_support.h), used
\* after the mutex is left, is not stale: while listeners are taken away or switched
\* by their own threads only, no handler of a removed listener is called.
THEOREM AnswerIsNotStale ==
  ASSUME ~Foreign
  PROVE  Spec => []CalledWhileRegistered
<1>1. SupportInv => CalledWhileRegistered
  BY DEF SupportInv, Here, CalledWhileRegistered
<1>. QED
  BY SupportInit, SupportNext, <1>1, PTL DEF Spec

\* Whatever is emitted, registered, switched or destroyed (event_support.h), the
\* lists, locks, queues, barriers and calls keep their types.
THEOREM TypesAreKept == Spec => []TypeOK
<1>1. SupportInv => TypeOK
  <2>. SUFFICES ASSUME Types PROVE TypeOK
    BY DEF SupportInv
  <2>1. ASSUME NEW t \in Threads, NEW call \in ToSet(queue[t]) \cup timed[t]
        PROVE  call \in Calls
    BY DEF Types, ToSet
  <2>2. ASSUME NEW l \in Listeners PROVE ToSet(log[l]) \subseteq EventNumbers
    <3>1. log[l] \in Seq(EventNumbers)
      BY DEF Types
    <3>. QED
      BY <3>1 DEF ToSet
  <2>. QED
    BY <2>1, <2>2 DEF Types, TypeOK, Calls
<1>. QED
  BY SupportInit, SupportNext, <1>1, PTL DEF Spec

-------------------------------------------------------------------------------
(***************************************************************************)
(* The frames of a stack, counted from the outermost, so that those below  *)
(* the innermost keep their number whatever it does.                       *)
(***************************************************************************)

Depths(t) == 1..Len(stack[t])
Frame(t, k) == stack[t][Len(stack[t]) + 1 - k]

\* The frames are those there were, but for those of t at the depths K.
FramesStay(t, K) ==
  \A u \in Threads : \A k \in Depths(u)' :
    (u = t /\ k \in K) \/ (k \in Depths(u) /\ Frame(u, k)' = Frame(u, k))

\* The frames of the others, and those of t below depth n, stay.
StayBelow(t, n) ==
  \A u \in Threads : \A k \in Depths(u)' :
    u # t \/ k < n => k \in Depths(u) /\ Frame(u, k)' = Frame(u, k)

LEMMA DepthIsNatural ==
  ASSUME Types, NEW t \in Threads
  PROVE  /\ Len(stack[t]) \in Nat /\ stack[t] = <<>> <=> Len(stack[t]) = 0
         /\ \A k \in Depths(t) : Frame(t, k) \in Frames
         /\ stack[t] # <<>> => /\ Len(stack[t]) \in Depths(t)
                               /\ Frame(t, Len(stack[t])) = Top(t) /\ Top(t) \in Frames
<1>1. stack[t] \in Seq(Frames)
  BY DEF Types
<1>2. Len(stack[t]) \in Nat /\ stack[t] = <<>> <=> Len(stack[t]) = 0
  BY <1>1
<1>3. \A k \in Depths(t) : Frame(t, k) \in Frames
  BY <1>1, <1>2 DEF Depths, Frame
<1>4. stack[t] # <<>> => Len(stack[t]) \in Depths(t) /\ Len(stack[t]) + 1 - Len(stack[t]) = 1
  BY <1>2 DEF Depths
<1>5. stack[t] # <<>> => Top(t) = stack[t][1]
  BY TopIsFrame
<1>. QED
  BY <1>2, <1>3, <1>4, <1>5 DEF Frame

LEMMA FramesChanged ==
  ASSUME Types, Types', NEW t \in Threads, NEW g, Changed(t, g), NEW n, n = Len(stack[t])
  PROVE  /\ StayBelow(t, n) /\ Len(stack'[t]) = n
         /\ Frame(t, n)' = g /\ n \in Depths(t)
<1>1. /\ Len(stack[t]) \in Nat /\ Len(stack[t]) > 0 /\ Len(stack'[t]) = Len(stack[t])
      /\ stack'[t][1] = g /\ \A i \in 2..Len(stack[t]) : stack'[t][i] = stack[t][i]
  BY DepthIsNatural DEF Changed
<1>2. ASSUME NEW k \in Depths(t)', k < Len(stack[t])
      PROVE  k \in Depths(t) /\ Frame(t, k)' = Frame(t, k)
  <2>1. Len(stack[t]) + 1 - k \in 2..Len(stack[t])
    BY <1>1, <1>2 DEF Depths
  <2>. QED
    BY <1>1, <1>2, <2>1 DEF Depths, Frame
<1>3. \A u \in Threads : \A k \in Depths(u)' : u # t => k \in Depths(u) /\ Frame(u, k)' = Frame(u, k)
  BY DEF Changed, Others, Depths, Frame
<1>4. Len(stack'[t]) + 1 - n = 1
  BY <1>1
<1>. QED
  BY <1>1, <1>2, <1>3, <1>4 DEF StayBelow, Depths, Frame

LEMMA FramesPushed ==
  ASSUME Types, Types', NEW t \in Threads, NEW f, NEW g, Pushed(t, f, g),
         NEW n, n = Len(stack[t])
  PROVE  /\ StayBelow(t, n) /\ Len(stack'[t]) = n + 1 /\ n \in Nat
         /\ Frame(t, n + 1)' = f
         /\ stack[t] # <<>> => Frame(t, n)' = g
<1>1. /\ Len(stack[t]) \in Nat /\ Len(stack'[t]) = Len(stack[t]) + 1
      /\ stack'[t][1] = f /\ \A i \in 2..Len(stack[t]) : stack'[t][i + 1] = stack[t][i]
      /\ stack[t] # <<>> => stack'[t][2] = g
  BY DepthIsNatural DEF Pushed
<1>2. ASSUME NEW k \in Depths(t)', k < Len(stack[t])
      PROVE  k \in Depths(t) /\ Frame(t, k)' = Frame(t, k)
  <2>1. Len(stack[t]) + 1 - k \in 2..Len(stack[t])
        /\ Len(stack'[t]) + 1 - k = (Len(stack[t]) + 1 - k) + 1
    BY <1>1, <1>2 DEF Depths
  <2>2. stack'[t][(Len(stack[t]) + 1 - k) + 1] = stack[t][Len(stack[t]) + 1 - k]
    BY <1>1, <2>1
  <2>3. k \in Depths(t)
    BY <1>1, <1>2 DEF Depths
  <2>. QED
    BY <2>1, <2>2, <2>3 DEF Frame
<1>3. \A u \in Threads : \A k \in Depths(u)' : u # t => k \in Depths(u) /\ Frame(u, k)' = Frame(u, k)
  BY DEF Pushed, Others, Depths, Frame
<1>4. Len(stack'[t]) + 1 - (n + 1) = 1 /\ Len(stack'[t]) + 1 - n = 2
  BY <1>1
<1>. QED
  BY <1>1, <1>2, <1>3, <1>4 DEF StayBelow, Frame

LEMMA FramesPopped ==
  ASSUME Types, Types', NEW t \in Threads, Popped(t)
  PROVE  /\ StayBelow(t, Len(stack[t]))
         /\ Len(stack'[t]) = Len(stack[t]) - 1
         /\ \A u \in Threads : \A k \in Depths(u)' : u # t \/ k < Len(stack[t])
<1>1. /\ Len(stack[t]) \in Nat /\ Len(stack[t]) > 0 /\ Len(stack'[t]) = Len(stack[t]) - 1
      /\ \A i \in 1..(Len(stack[t]) - 1) : stack'[t][i] = stack[t][i + 1]
  BY DepthIsNatural DEF Popped
<1>2. ASSUME NEW k \in Depths(t)'
      PROVE  k < Len(stack[t]) /\ k \in Depths(t) /\ Frame(t, k)' = Frame(t, k)
  <2>1. Len(stack'[t]) + 1 - k \in 1..(Len(stack[t]) - 1)
        /\ Len(stack[t]) + 1 - k = (Len(stack'[t]) + 1 - k) + 1
    BY <1>1, <1>2 DEF Depths
  <2>. QED
    BY <1>1, <1>2, <2>1 DEF Depths, Frame
<1>3. \A u \in Threads : \A k \in Depths(u)' : u # t => k \in Depths(u) /\ Frame(u, k)' = Frame(u, k)
  BY DEF Popped, Others, Depths, Frame
<1>. QED
  BY <1>1, <1>2, <1>3 DEF StayBelow

LEMMA FramesSame ==
  ASSUME Types, stack' = stack, NEW t \in Threads
  PROVE  StayBelow(t, 0) /\ \A u \in Threads : Depths(u)' = Depths(u)
         /\ \A k \in Depths(u) : Frame(u, k)' = Frame(u, k)
BY DEF StayBelow, Depths, Frame

-------------------------------------------------------------------------------
(***************************************************************************)
(* The line of a listener: the events it has received, the event of the    *)
(* call that is being made for it, and those of the calls that wait.       *)
(***************************************************************************)

\* A call for l, about e, that has not reached the handler yet.
MadeFor(t, l, e) ==
  /\ stack[t] # <<>> /\ Top(t).at \in {"check", "ready"}
  /\ Top(t).listener = l /\ Top(t).event = e

\* Event e stands at place p of the line of l.
Stands(l, e, p) ==
  \/ p \in 1..Len(log[l]) /\ log[l][p] = e
  \/ p = Len(log[l]) + 1 /\ \E t \in Threads : MadeFor(t, l, e)
  \/ \E t \in Threads : \E i \in 1..Len(queue[t]) :
       /\ queue[t][i].listener = l /\ queue[t][i].event = e
       /\ p = (Len(log[l]) + 1) + i

InLine(l, e) == \E p \in Nat : Stands(l, e, p)
Before(l, e, f) == \E p, q \in Nat : p < q /\ Stands(l, e, p) /\ Stands(l, f, q)

\* A deferred call that is not due.
Deferred(l, e) == \E t \in Threads : \E call \in timed[t] : call.listener = l /\ call.event = e

\* Listeners, calls and the threads they belong to.
Homed ==
  /\ \A l \in Listeners : m_eventListenerList[l] = NoOne \/ m_eventListenerList[l] \in Homes[l]
  /\ \A t \in Threads :
       /\ \A i \in 1..Len(queue[t]) : t \in Homes[queue[t][i].listener]
       /\ \A call \in timed[t] : t \in Homes[call.listener]
       /\ \A l \in Listeners, e \in EventNumbers : MadeFor(t, l, e) => t \in Homes[l]
       /\ \A k \in Depths(t) : Frame(t, k).at # "resent"

OneHome == \A l \in Listeners : \A t, u \in Homes[l] : t = u

\* A step that puts nothing new into the lines.
LEMMA LinesShrink ==
  ASSUME \A l \in Listeners, e \in EventNumbers, p \in Nat : Stands(l, e, p)' => Stands(l, e, p)
  PROVE  /\ \A l \in Listeners, e \in EventNumbers : InLine(l, e)' => InLine(l, e)
         /\ \A l \in Listeners, e, f \in EventNumbers : Before(l, e, f)' => Before(l, e, f)
BY DEF InLine, Before

LEMMA LineStays ==
  ASSUME Types, log' = log,
         \A t \in Threads : /\ Len(queue'[t]) = Len(queue[t])
                            /\ \A i \in 1..Len(queue[t]) :
                                 /\ queue'[t][i].listener = queue[t][i].listener
                                 /\ queue'[t][i].event = queue[t][i].event,
         \A t \in Threads, l \in Listeners, e \in EventNumbers : MadeFor(t, l, e)' => MadeFor(t, l, e)
  PROVE  /\ \A l \in Listeners, e \in EventNumbers : InLine(l, e)' => InLine(l, e)
         /\ \A l \in Listeners, e, f \in EventNumbers : Before(l, e, f)' => Before(l, e, f)
<1>1. ASSUME NEW l \in Listeners, NEW e \in EventNumbers, NEW p \in Nat, Stands(l, e, p)'
      PROVE  Stands(l, e, p)
  BY <1>1 DEF Stands
<1>. QED
  BY <1>1, LinesShrink

\* Places in the line of a listener that has received n events, with m calls
\* waiting in the queue of its thread.
LEMMA PlacesAreOrdered ==
  ASSUME NEW n \in Nat, NEW m \in Nat
  PROVE  /\ (n + 1) + (m + 1) \in Nat
         /\ \A p \in 1..n : p < (n + 1) + (m + 1)
         /\ n + 1 < (n + 1) + (m + 1)
         /\ \A i \in 1..m : (n + 1) + i < (n + 1) + (m + 1)
         /\ \A i \in Nat : ((n + 1) + i) + 1 = (n + 1) + (i + 1) /\ (i > 0 => (n + 1) + i > n)
OBVIOUS

\* A call joins the queue of the thread of its listener.
LEMMA LineGrows ==
  ASSUME Types, Homed, OneHome, NEW u \in Threads, NEW c \in Calls, u \in Homes[c.listener],
         queue' = [queue EXCEPT ![u] = Append(@, c)], log' = log,
         \A t \in Threads, l \in Listeners, e \in EventNumbers : MadeFor(t, l, e)' => MadeFor(t, l, e)
  PROVE  /\ \A l \in Listeners, e \in EventNumbers :
              InLine(l, e)' => InLine(l, e) \/ (l = c.listener /\ e = c.event)
         /\ \A l \in Listeners, e, f \in EventNumbers :
              Before(l, e, f)' => \/ Before(l, e, f)
                                  \/ l = c.listener /\ f = c.event /\ InLine(l, e)
<1>0. /\ \A t \in Threads : queue[t] \in Seq(Calls) /\ Len(queue[t]) \in Nat
      /\ \A l \in Listeners : log[l] \in Seq(EventNumbers) /\ Len(log[l]) \in Nat
      /\ c.listener \in Listeners /\ queue[u] \in Seq(Calls)
  <2>1. c.listener \in Listeners
    BY DEF Calls
  <2>. QED
    BY <2>1 DEF Types
<1>. PICK n \in Nat : n = Len(log[c.listener])
  BY <1>0
<1>. PICK m \in Nat : m = Len(queue[u])
  BY <1>0
<1>. DEFINE last == (n + 1) + (m + 1)
<1>1. /\ queue'[u] = Append(queue[u], c) /\ \A t \in Threads : t # u => queue'[t] = queue[t]
      /\ Len(queue'[u]) = Len(queue[u]) + 1 /\ queue'[u][Len(queue[u]) + 1] = c
      /\ \A i \in 1..Len(queue[u]) : queue'[u][i] = queue[u][i]
  BY <1>0 DEF Types
<1>2. ASSUME NEW l \in Listeners, NEW e \in EventNumbers, NEW p \in Nat, Stands(l, e, p)'
      PROVE  Stands(l, e, p) \/ (l = c.listener /\ e = c.event /\ p = last)
  <2>1. CASE \E t \in Threads : \E i \in 1..Len(queue'[t]) :
               /\ queue'[t][i].listener = l /\ queue'[t][i].event = e
               /\ p = (Len(log[l]) + 1) + i
    <3>0. PICK t \in Threads : \E i \in 1..Len(queue'[t]) :
               /\ queue'[t][i].listener = l /\ queue'[t][i].event = e
               /\ p = (Len(log[l]) + 1) + i
      BY <2>1
    <3>1. PICK i \in 1..Len(queue'[t]) :
               /\ queue'[t][i].listener = l /\ queue'[t][i].event = e
               /\ p = (Len(log[l]) + 1) + i
      BY <3>0
    <3>2. CASE t # u \/ i \in 1..Len(queue[t])
      <4>1. i \in 1..Len(queue[t]) /\ queue'[t][i] = queue[t][i]
        <5>1. CASE t # u
          <6>1. queue'[t] = queue[t]
            BY <1>1, <5>1
          <6>. QED
            BY <6>1
        <5>2. CASE t = u
          BY <1>1, <3>2, <5>2
        <5>. QED
          BY <5>1, <5>2
      <4>. QED
        BY <3>1, <4>1 DEF Stands
    <3>3. CASE t = u /\ i = Len(queue[u]) + 1
      <4>1. queue'[t][i] = c
        BY <1>1, <3>3
      <4>2. c.listener = l /\ c.event = e
        BY <3>1, <4>1
      <4>3. p = last
        BY <3>1, <3>3, <4>2
      <4>. QED
        BY <1>0, <4>2, <4>3
    <3>4. t # u \/ i \in 1..Len(queue[u]) \/ i = Len(queue[u]) + 1
      <4>1. Len(queue[u]) \in Nat /\ Len(queue'[u]) = Len(queue[u]) + 1
        BY <1>0, <1>1
      <4>. QED
        BY <4>1
    <3>. QED
      BY <3>2, <3>3, <3>4
  <2>. QED
    BY <1>2, <2>1 DEF Stands
<1>3. ASSUME NEW e \in EventNumbers, NEW p \in Nat, Stands(c.listener, e, p)
      PROVE  p < last
  <2>1. ASSUME NEW t \in Threads, NEW i \in 1..Len(queue[t]), queue[t][i].listener = c.listener
        PROVE  i \in 1..Len(queue[u])
    <3>1. t \in Homes[c.listener]
      BY <2>1 DEF Homed
    <3>2. t = u
      BY <1>0, <3>1 DEF OneHome
    <3>. QED
      BY <2>1, <3>2
  <2>2. \/ p \in 1..n \/ p = n + 1
        \/ \E t \in Threads : \E i \in 1..Len(queue[t]) :
             queue[t][i].listener = c.listener /\ p = (n + 1) + i
    BY <1>3 DEF Stands
  <2>3. ASSUME NEW t \in Threads, NEW i \in 1..Len(queue[t]), queue[t][i].listener = c.listener,
               p = (n + 1) + i
        PROVE  p < last
    <3>1. i \in 1..m
      BY <2>1, <2>3
    <3>. QED
      BY <2>3, <3>1, PlacesAreOrdered
  <2>. QED
    BY <2>2, <2>3, PlacesAreOrdered
<1>4. last \in Nat
  BY PlacesAreOrdered
<1>. HIDE DEF last
<1>5. ASSUME NEW l \in Listeners, NEW e \in EventNumbers, NEW f \in EventNumbers, Before(l, e, f)'
      PROVE  Before(l, e, f) \/ (l = c.listener /\ f = c.event /\ InLine(l, e))
  <2>1. PICK p \in Nat, q \in Nat : p < q /\ Stands(l, e, p)' /\ Stands(l, f, q)'
    BY <1>5 DEF Before
  <2>2. CASE Stands(l, f, q)
    <3>1. Stands(l, e, p)
      BY <1>2, <1>3, <1>4, <2>1, <2>2
    <3>. QED
      BY <2>1, <2>2, <3>1 DEF Before
  <2>3. CASE l = c.listener /\ f = c.event /\ q = last
    BY <1>2, <2>1, <2>3 DEF InLine
  <2>. QED
    BY <1>2, <2>1, <2>2, <2>3
<1>. QED
  BY <1>2, <1>5 DEF InLine

\* The first call of a queue is made, or dropped.
LEMMA LineIsTaken ==
  ASSUME Types, Homed, OneHome, NEW t \in Threads, queue[t] # <<>>,
         queue' = [queue EXCEPT ![t] = Tail(@)], log' = log,
         \A l \in Listeners, e \in EventNumbers : ~MadeFor(t, l, e),
         \A u \in Threads, l \in Listeners, e \in EventNumbers :
           MadeFor(u, l, e)' =>
             \/ MadeFor(u, l, e)
             \/ u = t /\ queue[t][1].listener = l /\ queue[t][1].event = e
  PROVE  /\ \A l \in Listeners, e \in EventNumbers : InLine(l, e)' => InLine(l, e)
         /\ \A l \in Listeners, e, f \in EventNumbers : Before(l, e, f)' => Before(l, e, f)
<1>0. /\ \A u \in Threads : queue[u] \in Seq(Calls) /\ Len(queue[u]) \in Nat
      /\ \A l \in Listeners : log[l] \in Seq(EventNumbers) /\ Len(log[l]) \in Nat
      /\ queue[t] \in Seq(Calls) /\ Len(queue[t]) > 0
      /\ \A u \in Threads : \A i \in 1..Len(queue[u]) : queue[u][i] \in Calls
  BY DEF Types
<1>1. /\ \A u \in Threads : u # t => queue'[u] = queue[u]
      /\ Len(queue'[t]) = Len(queue[t]) - 1
      /\ \A i \in 1..(Len(queue[t]) - 1) : queue'[t][i] = queue[t][i + 1]
  BY <1>0 DEF Types
<1>. DEFINE Was(l, p) == IF t \in Homes[l] /\ p > Len(log[l]) THEN p + 1 ELSE p
<1>2. ASSUME NEW l \in Listeners, NEW e \in EventNumbers, NEW p \in Nat, Stands(l, e, p)'
      PROVE  Stands(l, e, Was(l, p))
  <2>1. CASE p \in 1..Len(log[l]) /\ log[l][p] = e
    BY <1>0, <2>1 DEF Stands
  <2>2. CASE p = Len(log[l]) + 1 /\ \E u \in Threads : MadeFor(u, l, e)'
    <3>1. PICK u \in Threads : MadeFor(u, l, e)'
      BY <2>2
    <3>2. CASE MadeFor(u, l, e)
      <4>1. u # t /\ u \in Homes[l]
        BY <3>2 DEF Homed
      <4>2. t \notin Homes[l]
        BY <4>1 DEF OneHome
      <4>. QED
        BY <2>2, <3>2, <4>2 DEF Stands
    <3>3. CASE u = t /\ queue[t][1].listener = l /\ queue[t][1].event = e
      <4>1. 1 \in 1..Len(queue[t]) /\ t \in Homes[l]
        BY <1>0, <3>3 DEF Homed
      <4>2. Was(l, p) = (Len(log[l]) + 1) + 1
        BY <1>0, <2>2, <4>1
      <4>. QED
        BY <3>3, <4>1, <4>2 DEF Stands
    <3>. QED
      BY <3>1, <3>2, <3>3
  <2>3. CASE \E u \in Threads : \E i \in 1..Len(queue'[u]) :
               /\ queue'[u][i].listener = l /\ queue'[u][i].event = e
               /\ p = (Len(log[l]) + 1) + i
    <3>0. PICK u \in Threads : \E i \in 1..Len(queue'[u]) :
               /\ queue'[u][i].listener = l /\ queue'[u][i].event = e
               /\ p = (Len(log[l]) + 1) + i
      BY <2>3
    <3>1. PICK i \in 1..Len(queue'[u]) :
               /\ queue'[u][i].listener = l /\ queue'[u][i].event = e
               /\ p = (Len(log[l]) + 1) + i
      BY <3>0
    <3>2. CASE u # t
      <4>1. i \in 1..Len(queue[u]) /\ queue'[u][i] = queue[u][i]
        BY <1>1, <3>1, <3>2
      <4>2. u \in Homes[l]
        BY <3>1, <4>1 DEF Homed
      <4>3. t \notin Homes[l]
        BY <3>2, <4>2 DEF OneHome
      <4>. QED
        BY <3>1, <4>1, <4>3 DEF Stands
    <3>3. CASE u = t
      <4>1. i + 1 \in 1..Len(queue[t]) /\ queue'[t][i] = queue[t][i + 1]
        BY <1>0, <1>1, <3>1, <3>3
      <4>2. t \in Homes[l]
        BY <3>1, <3>3, <4>1 DEF Homed
      <4>3. Was(l, p) = (Len(log[l]) + 1) + (i + 1)
        <5>1. PICK n \in Nat : n = Len(log[l])
          BY <1>0
        <5>2. i \in Nat /\ i > 0 /\ p = (n + 1) + i
          BY <3>1, <4>1, <5>1
        <5>3. p > n /\ p + 1 = (n + 1) + (i + 1)
          BY <5>2, PlacesAreOrdered
        <5>. QED
          BY <4>2, <5>1, <5>3
      <4>. QED
        BY <3>1, <3>3, <4>1, <4>3 DEF Stands
    <3>. QED
      BY <3>2, <3>3
  <2>. QED
    BY <1>2, <2>1, <2>2, <2>3 DEF Stands
<1>3. \A l \in Listeners, p, q \in Nat : Was(l, p) \in Nat /\ (p < q => Was(l, p) < Was(l, q))
  BY <1>0
<1>. HIDE DEF Was
<1>4. ASSUME NEW l \in Listeners, NEW e \in EventNumbers, NEW f \in EventNumbers, Before(l, e, f)'
      PROVE  Before(l, e, f)
  BY <1>2, <1>3, <1>4 DEF Before
<1>5. ASSUME NEW l \in Listeners, NEW e \in EventNumbers, InLine(l, e)'
      PROVE  InLine(l, e)
  BY <1>2, <1>3, <1>5 DEF InLine
<1>. QED
  BY <1>4, <1>5

\* The call that was made reaches its handler.
LEMMA LineIsServed ==
  ASSUME Types, OneHome, NEW t \in Threads, NEW l0 \in Listeners, NEW e0 \in EventNumbers,
         Homed', MadeFor(t, l0, e0), t \in Homes[l0],
         log' = [log EXCEPT ![l0] = Append(@, e0)], queue' = queue,
         \A l \in Listeners, e \in EventNumbers : ~MadeFor(t, l, e)',
         \A u \in Threads, l \in Listeners, e \in EventNumbers : MadeFor(u, l, e)' => MadeFor(u, l, e)
  PROVE  /\ \A l \in Listeners, e \in EventNumbers : InLine(l, e)' => InLine(l, e)
         /\ \A l \in Listeners, e, f \in EventNumbers : Before(l, e, f)' => Before(l, e, f)
<1>. PICK n \in Nat : n = Len(log[l0])
  BY DEF Types
<1>1. /\ \A l \in Listeners : l # l0 => log'[l] = log[l]
      /\ Len(log'[l0]) = n + 1 /\ log'[l0][n + 1] = e0
      /\ \A i \in 1..n : log'[l0][i] = log[l0][i]
  <2>1. log[l0] \in Seq(EventNumbers) /\ log'[l0] = Append(log[l0], e0)
        /\ \A l \in Listeners : l # l0 => log'[l] = log[l]
    BY DEF Types
  <2>. QED
    BY <2>1
<1>. DEFINE Was(l, p) == IF l = l0 /\ p > n + 1 THEN p - 1 ELSE p
<1>2. ASSUME NEW l \in Listeners, NEW e \in EventNumbers, NEW p \in Nat, Stands(l, e, p)'
      PROVE  Stands(l, e, Was(l, p)) /\ (l = l0 => p # n + 2)
  <2>1. CASE l # l0
    BY <1>1, <1>2, <2>1 DEF Stands
  <2>2. CASE l = l0
    <3>1. ASSUME NEW u \in Threads, MadeFor(u, l0, e)'
          PROVE  FALSE
      <4>1. u \in Homes[l0]
        BY <3>1 DEF Homed
      <4>. QED
        BY <3>1, <4>1 DEF OneHome
    <3>2. CASE p \in 1..(n + 1) /\ log'[l0][p] = e
      <4>1. p \in 1..n \/ p = n + 1
        BY <3>2
      <4>2. CASE p \in 1..n
        BY <1>1, <2>2, <3>2, <4>2 DEF Stands
      <4>3. CASE p = n + 1
        BY <1>1, <2>2, <3>2, <4>3 DEF Stands
      <4>. QED
        BY <4>1, <4>2, <4>3
    <3>3. CASE \E u \in Threads : \E i \in 1..Len(queue[u]) :
                 /\ queue[u][i].listener = l /\ queue[u][i].event = e
                 /\ p = ((n + 1) + 1) + i
      <4>0. PICK u \in Threads : \E i \in 1..Len(queue[u]) :
                 /\ queue[u][i].listener = l /\ queue[u][i].event = e
                 /\ p = ((n + 1) + 1) + i
        BY <3>3
      <4>1. PICK i \in 1..Len(queue[u]) :
                 /\ queue[u][i].listener = l /\ queue[u][i].event = e
                 /\ p = ((n + 1) + 1) + i
        BY <4>0
      <4>2. i \in Nat /\ i > 0
        OBVIOUS
      <4>3. p > n + 2 /\ p - 1 = (n + 1) + i
        BY <4>1, <4>2, \A a, b \in Nat : b > 0 =>
             ((a + 1) + 1) + b > a + 2 /\ (((a + 1) + 1) + b) - 1 = (a + 1) + b
      <4>4. Was(l, p) = (n + 1) + i /\ p # n + 2
        BY <2>2, <4>3
      <4>. QED
        BY <2>2, <4>1, <4>4 DEF Stands
    <3>. QED
      BY <1>1, <1>2, <2>2, <3>1, <3>2, <3>3 DEF Stands
  <2>. QED
    BY <2>1, <2>2
<1>3. \A l \in Listeners, p, q \in Nat :
        /\ Was(l, p) \in Nat
        /\ p < q /\ (l = l0 => q # n + 2) => Was(l, p) < Was(l, q)
  OBVIOUS
<1>. HIDE DEF Was
<1>4. ASSUME NEW l \in Listeners, NEW e \in EventNumbers, NEW f \in EventNumbers, Before(l, e, f)'
      PROVE  Before(l, e, f)
  BY <1>2, <1>3, <1>4 DEF Before
<1>5. ASSUME NEW l \in Listeners, NEW e \in EventNumbers, InLine(l, e)'
      PROVE  InLine(l, e)
  BY <1>2, <1>3, <1>5 DEF InLine
<1>. QED
  BY <1>4, <1>5

\* The handler is called directly, ahead of the calls that wait.
LEMMA LineIsJumped ==
  ASSUME Types, NEW l0 \in Listeners, NEW e0 \in EventNumbers,
         log' = [log EXCEPT ![l0] = Append(@, e0)], queue' = queue,
         \A u \in Threads, l \in Listeners, e \in EventNumbers : MadeFor(u, l, e)' => MadeFor(u, l, e)
  PROVE  /\ \A l \in Listeners, e \in EventNumbers :
              InLine(l, e)' => InLine(l, e) \/ (l = l0 /\ e = e0)
         /\ \A l \in Listeners, e, f \in EventNumbers :
              Before(l, e, f)' => \/ Before(l, e, f)
                                  \/ l = l0 /\ e = e0 /\ InLine(l, f)
                                  \/ l = l0 /\ f = e0 /\ InLine(l, e)
<1>. PICK n \in Nat : n = Len(log[l0])
  BY DEF Types
<1>1. /\ \A l \in Listeners : l # l0 => log'[l] = log[l]
      /\ Len(log'[l0]) = n + 1 /\ log'[l0][n + 1] = e0
      /\ \A i \in 1..n : log'[l0][i] = log[l0][i]
  <2>1. log[l0] \in Seq(EventNumbers) /\ log'[l0] = Append(log[l0], e0)
        /\ \A l \in Listeners : l # l0 => log'[l] = log[l]
    BY DEF Types
  <2>. QED
    BY <2>1
<1>. DEFINE Was(l, p) == IF l = l0 /\ p > n THEN p - 1 ELSE p
<1>2. ASSUME NEW l \in Listeners, NEW e \in EventNumbers, NEW p \in Nat, Stands(l, e, p)'
      PROVE  \/ Stands(l, e, Was(l, p)) /\ (l = l0 => p # n + 1)
             \/ l = l0 /\ p = n + 1 /\ e = e0
  <2>1. CASE l # l0
    BY <1>1, <1>2, <2>1 DEF Stands
  <2>2. CASE l = l0
    <3>1. CASE p = (n + 1) + 1 /\ \E u \in Threads : MadeFor(u, l0, e)'
      <4>1. p > n /\ p - 1 = n + 1 /\ p # n + 1
        BY <3>1
      <4>. QED
        BY <2>2, <3>1, <4>1 DEF Stands
    <3>2. CASE p \in 1..(n + 1) /\ log'[l0][p] = e
      <4>1. p \in 1..n \/ p = n + 1
        BY <3>2
      <4>2. CASE p \in 1..n
        <5>1. Was(l, p) = p /\ p # n + 1
          BY <4>2
        <5>. QED
          BY <1>1, <2>2, <3>2, <4>2, <5>1 DEF Stands
      <4>3. CASE p = n + 1
        BY <1>1, <2>2, <3>2, <4>3
      <4>. QED
        BY <4>1, <4>2, <4>3
    <3>3. CASE \E u \in Threads : \E i \in 1..Len(queue[u]) :
                 /\ queue[u][i].listener = l /\ queue[u][i].event = e
                 /\ p = ((n + 1) + 1) + i
      <4>0. PICK u \in Threads : \E i \in 1..Len(queue[u]) :
                 /\ queue[u][i].listener = l /\ queue[u][i].event = e
                 /\ p = ((n + 1) + 1) + i
        BY <3>3
      <4>1. PICK i \in 1..Len(queue[u]) :
                 /\ queue[u][i].listener = l /\ queue[u][i].event = e
                 /\ p = ((n + 1) + 1) + i
        BY <4>0
      <4>2. i \in Nat /\ i > 0
        OBVIOUS
      <4>3. p > n + 2 /\ p - 1 = (n + 1) + i
        BY <4>1, <4>2, \A a, b \in Nat : b > 0 =>
             ((a + 1) + 1) + b > a + 2 /\ (((a + 1) + 1) + b) - 1 = (a + 1) + b
      <4>4. Was(l, p) = (n + 1) + i /\ p # n + 1
        BY <2>2, <4>3, SMTT(60)
      <4>. QED
        BY <2>2, <4>1, <4>4 DEF Stands
    <3>. QED
      BY <1>1, <1>2, <2>2, <3>1, <3>2, <3>3 DEF Stands
  <2>. QED
    BY <2>1, <2>2
<1>3. \A l \in Listeners, p, q \in Nat :
        /\ Was(l, p) \in Nat
        /\ p < q /\ (l = l0 => p # n + 1 /\ q # n + 1) => Was(l, p) < Was(l, q)
  OBVIOUS
<1>. HIDE DEF Was
<1>4. ASSUME NEW l \in Listeners, NEW e \in EventNumbers, NEW f \in EventNumbers, Before(l, e, f)'
      PROVE  \/ Before(l, e, f)
             \/ l = l0 /\ e = e0 /\ InLine(l, f)
             \/ l = l0 /\ f = e0 /\ InLine(l, e)
  <2>1. PICK p \in Nat, q \in Nat : p < q /\ Stands(l, e, p)' /\ Stands(l, f, q)'
    BY <1>4 DEF Before
  <2>2. CASE l = l0 /\ p = n + 1
    <3>1. q # n + 1
      BY <2>1, <2>2
    <3>2. Stands(l, f, Was(l, q)) /\ e = e0
      BY <1>1, <1>2, <2>1, <2>2, <3>1
    <3>. QED
      BY <1>3, <2>2, <3>2 DEF InLine
  <2>3. CASE l = l0 /\ q = n + 1
    <3>1. p # n + 1
      BY <2>1, <2>3
    <3>2. Stands(l, e, Was(l, p)) /\ f = e0
      BY <1>1, <1>2, <2>1, <2>3, <3>1
    <3>. QED
      BY <1>3, <2>3, <3>2 DEF InLine
  <2>4. CASE l = l0 => p # n + 1 /\ q # n + 1
    BY <1>2, <1>3, <2>1, <2>4 DEF Before
  <2>. QED
    BY <2>2, <2>3, <2>4
<1>5. ASSUME NEW l \in Listeners, NEW e \in EventNumbers, InLine(l, e)'
      PROVE  InLine(l, e) \/ (l = l0 /\ e = e0)
  BY <1>2, <1>3, <1>5 DEF InLine
<1>. QED
  BY <1>4, <1>5

-------------------------------------------------------------------------------
(***************************************************************************)
(* The emissions, and how the lines follow from them.                      *)
(***************************************************************************)

\* The frame at depth k of t is an emission whose listeners do not have their
\* calls yet.
Emits(t, k) == k \in Depths(t) /\ Frame(t, k).at \in {"lock", "post"}

\* One emission at a time posts, and each emission is of an event of its own.
Emitting ==
  /\ \A t \in Threads, k \in Nat : Emits(t, k) =>
       /\ Frame(t, k).event \in 1..Len(emitted)
       /\ Frame(t, k).mode = emitted[Frame(t, k).event]
       /\ Frame(t, k).at = "post" => m_listenerDelegateMutex = t
  /\ \A t, u \in Threads, j, k \in Nat :
       /\ Emits(t, j) /\ Emits(u, k)
       /\ \/ Frame(t, j).at = "post" /\ Frame(u, k).at = "post"
          \/ Frame(t, j).event = Frame(u, k).event
       => t = u /\ j = k

\* The emission, if it still goes on, is past the listener.
Passed(l, e) ==
  /\ e \in 1..Len(emitted)
  /\ \A t \in Threads, k \in Nat :
       Emits(t, k) /\ Frame(t, k).event = e => Frame(t, k).at = "post" /\ l \notin Frame(t, k).todo

\* An event gets into a line, or among the deferred calls, when it is posted.
Posted ==
  \A l \in Listeners, e \in EventNumbers : InLine(l, e) \/ Deferred(l, e) => Passed(l, e)

\* No event has two places in a line, or is deferred and has one.
Once ==
  /\ \A l \in Listeners, e \in EventNumbers : ~Before(l, e, e)
  /\ \A l \in Listeners, e \in EventNumbers : Deferred(l, e) => ~InLine(l, e)
  /\ \A t \in Threads : \A c, d \in timed[t] :
       /\ c.event \in 1..Len(emitted) /\ emitted[c.event] = "Deffered"
       /\ c.listener = d.listener /\ c.event = d.event => c = d

IsQueued(e) == e \in 1..Len(emitted) /\ emitted[e] = "Queued"

\* Nothing that is queued stands behind the event that is being posted.
LastInLine(m, e, f) ==
  \A t \in Threads, k \in Nat :
    Emits(t, k) /\ Frame(t, k).at = "post" /\ Frame(t, k).event = f => ~Before(m, f, e)

\* The lines agree on the order of the queued events.
Ordered ==
  \A m \in Listeners, e, f \in EventNumbers :
    IsQueued(e) /\ IsQueued(f) =>
      /\ LastInLine(m, e, f)
      /\ \A l \in Listeners : Before(l, e, f) => ~Before(m, f, e)

InOrder == OneHome /\ Homed /\ Emitting /\ Posted /\ Once /\ Ordered

\* The strengthening of ReceivedOnce and SameOrder.
LinesInv == Settled => InOrder

\* Nothing joins a line, or the deferred calls.
NothingJoins ==
  /\ \A l \in Listeners, e \in EventNumbers : InLine(l, e)' => InLine(l, e)
  /\ \A l \in Listeners, e, f \in EventNumbers : Before(l, e, f)' => Before(l, e, f)
  /\ \A l \in Listeners, e \in EventNumbers : Deferred(l, e)' => Deferred(l, e)

\* What was emitted stays, in the mode it was emitted with.
EmittedStays ==
  \A e \in 1..Len(emitted) : e \in 1..Len(emitted') /\ emitted'[e] = emitted[e]

\* The emissions go on: they are those there were, or of a new event.
EmissionsGoOn ==
  \A t \in Threads, k \in Nat : Emits(t, k)' =>
    \/ /\ Emits(t, k) /\ Frame(t, k)'.event = Frame(t, k).event
       /\ Frame(t, k).at = "post" => /\ Frame(t, k)'.at = "post"
                                     /\ Frame(t, k)'.todo \subseteq Frame(t, k).todo
    \/ Frame(t, k)'.event \notin 1..Len(emitted)

\* Of none of them more is left to do, nor has one begun or got the mutex.
SameEmissions ==
  \A t \in Threads, k \in Nat : Emits(t, k)' =>
    /\ Emits(t, k) /\ Frame(t, k)'.event = Frame(t, k).event
    /\ Frame(t, k)'.at = Frame(t, k).at /\ Frame(t, k)'.mode = Frame(t, k).mode
    /\ Frame(t, k)'.todo \subseteq Frame(t, k).todo

LEMMA SameGoOn == SameEmissions => EmissionsGoOn
BY DEF SameEmissions, EmissionsGoOn

LEMMA EmittingStays ==
  ASSUME Emitting, SameEmissions, emitted' = emitted,
         \/ m_listenerDelegateMutex' = m_listenerDelegateMutex
         \/ \A t \in Threads, k \in Nat : Emits(t, k)' => Frame(t, k)'.at # "post"
  PROVE  Emitting'
<1>1. ASSUME NEW t \in Threads, NEW k \in Nat, Emits(t, k)'
      PROVE  /\ Frame(t, k)'.event \in 1..Len(emitted')
             /\ Frame(t, k)'.mode = emitted'[Frame(t, k)'.event]
             /\ Frame(t, k)'.at = "post" => m_listenerDelegateMutex' = t
  BY <1>1 DEF Emitting, SameEmissions
<1>2. ASSUME NEW t \in Threads, NEW u \in Threads, NEW j \in Nat, NEW k \in Nat,
             Emits(t, j)', Emits(u, k)',
             \/ Frame(t, j)'.at = "post" /\ Frame(u, k)'.at = "post"
             \/ Frame(t, j)'.event = Frame(u, k)'.event
      PROVE  t = u /\ j = k
  BY <1>2 DEF Emitting, SameEmissions
<1>. QED
  BY <1>1, <1>2 DEF Emitting

LEMMA PassedStays ==
  ASSUME EmissionsGoOn, EmittedStays, NEW l \in Listeners, NEW e \in EventNumbers, Passed(l, e)
  PROVE  Passed(l, e)'
BY DEF EmissionsGoOn, EmittedStays, Passed

LEMMA OrderedStays ==
  ASSUME Posted, Ordered, EmittedStays, EmissionsGoOn,
         \A l \in Listeners, e, f \in EventNumbers : Before(l, e, f)' => Before(l, e, f)
  PROVE  Ordered'
<1>1. ASSUME NEW m \in Listeners, NEW e \in EventNumbers, NEW f \in EventNumbers,
             IsQueued(e)', IsQueued(f)'
      PROVE  /\ LastInLine(m, e, f)'
             /\ \A l \in Listeners : Before(l, e, f)' => ~Before(m, f, e)'
  <2>1. ASSUME NEW l \in Listeners, Before(l, e, f) \/ Before(l, f, e)
        PROVE  IsQueued(e) /\ IsQueued(f) /\ Passed(l, e) /\ Passed(l, f)
    <3>1. InLine(l, e) /\ InLine(l, f)
      BY <2>1 DEF Before, InLine
    <3>2. Passed(l, e) /\ Passed(l, f)
      BY <3>1 DEF Posted
    <3>. QED
      BY <1>1, <3>2 DEF Passed, IsQueued, EmittedStays
  <2>2. ASSUME NEW t \in Threads, NEW k \in Nat, Emits(t, k)', Frame(t, k)'.at = "post",
               Frame(t, k)'.event = f, Before(m, f, e)'
        PROVE  FALSE
    <3>1. Before(m, f, e)
      BY <2>2
    <3>2. IsQueued(e) /\ IsQueued(f) /\ Passed(m, f)
      BY <2>1, <3>1
    <3>3. Emits(t, k) /\ Frame(t, k).event = f
      BY <2>2, <3>2 DEF EmissionsGoOn, Passed
    <3>4. Frame(t, k).at = "post"
      BY <3>2, <3>3 DEF Passed
    <3>. QED
      BY <3>1, <3>2, <3>3, <3>4 DEF Ordered, LastInLine
  <2>3. ASSUME NEW l \in Listeners, Before(l, e, f)', Before(m, f, e)'
        PROVE  FALSE
    <3>1. Before(l, e, f) /\ Before(m, f, e)
      BY <2>3
    <3>. QED
      BY <2>1, <3>1 DEF Ordered
  <2>. QED
    BY <2>2, <2>3 DEF LastInLine
<1>. QED
  BY <1>1 DEF Ordered

LEMMA NothingJoinsLines ==
  ASSUME Posted, Once, Ordered, NothingJoins, EmittedStays, EmissionsGoOn
  PROVE  /\ Posted' /\ Ordered'
         /\ \A l \in Listeners, e \in EventNumbers : ~Before(l, e, e)'
         /\ \A l \in Listeners, e \in EventNumbers : Deferred(l, e)' => ~InLine(l, e)'
<1>1. Posted'
  BY PassedStays DEF Posted, NothingJoins
<1>2. \A l \in Listeners, e \in EventNumbers : ~Before(l, e, e)'
  BY DEF Once, NothingJoins
<1>3. \A l \in Listeners, e \in EventNumbers : Deferred(l, e)' => ~InLine(l, e)'
  BY DEF Once, NothingJoins
<1>4. Ordered'
  BY OrderedStays DEF NothingJoins
<1>. QED
  BY <1>1, <1>2, <1>3, <1>4

\* One pair of a listener and an event joins the lines.
LEMMA OneJoinsLines ==
  ASSUME Emitting, Posted, Once, Ordered, SameEmissions, emitted' = emitted,
         NEW l0 \in Listeners, NEW e0 \in EventNumbers,
         ~InLine(l0, e0), Passed(l0, e0)', ~Deferred(l0, e0)',
         \A l \in Listeners, e \in EventNumbers :
           InLine(l, e)' => InLine(l, e) \/ (l = l0 /\ e = e0),
         \A l \in Listeners, e, f \in EventNumbers :
           Before(l, e, f)' => \/ Before(l, e, f)
                               \/ l = l0 /\ e = e0 /\ InLine(l, f) /\ ~IsQueued(e0)
                               \/ l = l0 /\ f = e0 /\ InLine(l, e),
         \A l \in Listeners, e \in EventNumbers : Deferred(l, e)' => Deferred(l, e),
         IsQueued(e0) => \E t \in Threads, k \in Nat :
           Emits(t, k) /\ Frame(t, k).at = "post" /\ Frame(t, k).event = e0
  PROVE  /\ Posted' /\ Ordered'
         /\ \A l \in Listeners, e \in EventNumbers : ~Before(l, e, e)'
         /\ \A l \in Listeners, e \in EventNumbers : Deferred(l, e)' => ~InLine(l, e)'
<1>0. EmittedStays /\ EmissionsGoOn
  BY SameGoOn DEF EmittedStays
<1>1. Posted'
  BY <1>0, PassedStays DEF Posted
<1>2. \A l \in Listeners, e \in EventNumbers : ~Before(l, e, e)'
  BY DEF Once
<1>3. \A l \in Listeners, e \in EventNumbers : Deferred(l, e)' => ~InLine(l, e)'
  BY DEF Once
<1>4. ASSUME NEW m \in Listeners, NEW e \in EventNumbers, IsQueued(e0), IsQueued(e)
      PROVE  ~Before(m, e0, e)
  BY <1>4 DEF Ordered, LastInLine
<1>5. ASSUME NEW m \in Listeners, NEW e \in EventNumbers, NEW f \in EventNumbers,
             IsQueued(e), IsQueued(f), Before(m, f, e)'
      PROVE  Before(m, f, e) \/ (m = l0 /\ e = e0 /\ InLine(l0, f))
  BY <1>5
<1>6. ASSUME NEW m \in Listeners, NEW e \in EventNumbers, NEW f \in EventNumbers,
             IsQueued(e), IsQueued(f)
      PROVE  LastInLine(m, e, f)'
  <2>. SUFFICES ASSUME NEW t \in Threads, NEW k \in Nat, Emits(t, k)', Frame(t, k)'.at = "post",
                       Frame(t, k)'.event = f, Before(m, f, e)'
                PROVE  FALSE
    BY DEF LastInLine
  <2>1. Emits(t, k) /\ Frame(t, k).at = "post" /\ Frame(t, k).event = f
    BY DEF SameEmissions
  <2>2. ~Before(m, f, e)
    BY <1>6, <2>1 DEF Ordered, LastInLine
  <2>3. e = e0 /\ InLine(l0, f)
    BY <1>5, <1>6, <2>2
  <2>4. f = e0
    BY <1>6, <2>1, <2>3 DEF Emitting
  <2>. QED
    BY <2>3, <2>4
<1>7. ASSUME NEW l \in Listeners, NEW m \in Listeners, NEW e \in EventNumbers, NEW f \in EventNumbers,
             IsQueued(e), IsQueued(f), Before(l, e, f)', Before(m, f, e)'
      PROVE  FALSE
  <2>1. Before(l, e, f) \/ (l = l0 /\ f = e0 /\ InLine(l0, e))
    BY <1>5, <1>7
  <2>2. Before(m, f, e) \/ (m = l0 /\ e = e0 /\ InLine(l0, f))
    BY <1>5, <1>7
  <2>3. ~(Before(l, e, f) /\ Before(m, f, e))
    BY <1>7 DEF Ordered
  <2>. QED
    BY <1>4, <1>7, <2>1, <2>2, <2>3
<1>8. Ordered'
  BY <1>6, <1>7 DEF Ordered, IsQueued
<1>. QED
  BY <1>1, <1>2, <1>3, <1>8

-------------------------------------------------------------------------------
(***************************************************************************)
(* What a step does to the emissions and to the calls being made.          *)
(***************************************************************************)

TopMoves(t, g, n) ==
  /\ n \in Nat /\ n \in Depths(t) /\ Frame(t, n) = Top(t) /\ Frame(t, n)' = g
  /\ FramesStay(t, {n})
  /\ \A u \in Threads, l \in Listeners, e \in EventNumbers :
       MadeFor(u, l, e)' =>
         \/ u # t /\ MadeFor(u, l, e)
         \/ u = t /\ g.at \in {"check", "ready"} /\ g.listener = l /\ g.event = e

LEMMA TopChanged ==
  ASSUME Types, Types', NEW t \in Threads, NEW g, Changed(t, g), NEW n, n = Len(stack[t])
  PROVE  TopMoves(t, g, n)
<1>1. /\ StayBelow(t, n) /\ Len(stack'[t]) = n /\ Frame(t, n)' = g /\ n \in Depths(t)
      /\ n \in Nat /\ Frame(t, n) = Top(t)
  BY FramesChanged, DepthIsNatural DEF Changed
<1>2. FramesStay(t, {n})
  BY <1>1 DEF FramesStay, StayBelow, Depths
<1>3. stack'[t] # <<>> => Top(t)' = g
  BY TopIsFrame DEF Types, Top, Changed
<1>4. \A u \in Threads : u # t => stack'[u] = stack[u]
  BY DEF Changed, Others
<1>5. ASSUME NEW u \in Threads, NEW l \in Listeners, NEW e \in EventNumbers, MadeFor(u, l, e)'
      PROVE  \/ u # t /\ MadeFor(u, l, e)
             \/ u = t /\ g.at \in {"check", "ready"} /\ g.listener = l /\ g.event = e
  BY <1>3, <1>4, <1>5 DEF MadeFor, Top
<1>. QED
  BY <1>1, <1>2, <1>5 DEF TopMoves

LEMMA TopPushed ==
  ASSUME Types, Types', NEW t \in Threads, NEW f, NEW g, Pushed(t, f, g), NEW n, n = Len(stack[t])
  PROVE  /\ n \in Nat /\ n + 1 \in Depths(t)' /\ Frame(t, n + 1)' = f
         /\ n \in Depths(t)' <=> stack[t] # <<>>
         /\ stack[t] # <<>> => /\ Frame(t, n)' = g /\ n \in Depths(t) /\ Frame(t, n) = Top(t)
         /\ FramesStay(t, {n, n + 1})
<1>1. /\ StayBelow(t, n) /\ Len(stack'[t]) = n + 1 /\ n \in Nat /\ Frame(t, n + 1)' = f
      /\ stack[t] # <<>> => Frame(t, n)' = g /\ n \in Depths(t) /\ Frame(t, n) = Top(t)
      /\ stack[t] = <<>> <=> n = 0
  BY FramesPushed, DepthIsNatural
<1>2. FramesStay(t, {n, n + 1}) /\ n + 1 \in Depths(t)' /\ (n \in Depths(t)' <=> stack[t] # <<>>)
  BY <1>1 DEF FramesStay, StayBelow, Depths
<1>. QED
  BY <1>1, <1>2

LEMMA CallPushed ==
  ASSUME Types, Types', NEW t \in Threads, NEW f, NEW g, Pushed(t, f, g)
  PROVE  \A u \in Threads, l \in Listeners, e \in EventNumbers :
           MadeFor(u, l, e)' =>
             \/ u # t /\ MadeFor(u, l, e)
             \/ u = t /\ f.at \in {"check", "ready"} /\ f.listener = l /\ f.event = e
<1>1. stack'[t] # <<>> => Top(t)' = f
  BY TopIsFrame DEF Types, Top, Pushed
<1>2. \A u \in Threads : u # t => stack'[u] = stack[u]
  BY DEF Pushed, Others
<1>. QED
  BY <1>1, <1>2 DEF MadeFor, Top

LEMMA TopPopped ==
  ASSUME Types, Types', StackShape, NEW t \in Threads, Popped(t), NEW n, n = Len(stack[t])
  PROVE  /\ n \in Nat /\ n \in Depths(t) /\ Frame(t, n) = Top(t)
         /\ FramesStay(t, {}) /\ n \notin Depths(t)'
         /\ \A u \in Threads, l \in Listeners, e \in EventNumbers :
              MadeFor(u, l, e)' => u # t /\ MadeFor(u, l, e)
<1>1. /\ StayBelow(t, n) /\ Len(stack'[t]) = n - 1 /\ n \in Depths(t)
      /\ n \in Nat /\ Frame(t, n) = Top(t)
      /\ \A u \in Threads : \A k \in Depths(u)' : u # t \/ k < n
  BY FramesPopped, DepthIsNatural DEF Popped
<1>2. FramesStay(t, {}) /\ n \notin Depths(t)'
  BY <1>1 DEF FramesStay, StayBelow, Depths
<1>3. stack'[t] # <<>> => Top(t)'.at \in {"handler", "direct", "post", "resent"}
  <2>1. ASSUME stack'[t] # <<>>
        PROVE  Top(t)' = stack[t][2] /\ 2 \in 1..Len(stack[t])
    <3>1. stack'[t] \in Seq(Frames) /\ Len(stack'[t]) >= 1
      BY <2>1 DEF Types
    <3>2. Top(t)' = stack'[t][1] /\ 1 \in 1..(Len(stack[t]) - 1)
      BY <1>1, <2>1, <3>1 DEF Top
    <3>. QED
      BY <1>1, <3>2 DEF Popped
  <2>. QED
    BY <2>1 DEF StackShape
<1>4. \A u \in Threads : u # t => stack'[u] = stack[u]
  BY DEF Popped, Others
<1>5. ASSUME NEW u \in Threads, NEW l \in Listeners, NEW e \in EventNumbers, MadeFor(u, l, e)'
      PROVE  u # t /\ MadeFor(u, l, e)
  BY <1>3, <1>4, <1>5 DEF MadeFor, Top
<1>. QED
  BY <1>1, <1>2, <1>5

LEMMA StackSame ==
  ASSUME stack' = stack, NEW t \in Threads
  PROVE  /\ FramesStay(t, {})
         /\ \A u \in Threads, l \in Listeners, e \in EventNumbers : MadeFor(u, l, e)' => MadeFor(u, l, e)
BY DEF FramesStay, Depths, Frame, MadeFor, Top

LEMMA EmissionsStay ==
  ASSUME NEW t \in Threads, NEW K, FramesStay(t, K),
         \A k \in K : Emits(t, k)' =>
           /\ Emits(t, k) /\ Frame(t, k)'.event = Frame(t, k).event
           /\ Frame(t, k)'.at = Frame(t, k).at /\ Frame(t, k)'.mode = Frame(t, k).mode
           /\ Frame(t, k)'.todo \subseteq Frame(t, k).todo
  PROVE  SameEmissions
BY DEF FramesStay, SameEmissions, Emits

\* A step that neither emits, nor queues, nor makes or serves a call.
LEMMA QuietStep ==
  ASSUME Types, Types', InOrder, SameEmissions,
         UNCHANGED <<queue, timed, log, emitted>>,
         \/ m_listenerDelegateMutex' = m_listenerDelegateMutex
         \/ \A t \in Threads, k \in Nat : Emits(t, k)' => Frame(t, k)'.at # "post",
         \A l \in Listeners :
           m_eventListenerList'[l] \in {NoOne, m_eventListenerList[l]} \cup Homes[l],
         \A t \in Threads, l \in Listeners, e \in EventNumbers : MadeFor(t, l, e)' => MadeFor(t, l, e),
         \A t \in Threads : \A k \in Depths(t)' : Frame(t, k)'.at # "resent"
  PROVE  InOrder'
<1>1. Emitting'
  BY EmittingStays DEF InOrder
<1>2. Homed'
  BY DEF InOrder, Homed
<1>3. EmittedStays /\ EmissionsGoOn
  BY SameGoOn DEF EmittedStays
<1>4. NothingJoins
  BY LineStays DEF NothingJoins, Deferred
<1>5. /\ Posted' /\ Ordered'
      /\ \A l \in Listeners, e \in EventNumbers : ~Before(l, e, e)'
      /\ \A l \in Listeners, e \in EventNumbers : Deferred(l, e)' => ~InLine(l, e)'
  BY <1>3, <1>4, NothingJoinsLines DEF InOrder
<1>6. Once'
  BY <1>5 DEF Once, InOrder
<1>. QED
  BY <1>1, <1>2, <1>5, <1>6 DEF InOrder, OneHome

LEMMA QuietChange ==
  ASSUME Types, Types', InOrder, NEW t \in Threads, NEW g, Changed(t, g),
         UNCHANGED <<queue, timed, log, emitted, m_eventListenerList>>,
         m_listenerDelegateMutex' = m_listenerDelegateMutex \/ Top(t).at = "post",
         g.at \notin {"lock", "post", "resent"},
         g.at \in {"check", "ready"} => /\ Top(t).at \in {"check", "ready"}
                                        /\ g.listener = Top(t).listener
                                        /\ g.event = Top(t).event
  PROVE  InOrder'
<1>. PICK n : n = Len(stack[t])
  OBVIOUS
<1>1. /\ n \in Nat /\ n \in Depths(t) /\ Frame(t, n) = Top(t) /\ Frame(t, n)' = g
      /\ FramesStay(t, {n})
      /\ \A u \in Threads, l \in Listeners, e \in EventNumbers :
           MadeFor(u, l, e)' =>
             \/ u # t /\ MadeFor(u, l, e)
             \/ u = t /\ g.at \in {"check", "ready"} /\ g.listener = l /\ g.event = e
  <2>1. TopMoves(t, g, n)
    BY TopChanged, Zenon
  <2>. QED
    BY ONLY <2>1, t \in Threads DEF TopMoves
<1>2. SameEmissions /\ ~Emits(t, n)'
  <2>1. ~Emits(t, n)'
    BY <1>1 DEF Emits
  <2>. QED
    BY <1>1, <2>1, EmissionsStay
<1>3. \/ m_listenerDelegateMutex' = m_listenerDelegateMutex
      \/ \A u \in Threads, k \in Nat : Emits(u, k)' => Frame(u, k)'.at # "post"
  <2>. SUFFICES ASSUME Top(t).at = "post", NEW u \in Threads, NEW k \in Nat, Emits(u, k)',
                       Frame(u, k)'.at = "post"
                PROVE  FALSE
    OBVIOUS
  <2>1. Emits(u, k) /\ Frame(u, k).at = "post" /\ Emits(t, n) /\ Frame(t, n).at = "post"
    BY <1>1, <1>2 DEF SameEmissions, Emits
  <2>2. u = t /\ k = n
    BY <1>1, <2>1 DEF InOrder, Emitting
  <2>. QED
    BY <1>2, <2>2
<1>4. \A u \in Threads, l \in Listeners, e \in EventNumbers : MadeFor(u, l, e)' => MadeFor(u, l, e)
  BY <1>1 DEF MadeFor, Changed
<1>5. \A u \in Threads : \A k \in Depths(u)' : Frame(u, k)'.at # "resent"
  BY <1>1 DEF FramesStay, InOrder, Homed
<1>. QED
  BY <1>2, <1>3, <1>4, <1>5, QuietStep

LEMMA QuietPop ==
  ASSUME Types, Types', StackShape, InOrder, NEW t \in Threads, Popped(t),
         UNCHANGED <<queue, timed, log, emitted, m_eventListenerList>>,
         m_listenerDelegateMutex' = m_listenerDelegateMutex \/ Top(t).at = "post"
  PROVE  InOrder'
<1>. PICK n : n = Len(stack[t])
  OBVIOUS
<1>1. /\ n \in Nat /\ n \in Depths(t) /\ Frame(t, n) = Top(t)
      /\ FramesStay(t, {}) /\ n \notin Depths(t)'
      /\ \A u \in Threads, l \in Listeners, e \in EventNumbers :
           MadeFor(u, l, e)' => u # t /\ MadeFor(u, l, e)
  BY TopPopped
<1>2. SameEmissions /\ ~Emits(t, n)'
  <2>1. ~Emits(t, n)'
    BY <1>1 DEF Emits
  <2>. QED
    BY <1>1, <2>1, EmissionsStay
<1>3. \/ m_listenerDelegateMutex' = m_listenerDelegateMutex
      \/ \A u \in Threads, k \in Nat : Emits(u, k)' => Frame(u, k)'.at # "post"
  <2>. SUFFICES ASSUME Top(t).at = "post", NEW u \in Threads, NEW k \in Nat, Emits(u, k)',
                       Frame(u, k)'.at = "post"
                PROVE  FALSE
    OBVIOUS
  <2>1. Emits(u, k) /\ Frame(u, k).at = "post" /\ Emits(t, n) /\ Frame(t, n).at = "post"
    BY <1>1, <1>2 DEF SameEmissions, Emits
  <2>2. u = t /\ k = n
    BY <1>1, <2>1 DEF InOrder, Emitting
  <2>. QED
    BY <1>2, <2>2
<1>5. \A u \in Threads : \A k \in Depths(u)' : Frame(u, k)'.at # "resent"
  BY <1>1 DEF FramesStay, InOrder, Homed
<1>. QED
  BY <1>1, <1>2, <1>3, <1>5, QuietStep

-------------------------------------------------------------------------------
(***************************************************************************)
(* The steps, and the lines.                                               *)
(***************************************************************************)

LEMMA QuietGoto ==
  ASSUME SupportInv, Types', InOrder, NEW t \in Threads, NEW where, stack[t] # <<>>, Goto(t, where),
         \/ Top(t).at = "post" /\ where = "barrier"
         \/ Top(t).at \in CallPlaces /\ where \in {"called", "remove"}
         \/ Top(t).at = "check" /\ where = "ready",
         UNCHANGED <<queue, timed, log, emitted, m_eventListenerList>>,
         m_listenerDelegateMutex' = m_listenerDelegateMutex \/ Top(t).at = "post"
  PROVE  InOrder'
<1>. DEFINE g == [Top(t) EXCEPT !.at = where]
<1>1. Changed(t, g)
  BY GotoChanges DEF SupportInv, CallPlaces, EmitPlaces
<1>2. Top(t) \in CallFrames \/ Top(t) \in EmitFrames
  BY TopIsFrame, PlaceTellsFrame DEF SupportInv, CallPlaces, EmitPlaces
<1>3. /\ g.at = where
      /\ Top(t).at = "check" => g.listener = Top(t).listener /\ g.event = Top(t).event
  BY <1>2 DEF CallFrames, EmitFrames, EmitPlaces
<1>4. g.at \in {"check", "ready"} => Top(t).at = "check"
  BY <1>3
<1>. QED
  BY <1>1, <1>3, <1>4, QuietChange DEF SupportInv

LEMMA LeavingOrders ==
  ASSUME SupportInv, SupportInv', InOrder, NEW t \in Threads,
         \/ AwaitBarrier(t) \/ EndDirect(t) \/ RemoveEventCall(t)
         \/ EndPosting(t) /\ Top(t).mode # "Blocking"
         \/ DestroyData(t) /\ ~Top(t).live
         \/ EndDestroy(t)
  PROVE  InOrder'
<1>1. stack[t] # <<>> /\ Leave(t) /\ (m_listenerDelegateMutex' = m_listenerDelegateMutex \/ Top(t).at = "post")
  BY DEF AwaitBarrier, EndDirect, RemoveEventCall, EndPosting, DestroyData, EndDestroy, At, listVars
<1>2. Popped(t)
  BY <1>1, LeavePops DEF SupportInv
<1>3. UNCHANGED <<queue, timed, log, emitted, m_eventListenerList>>
  BY DEF AwaitBarrier, EndDirect, RemoveEventCall, EndPosting, DestroyData, EndDestroy, listVars,
         callVars, countVars
<1>. QED
  BY <1>1, <1>2, <1>3, QuietPop DEF SupportInv

LEMMA GoingOnOrders ==
  ASSUME SupportInv, SupportInv', InOrder, NEW t \in Threads,
         \/ EndHandler(t) \/ EndResent(t)
         \/ EndPosting(t) /\ Top(t).mode = "Blocking"
         \/ DestroyData(t) /\ Top(t).live
  PROVE  InOrder'
<1>1. stack[t] # <<>> /\ \E where \in {"barrier", "called", "remove"} :
        /\ Goto(t, where)
        /\ \/ Top(t).at = "post" /\ where = "barrier"
           \/ Top(t).at \in CallPlaces /\ where \in {"called", "remove"}
        /\ m_listenerDelegateMutex' = m_listenerDelegateMutex \/ Top(t).at = "post"
  BY DEF EndHandler, EndResent, EndPosting, DestroyData, At, CallPlaces, listVars
<1>2. UNCHANGED <<queue, timed, log, emitted, m_eventListenerList>>
  BY DEF EndHandler, EndResent, EndPosting, DestroyData, listVars, callVars, countVars
<1>. QED
  BY <1>1, <1>2, QuietGoto DEF SupportInv

\* A call is in the thread of its listener, so that it is never emitted again.
LEMMA ReceiveOrders ==
  ASSUME SupportInv, SupportInv', InOrder, NEW t \in Threads, ReceiveAbstractEventCall(t)
  PROVE  InOrder'
<1>. DEFINE target == m_eventListenerList[Top(t).listener]
<1>1. stack[t] # <<>> /\ Top(t).at = "check"
  BY DEF ReceiveAbstractEventCall, ReceiveWith, At
<1>2. Top(t).listener \in Listeners /\ Top(t).event \in EventNumbers
  BY <1>1, TopIsFrame, PlaceTellsFrame DEF SupportInv, CallPlaces, CallFrames
<1>3. target \in Threads => target = t
  <2>1. t \in Homes[Top(t).listener]
    BY <1>1, <1>2 DEF InOrder, Homed, MadeFor
  <2>2. target \in Threads => target \in Homes[Top(t).listener]
    BY <1>2, EventSupportAssumption DEF InOrder, Homed
  <2>. QED
    BY <1>2, <2>1, <2>2 DEF InOrder, OneHome
<1>4. Goto(t, "called") \/ Goto(t, "ready")
  BY <1>3 DEF ReceiveAbstractEventCall, ReceiveWith
<1>5. UNCHANGED <<m_eventListenerList, m_listenerDelegateMutex, queue, timed, emitted, log>>
  BY DEF ReceiveAbstractEventCall, ReceiveWith, listVars, callVars, countVars
<1>. QED
  BY <1>1, <1>4, <1>5, QuietGoto DEF SupportInv, CallPlaces

LEMMA DisableCalledOrders ==
  ASSUME SupportInv, SupportInv', InOrder, NEW t \in Threads, DisableCalled(t)
  PROVE  InOrder'
<1>. USE DEF SupportInv
<1>1. PICK u \in Threads : /\ At(u, "called")
                           /\ Top(u).live
                           /\ stack' = [stack EXCEPT ![u][1].live = FALSE]
  BY DEF DisableCalled
<1>. DEFINE g == [stack[u][1] EXCEPT !.live = FALSE]
<1>2. stack[u] # <<>> /\ Top(u) = stack[u][1] /\ stack[u][1].at = "called" /\ stack[u][1] \in CallFrames
  BY <1>1, TopIsFrame, PlaceTellsFrame DEF At, CallPlaces
<1>3. g \in Frames /\ g.at = "called"
  BY <1>2 DEF CallFrames, CallPlaces, Frames
<1>4. stack' = [stack EXCEPT ![u] = [stack[u] EXCEPT ![1] = g]]
  BY <1>1, <1>2
<1>5. Changed(u, g)
  BY <1>2, <1>3, <1>4, ReplacementChanges
<1>6. UNCHANGED <<m_eventListenerList, m_listenerDelegateMutex, queue, timed, emitted, log>>
  BY DEF DisableCalled, listVars, callVars, countVars
<1>. QED
  BY <1>3, <1>5, <1>6, QuietChange

\* Registering and removing, each listener in its thread.
LEMMA ListOrders ==
  ASSUME SupportInv, SupportInv', InOrder, NEW t \in Threads, NEW l0 \in Listeners,
         AddListener(t, l0) \/ RemoveListener(t, l0)
  PROVE  InOrder'
<1>1. UNCHANGED <<m_listenerDelegateMutex, queue, timed, emitted, log, stack>>
  BY DEF AddListener, RemoveListener, callVars, countVars
<1>2. \A l \in Listeners :
        m_eventListenerList'[l] \in {NoOne, m_eventListenerList[l]} \cup Homes[l]
  BY DEF AddListener, RemoveListener, SupportInv, Types
<1>3. SameEmissions /\ \A u \in Threads : \A k \in Depths(u)' : Frame(u, k)'.at # "resent"
  BY <1>1 DEF SameEmissions, Emits, Depths, Frame, InOrder, Homed
<1>. QED
  BY <1>1, <1>2, <1>3, StackSame, QuietStep DEF SupportInv

LEMMA DestroyOrders ==
  ASSUME SupportInv, SupportInv', InOrder, NEW t \in Threads, Destroy(t)
  PROVE  InOrder'
<1>. USE DEF SupportInv
<1>. DEFINE f == [at |-> "destroy"]
<1>. PICK n : n = Len(stack[t])
  OBVIOUS
<1>1. f \in Frames /\ stack[t] = <<>>
  BY DEF Destroy, Frames
<1>2. Pushed(t, f, stack[t][1])
  BY <1>1, EnterPushes DEF Destroy
<1>3. /\ FramesStay(t, {n, n + 1}) /\ Frame(t, n + 1)' = f /\ n \notin Depths(t)'
      /\ \A u \in Threads, l \in Listeners, e \in EventNumbers : MadeFor(u, l, e)' => MadeFor(u, l, e)
  <2>. DEFINE g == stack[t][1]
  <2>1. Pushed(t, f, g) /\ f.at = "destroy"
    BY <1>2
  <2>. HIDE DEF f, g
  <2>. QED
    BY <1>1, <2>1, TopPushed, CallPushed
<1>4. SameEmissions
  BY <1>3, EmissionsStay DEF Emits
<1>5. \A u \in Threads : \A k \in Depths(u)' : Frame(u, k)'.at # "resent"
  BY <1>3 DEF FramesStay, InOrder, Homed
<1>6. /\ UNCHANGED <<m_listenerDelegateMutex, queue, timed, emitted, log>>
      /\ \A l \in Listeners : m_eventListenerList'[l] = NoOne
  BY DEF Destroy, callVars, countVars
<1>. QED
  BY <1>3, <1>4, <1>5, <1>6, QuietStep

LEMMA InOrderWhenNothingJoins ==
  ASSUME InOrder, NothingJoins, EmittedStays, EmissionsGoOn, Homed', Emitting',
         \A t \in Threads : \A c, d \in timed'[t] :
           /\ c.event \in 1..Len(emitted') /\ emitted'[c.event] = "Deffered"
           /\ c.listener = d.listener /\ c.event = d.event => c = d
  PROVE  InOrder'
<1>1. /\ Posted' /\ Ordered'
      /\ \A l \in Listeners, e \in EventNumbers : ~Before(l, e, e)'
      /\ \A l \in Listeners, e \in EventNumbers : Deferred(l, e)' => ~InLine(l, e)'
  BY NothingJoinsLines DEF InOrder
<1>2. Once'
  BY <1>1 DEF Once
<1>. QED
  BY <1>1, <1>2 DEF InOrder, OneHome

LEMMA EmitEventOrders ==
  ASSUME SupportInv, SupportInv', InOrder, NEW t \in Threads, NEW mode \in Modes, EmitEvent(t, mode)
  PROVE  InOrder'
<1>. USE DEF SupportInv
<1>. PICK f : f = EmitFrame(Len(emitted'), mode)
  OBVIOUS
<1>. PICK g : g = stack[t][1]
  OBVIOUS
<1>. PICK n : n = Len(stack[t])
  OBVIOUS
<1>1. /\ emitted \in Seq(Modes) /\ Len(emitted') = Len(emitted) + 1
      /\ Len(emitted') \in EventNumbers /\ emitted'[Len(emitted')] = mode
      /\ Len(emitted') \in 1..Len(emitted') /\ Len(emitted') \notin 1..Len(emitted)
      /\ EmittedStays
  BY EventSupportAssumption, SMTT(60) DEF EmitEvent, Types, EventNumbers, EmittedStays
<1>2. /\ f \in Frames /\ f.at = "lock" /\ f.event = Len(emitted') /\ f.mode = mode
      /\ f.event \notin 1..Len(emitted)
  BY <1>1, EventSupportAssumption DEF EmitFrame, Frames, EmitFrames, EmitPlaces, AllModes
<1>3. Pushed(t, f, g)
  BY <1>2, EnterPushes DEF EmitEvent
<1>4. stack[t] # <<>> => g.at \in {"handler", "direct"}
  BY TopIsFrame DEF EmitEvent, InClientCode, At
<1>5. UNCHANGED <<m_eventListenerList, m_listenerDelegateMutex, queue, timed, log>>
  BY DEF EmitEvent, listVars, callVars, countVars
<1>6. /\ n \in Nat /\ n + 1 \in Depths(t)' /\ Frame(t, n + 1)' = f
      /\ n \in Depths(t)' <=> stack[t] # <<>>
      /\ stack[t] # <<>> => /\ Frame(t, n)' = g /\ n \in Depths(t) /\ Frame(t, n) = Top(t)
      /\ FramesStay(t, {n, n + 1})
  BY <1>3, TopPushed
<1>10. \A u \in Threads, l \in Listeners, e \in EventNumbers : MadeFor(u, l, e)' => MadeFor(u, l, e)
  BY <1>2, <1>3, CallPushed
<1>7. \A u \in Threads, k \in Nat : Emits(u, k)' =>
        \/ Emits(u, k) /\ Frame(u, k)' = Frame(u, k)
        \/ u = t /\ k = n + 1 /\ Frame(u, k)' = f
  BY <1>4, <1>6 DEF Emits, FramesStay
<1>8. EmissionsGoOn
  BY <1>2, <1>7 DEF EmissionsGoOn
<1>9. Emitting'
  <2>1. ASSUME NEW u \in Threads, NEW k \in Nat, Emits(u, k)'
        PROVE  /\ Frame(u, k)'.event \in 1..Len(emitted')
               /\ Frame(u, k)'.mode = emitted'[Frame(u, k)'.event]
               /\ Frame(u, k)'.at = "post" => m_listenerDelegateMutex' = u
    BY <1>1, <1>2, <1>5, <1>7, <2>1 DEF InOrder, Emitting, EmittedStays
  <2>2. ASSUME NEW u \in Threads, NEW v \in Threads, NEW j \in Nat, NEW k \in Nat,
               Emits(u, j)', Emits(v, k)',
               \/ Frame(u, j)'.at = "post" /\ Frame(v, k)'.at = "post"
               \/ Frame(u, j)'.event = Frame(v, k)'.event
        PROVE  u = v /\ j = k
    BY <1>2, <1>7, <2>2 DEF InOrder, Emitting
  <2>. QED
    BY <2>1, <2>2 DEF Emitting
<1>11. NothingJoins
  BY <1>5, <1>10, LineStays DEF NothingJoins, Deferred
<1>12. Homed'
  <2>1. \A u \in Threads : \A k \in Depths(u)' : Frame(u, k)'.at # "resent"
    BY <1>2, <1>4, <1>6 DEF FramesStay, InOrder, Homed
  <2>. QED
    BY <1>5, <1>10, <2>1 DEF InOrder, Homed
<1>13. \A u \in Threads : \A c, d \in timed'[u] :
         /\ c.event \in 1..Len(emitted') /\ emitted'[c.event] = "Deffered"
         /\ c.listener = d.listener /\ c.event = d.event => c = d
  BY <1>1, <1>5 DEF InOrder, Once, EmittedStays
<1>. QED
  BY <1>1, <1>8, <1>9, <1>11, <1>12, <1>13, InOrderWhenNothingJoins

LEMMA LockListenersOrders ==
  ASSUME SupportInv, SupportInv', InOrder, NEW t \in Threads, LockListeners(t)
  PROVE  InOrder'
<1>. USE DEF SupportInv
<1>. DEFINE g == [stack[t][1] EXCEPT !.at = "post", !.todo = Registered]
<1>. PICK n : n = Len(stack[t])
  OBVIOUS
<1>1. stack[t] # <<>> /\ Top(t) = stack[t][1] /\ stack[t][1].at = "lock" /\ stack[t][1] \in EmitFrames
  BY TopIsFrame, PlaceTellsFrame DEF LockListeners, At, EmitPlaces
<1>2. g \in Frames /\ g.at = "post" /\ g.event = Top(t).event /\ g.mode = Top(t).mode
  BY <1>1 DEF Registered, Frames, EmitFrames, EmitPlaces
<1>3. stack' = [stack EXCEPT ![t] = [stack[t] EXCEPT ![1] = g]]
  BY <1>1 DEF LockListeners
<1>4. Changed(t, g)
  BY <1>1, <1>2, <1>3, ReplacementChanges
<1>5. /\ UNCHANGED <<m_eventListenerList, queue, timed, log, emitted>>
      /\ m_listenerDelegateMutex = NoOne /\ m_listenerDelegateMutex' = t
  BY DEF LockListeners, callVars, countVars
<1>. HIDE DEF g
<1>6. /\ n \in Nat /\ n \in Depths(t) /\ Frame(t, n) = Top(t) /\ Frame(t, n)' = g
      /\ FramesStay(t, {n})
      /\ \A u \in Threads, l \in Listeners, e \in EventNumbers :
           MadeFor(u, l, e)' =>
             \/ u # t /\ MadeFor(u, l, e)
             \/ u = t /\ g.at \in {"check", "ready"} /\ g.listener = l /\ g.event = e
  <2>1. Types /\ Types' /\ n = Len(stack[t]) /\ Changed(t, g)
    BY <1>4
  <2>2. TopMoves(t, g, n)
    BY ONLY <2>1, t \in Threads, TopChanged, Zenon
  <2>. QED
    BY ONLY <2>2, t \in Threads DEF TopMoves
<1>7. Emits(t, n) /\ \A u \in Threads, k \in Nat : Emits(u, k)' =>
        \/ Emits(u, k) /\ Frame(u, k)' = Frame(u, k)
        \/ u = t /\ k = n /\ Frame(u, k)' = g
  BY <1>1, <1>6 DEF Emits, FramesStay
<1>8. \A u \in Threads, k \in Nat : Emits(u, k) => Frame(u, k).at # "post"
  BY <1>5, EventSupportAssumption DEF InOrder, Emitting
<1>9. \A u \in Threads, k \in Nat : Emits(u, k)' =>
        /\ Emits(u, k) /\ Frame(u, k)'.event = Frame(u, k).event
        /\ Frame(u, k)'.mode = Frame(u, k).mode
        /\ Frame(u, k)'.at = "post" => u = t /\ k = n
  BY <1>2, <1>6, <1>7, <1>8
<1>10. EmissionsGoOn /\ EmittedStays
  BY <1>5, <1>8, <1>9 DEF EmissionsGoOn, EmittedStays
<1>11. Emitting'
  <2>1. ASSUME NEW u \in Threads, NEW k \in Nat, Emits(u, k)'
        PROVE  /\ Frame(u, k)'.event \in 1..Len(emitted')
               /\ Frame(u, k)'.mode = emitted'[Frame(u, k)'.event]
               /\ Frame(u, k)'.at = "post" => m_listenerDelegateMutex' = u
    BY <1>5, <1>9, <2>1 DEF InOrder, Emitting
  <2>2. ASSUME NEW u \in Threads, NEW v \in Threads, NEW j \in Nat, NEW k \in Nat,
               Emits(u, j)', Emits(v, k)',
               \/ Frame(u, j)'.at = "post" /\ Frame(v, k)'.at = "post"
               \/ Frame(u, j)'.event = Frame(v, k)'.event
        PROVE  u = v /\ j = k
    BY <1>9, <2>2 DEF InOrder, Emitting
  <2>. QED
    BY <2>1, <2>2 DEF Emitting
<1>12. \A u \in Threads, l \in Listeners, e \in EventNumbers : MadeFor(u, l, e)' => MadeFor(u, l, e)
  BY <1>2, <1>6
<1>13. NothingJoins
  BY <1>5, <1>12, LineStays DEF NothingJoins, Deferred
<1>14. Homed'
  <2>1. \A u \in Threads : \A k \in Depths(u)' : Frame(u, k)'.at # "resent"
    BY <1>2, <1>6 DEF FramesStay, InOrder, Homed
  <2>. QED
    BY <1>5, <1>12, <2>1 DEF InOrder, Homed
<1>15. \A u \in Threads : \A c, d \in timed'[u] :
         /\ c.event \in 1..Len(emitted') /\ emitted'[c.event] = "Deffered"
         /\ c.listener = d.listener /\ c.event = d.event => c = d
  BY <1>5 DEF InOrder, Once
<1>. QED
  BY <1>10, <1>11, <1>13, <1>14, <1>15, InOrderWhenNothingJoins

LEMMA DisableQueuedOrders ==
  ASSUME SupportInv, SupportInv', InOrder, NEW t \in Threads, DisableQueued(t)
  PROVE  InOrder'
<1>. USE DEF SupportInv
<1>1. \A call \in Calls : /\ Disabled(call).listener = call.listener
                          /\ Disabled(call).event = call.event
  BY DEF Calls, Disabled
<1>2. \A u \in Threads : queue[u] \in Seq(Calls) /\ timed[u] \subseteq Calls
  BY DEF Types
<1>3. UNCHANGED <<m_eventListenerList, m_listenerDelegateMutex, emitted, log, stack>>
  BY DEF DisableQueued, listVars, countVars
<1>4. ASSUME NEW u \in Threads
      PROVE  /\ Len(queue'[u]) = Len(queue[u])
             /\ \A i \in 1..Len(queue[u]) : /\ queue'[u][i].listener = queue[u][i].listener
                                            /\ queue'[u][i].event = queue[u][i].event
  <2>1. queue'[u] = [i \in 1..Len(queue[u]) |-> Disabled(queue[u][i])]
    BY DEF DisableQueued
  <2>2. Len(queue[u]) \in Nat /\ \A i \in 1..Len(queue[u]) : queue[u][i] \in Calls
    BY <1>2
  <2>3. Len(queue'[u]) = Len(queue[u])
    <3>1. queue'[u] \in Seq(Calls) /\ DOMAIN queue'[u] = 1..Len(queue[u])
      BY <2>1 DEF Types
    <3>. QED
      BY <2>2, <3>1
  <2>. QED
    BY <1>1, <2>1, <2>2, <2>3
<1>5. \A u \in Threads : timed'[u] = {Disabled(call) : call \in timed[u]}
  BY DEF DisableQueued
<1>6. NothingJoins
  <2>1. \A l \in Listeners, e \in EventNumbers : Deferred(l, e)' => Deferred(l, e)
    BY <1>1, <1>2, <1>5 DEF Deferred
  <2>. QED
    BY <1>3, <1>4, <2>1, LineStays, StackSame DEF NothingJoins
<1>7. EmittedStays /\ SameEmissions
  BY <1>3 DEF EmittedStays, SameEmissions, Emits, Depths, Frame
<1>8. Emitting'
  BY <1>3, <1>7, EmittingStays DEF InOrder
<1>9. Homed'
  <2>1. \A u \in Threads : \A i \in 1..Len(queue'[u]) : u \in Homes[queue'[u][i].listener]
    BY <1>4 DEF InOrder, Homed
  <2>2. \A u \in Threads : \A call \in timed'[u] : u \in Homes[call.listener]
    BY <1>1, <1>2, <1>5 DEF InOrder, Homed
  <2>3. \A u \in Threads : \A k \in Depths(u)' : Frame(u, k)'.at # "resent"
    BY <1>3 DEF InOrder, Homed, Depths, Frame
  <2>4. \A u \in Threads, l \in Listeners, e \in EventNumbers : MadeFor(u, l, e)' => u \in Homes[l]
    BY <1>3, StackSame DEF InOrder, Homed
  <2>. QED
    BY <1>3, <2>1, <2>2, <2>3, <2>4 DEF InOrder, Homed
<1>10. ASSUME NEW u \in Threads, NEW c \in timed[u], NEW d \in timed[u]
       PROVE  /\ Disabled(c).event \in 1..Len(emitted) /\ emitted[Disabled(c).event] = "Deffered"
              /\ Disabled(c).listener = Disabled(d).listener /\ Disabled(c).event = Disabled(d).event
                   => Disabled(c) = Disabled(d)
  BY <1>1, <1>2 DEF InOrder, Once
<1>11. \A u \in Threads : \A c, d \in timed'[u] :
         /\ c.event \in 1..Len(emitted') /\ emitted'[c.event] = "Deffered"
         /\ c.listener = d.listener /\ c.event = d.event => c = d
  BY <1>3, <1>5, <1>10
<1>. QED
  BY <1>6, <1>7, <1>8, <1>9, <1>11, SameGoOn, InOrderWhenNothingJoins

LEMMA TakeCallOrders ==
  ASSUME SupportInv, SupportInv', InOrder, NEW t \in Threads, TakeCall(t)
  PROVE  InOrder'
<1>. USE DEF SupportInv
<1>. PICK call : call = Head(queue[t])
  OBVIOUS
<1>. PICK f : f = CallFrame(call)
  OBVIOUS
<1>. PICK g : g = stack[t][1]
  OBVIOUS
<1>. PICK n : n = Len(stack[t])
  OBVIOUS
<1>1. queue[t] \in Seq(Calls) /\ queue[t] # <<>> /\ stack[t] = <<>>
  BY DEF TakeCall, Types
<1>2. call \in Calls /\ call = queue[t][1] /\ 1 \in 1..Len(queue[t])
  BY <1>1
<1>3. /\ UNCHANGED <<m_eventListenerList, m_listenerDelegateMutex, timed, emitted, log>>
      /\ queue' = [queue EXCEPT ![t] = Tail(@)]
      /\ UNCHANGED stack \/ Enter(t, f)
  BY DEF TakeCall, listVars, countVars
<1>4. /\ f \in Frames /\ f.at = "check"
      /\ f.listener = queue[t][1].listener /\ f.event = queue[t][1].event
  BY <1>2 DEF Calls, Frames, CallFrames, CallPlaces, CallFrame
<1>5. Enter(t, f) => Pushed(t, f, g)
  BY <1>4, EnterPushes
<1>6. /\ FramesStay(t, {n + 1}) /\ (n + 1 \in Depths(t)' => Frame(t, n + 1)' = f \/ stack' = stack)
  <2>1. CASE UNCHANGED stack
    BY <2>1, StackSame DEF FramesStay
  <2>2. CASE Enter(t, f)
    <3>1. /\ FramesStay(t, {n, n + 1}) /\ Frame(t, n + 1)' = f
          /\ n \in Depths(t)' <=> stack[t] # <<>>
      BY <1>5, <2>2, TopPushed
    <3>. QED
      BY <1>1, <3>1 DEF FramesStay
  <2>. QED
    BY <1>3, <2>1, <2>2
<1>7. \A u \in Threads, l \in Listeners, e \in EventNumbers :
        MadeFor(u, l, e)' =>
          \/ MadeFor(u, l, e)
          \/ u = t /\ queue[t][1].listener = l /\ queue[t][1].event = e
  <2>1. CASE UNCHANGED stack
    BY <2>1, StackSame
  <2>2. CASE Enter(t, f)
    BY <1>4, <1>5, <2>2, CallPushed
  <2>. QED
    BY <1>3, <2>1, <2>2
<1>8. \A u \in Threads, k \in Nat : Emits(u, k)' => Emits(u, k) /\ Frame(u, k)' = Frame(u, k)
  BY <1>4, <1>6, StackSame DEF Emits, FramesStay
<1>9. SameEmissions /\ EmittedStays
  BY <1>3, <1>8 DEF SameEmissions, EmittedStays
<1>10. Emitting'
  BY <1>3, <1>9, EmittingStays DEF InOrder
<1>11. NothingJoins
  <2>1. \A l \in Listeners, e \in EventNumbers : ~MadeFor(t, l, e)
    BY <1>1 DEF MadeFor
  <2>. QED
    BY <1>1, <1>3, <1>7, <2>1, LineIsTaken DEF InOrder, NothingJoins, Deferred
<1>12. Homed'
  <2>1. \A u \in Threads : \A i \in 1..Len(queue'[u]) : u \in Homes[queue'[u][i].listener]
    <3>1. /\ Len(queue'[t]) = Len(queue[t]) - 1 /\ Len(queue[t]) \in Nat
          /\ \A i \in 1..(Len(queue[t]) - 1) : queue'[t][i] = queue[t][i + 1]
          /\ \A u \in Threads : u # t => queue'[u] = queue[u]
      BY <1>1, <1>3 DEF Types
    <3>2. \A i \in 1..Len(queue'[t]) : i + 1 \in 1..Len(queue[t]) /\ queue'[t][i] = queue[t][i + 1]
      BY <3>1
    <3>3. \A i \in 1..Len(queue'[t]) : t \in Homes[queue'[t][i].listener]
      BY <3>2 DEF InOrder, Homed
    <3>4. \A u \in Threads : u # t =>
            \A i \in 1..Len(queue'[u]) : u \in Homes[queue'[u][i].listener]
      BY <3>1 DEF InOrder, Homed
    <3>. QED
      BY <3>3, <3>4
  <2>2. \A u \in Threads : \A k \in Depths(u)' : Frame(u, k)'.at # "resent"
    BY <1>3, <1>4, <1>6, StackSame DEF FramesStay, InOrder, Homed
  <2>3. t \in Homes[queue[t][1].listener]
    BY <1>2 DEF InOrder, Homed
  <2>4. \A u \in Threads, l \in Listeners, e \in EventNumbers : MadeFor(u, l, e)' => u \in Homes[l]
    BY <1>7, <2>3 DEF InOrder, Homed
  <2>. QED
    BY <1>3, <2>1, <2>2, <2>4 DEF InOrder, Homed
<1>13. \A u \in Threads : \A c, d \in timed'[u] :
         /\ c.event \in 1..Len(emitted') /\ emitted'[c.event] = "Deffered"
         /\ c.listener = d.listener /\ c.event = d.event => c = d
  BY <1>3 DEF InOrder, Once
<1>. QED
  BY <1>9, <1>10, <1>11, <1>12, <1>13, SameGoOn, InOrderWhenNothingJoins

LEMMA GuardedEventCallOrders ==
  ASSUME SupportInv, SupportInv', InOrder, NEW t \in Threads, GuardedEventCall(t)
  PROVE  InOrder'
<1>. USE DEF SupportInv
<1>. PICK g : g = [Top(t) EXCEPT !.at = "handler"]
  OBVIOUS
<1>. PICK n : n = Len(stack[t])
  OBVIOUS
<1>. PICK l0 : l0 = Top(t).listener
  OBVIOUS
<1>. PICK e0 : e0 = Top(t).event
  OBVIOUS
<1>1. /\ stack[t] # <<>> /\ Top(t).at = "ready" /\ Top(t) \in CallFrames /\ Goto(t, "handler")
      /\ l0 \in Listeners /\ e0 \in EventNumbers
  BY TopIsFrame, PlaceTellsFrame DEF GuardedEventCall, At, CallPlaces, CallFrames
<1>2. Changed(t, g) /\ g.at = "handler"
  BY <1>1, GotoChanges DEF CallPlaces, CallFrames
<1>3. /\ UNCHANGED <<m_eventListenerList, m_listenerDelegateMutex, queue, timed, emitted>>
      /\ log' = [log EXCEPT ![l0] = Append(@, e0)]
  BY DEF GuardedEventCall, listVars, callVars
<1>4. /\ FramesStay(t, {n}) /\ Frame(t, n)' = g
      /\ \A u \in Threads, l \in Listeners, e \in EventNumbers :
           MadeFor(u, l, e)' => u # t /\ MadeFor(u, l, e)
  <2>1. Types /\ Types' /\ n = Len(stack[t]) /\ Changed(t, g)
    BY <1>2
  <2>2. TopMoves(t, g, n)
    BY ONLY <2>1, t \in Threads, TopChanged, Zenon
  <2>. QED
    BY ONLY <1>2, <2>2, t \in Threads DEF TopMoves
<1>5. SameEmissions /\ EmittedStays
  <2>1. ~Emits(t, n)'
    BY <1>2, <1>4 DEF Emits
  <2>. QED
    BY <1>3, <1>4, <2>1, EmissionsStay DEF EmittedStays
<1>6. Emitting'
  BY <1>3, <1>5, EmittingStays DEF InOrder
<1>7. Homed'
  <2>1. ASSUME NEW u \in Threads, NEW k \in Depths(u)'
        PROVE  Frame(u, k)'.at # "resent"
    <3>1. Frame(t, n)'.at # "resent"
      BY <1>2, <1>4
    <3>2. (u = t /\ k = n) \/ (k \in Depths(u) /\ Frame(u, k)' = Frame(u, k))
      BY <1>4 DEF FramesStay
    <3>. QED
      BY <3>1, <3>2 DEF InOrder, Homed
  <2>. QED
    BY <1>3, <1>4, <2>1 DEF InOrder, Homed
<1>8. NothingJoins
  <2>1. MadeFor(t, l0, e0) /\ t \in Homes[l0]
    BY <1>1 DEF MadeFor, InOrder, Homed
  <2>. QED
    BY <1>1, <1>3, <1>4, <1>7, <2>1, LineIsServed DEF InOrder, NothingJoins, Deferred
<1>9. \A u \in Threads : \A c, d \in timed'[u] :
        /\ c.event \in 1..Len(emitted') /\ emitted'[c.event] = "Deffered"
        /\ c.listener = d.listener /\ c.event = d.event => c = d
  BY <1>3 DEF InOrder, Once
<1>. QED
  BY <1>5, <1>6, <1>7, <1>8, <1>9, SameGoOn, InOrderWhenNothingJoins

LEMMA InOrderWhenOneJoins ==
  ASSUME InOrder, SameEmissions, emitted' = emitted, Homed', Emitting',
         NEW l0 \in Listeners, NEW e0 \in EventNumbers,
         ~InLine(l0, e0), Passed(l0, e0)', ~Deferred(l0, e0)',
         \A l \in Listeners, e \in EventNumbers :
           InLine(l, e)' => InLine(l, e) \/ (l = l0 /\ e = e0),
         \A l \in Listeners, e, f \in EventNumbers :
           Before(l, e, f)' => \/ Before(l, e, f)
                               \/ l = l0 /\ e = e0 /\ InLine(l, f) /\ ~IsQueued(e0)
                               \/ l = l0 /\ f = e0 /\ InLine(l, e),
         \A t \in Threads : timed'[t] \subseteq timed[t],
         IsQueued(e0) => \E t \in Threads, k \in Nat :
           Emits(t, k) /\ Frame(t, k).at = "post" /\ Frame(t, k).event = e0
  PROVE  InOrder'
<1>1. \A l \in Listeners, e \in EventNumbers : Deferred(l, e)' => Deferred(l, e)
  BY DEF Deferred
<1>2. /\ Posted' /\ Ordered'
      /\ \A l \in Listeners, e \in EventNumbers : ~Before(l, e, e)'
      /\ \A l \in Listeners, e \in EventNumbers : Deferred(l, e)' => ~InLine(l, e)'
  BY <1>1, OneJoinsLines DEF InOrder
<1>3. Once'
  BY <1>2 DEF InOrder, Once
<1>. QED
  BY <1>2, <1>3 DEF InOrder, OneHome

LEMMA CallIsDueOrders ==
  ASSUME SupportInv, SupportInv', InOrder, NEW t \in Threads, CallIsDue(t)
  PROVE  InOrder'
<1>. USE DEF SupportInv
<1>1. PICK call \in timed[t] : /\ timed' = [timed EXCEPT ![t] = @ \ {call}]
                               /\ queue' = [queue EXCEPT ![t] = Append(@, call)]
  BY DEF CallIsDue
<1>. PICK l0 : l0 = call.listener
  OBVIOUS
<1>. PICK e0 : e0 = call.event
  OBVIOUS
<1>2. /\ call \in Calls /\ l0 \in Listeners /\ e0 \in EventNumbers
      /\ queue[t] \in Seq(Calls) /\ t \in Homes[l0]
      /\ timed'[t] = timed[t] \ {call} /\ \A u \in Threads : u # t => timed'[u] = timed[u]
  BY <1>1 DEF Types, Calls, InOrder, Homed
<1>3. UNCHANGED <<m_eventListenerList, m_listenerDelegateMutex, emitted, log, stack>>
  BY DEF CallIsDue, listVars, countVars
<1>4. SameEmissions
  BY <1>3 DEF SameEmissions, Emits, Depths, Frame
<1>5. Emitting'
  BY <1>3, <1>4, EmittingStays DEF InOrder
<1>6. \A u \in Threads, l \in Listeners, e \in EventNumbers : MadeFor(u, l, e)' => MadeFor(u, l, e)
  BY <1>3, StackSame
<1>7. Homed'
  <2>1. \A u \in Threads : \A i \in 1..Len(queue'[u]) : u \in Homes[queue'[u][i].listener]
    <3>1. /\ Len(queue'[t]) = Len(queue[t]) + 1 /\ Len(queue[t]) \in Nat
          /\ queue'[t][Len(queue[t]) + 1] = call
          /\ \A i \in 1..Len(queue[t]) : queue'[t][i] = queue[t][i]
          /\ \A u \in Threads : u # t => queue'[u] = queue[u]
      BY <1>1, <1>2 DEF Types
    <3>2. \A i \in 1..Len(queue'[t]) :
            queue'[t][i] = call \/ (i \in 1..Len(queue[t]) /\ queue'[t][i] = queue[t][i])
      BY <3>1
    <3>. QED
      BY <1>2, <3>1, <3>2 DEF InOrder, Homed
  <2>2. \A u \in Threads : \A k \in Depths(u)' : Frame(u, k)'.at # "resent"
    BY <1>3 DEF InOrder, Homed, Depths, Frame
  <2>3. \A u \in Threads : \A c \in timed'[u] : c \in timed[u]
    BY <1>2
  <2>. QED
    BY <1>3, <1>6, <2>1, <2>2, <2>3 DEF InOrder, Homed
<1>8. Deferred(l0, e0) /\ emitted[e0] = "Deffered" /\ e0 \in 1..Len(emitted)
  BY <1>1 DEF Deferred, InOrder, Once
<1>9. ~Deferred(l0, e0)'
  <2>. SUFFICES ASSUME NEW u \in Threads, NEW c \in timed'[u], c.listener = l0, c.event = e0
                PROVE  FALSE
    BY DEF Deferred
  <2>1. c \in timed[u]
    BY <1>2
  <2>2. u \in Homes[l0]
    BY <2>1 DEF InOrder, Homed
  <2>3. u = t
    BY <1>2, <2>2 DEF InOrder, OneHome
  <2>4. c = call
    BY <2>1, <2>3 DEF InOrder, Once
  <2>. QED
    BY <1>2, <2>3, <2>4
<1>10. ~InLine(l0, e0) /\ Passed(l0, e0)
  BY <1>2, <1>8 DEF InOrder, Once, Posted
<1>11. Passed(l0, e0)'
  BY <1>2, <1>3, <1>4, <1>10, SameGoOn, PassedStays DEF EmittedStays
<1>12. /\ \A l \in Listeners, e \in EventNumbers :
             InLine(l, e)' => InLine(l, e) \/ (l = l0 /\ e = e0)
       /\ \A l \in Listeners, e, f \in EventNumbers :
             Before(l, e, f)' => \/ Before(l, e, f)
                                 \/ l = l0 /\ f = e0 /\ InLine(l, e)
  BY <1>1, <1>2, <1>3, <1>6, LineGrows DEF InOrder
<1>13. ~IsQueued(e0)
  BY <1>8 DEF IsQueued
<1>14. \A u \in Threads : timed'[u] \subseteq timed[u]
  BY <1>2
<1>. QED
  BY <1>2, <1>3, <1>4, <1>5, <1>7, <1>9, <1>10, <1>11, <1>12, <1>13, <1>14, InOrderWhenOneJoins

\* The listener that the emission t posts comes to next.
LEMMA NextIsPassed ==
  ASSUME InOrder, SameEmissions, emitted' = emitted, NEW t \in Threads, NEW n \in Nat,
         NEW l0 \in Listeners, NEW e0 \in EventNumbers,
         Emits(t, n), Frame(t, n).event = e0, l0 \in Frame(t, n).todo,
         Frame(t, n)'.at = "post" /\ l0 \notin Frame(t, n)'.todo
  PROVE  ~InLine(l0, e0) /\ ~Deferred(l0, e0) /\ Passed(l0, e0)'
<1>1. ~Passed(l0, e0)
  BY DEF Passed
<1>2. e0 \in 1..Len(emitted')
  BY DEF InOrder, Emitting
<1>3. ASSUME NEW u \in Threads, NEW k \in Nat, Emits(u, k)', Frame(u, k)'.event = e0
      PROVE  Frame(u, k)'.at = "post" /\ l0 \notin Frame(u, k)'.todo
  <2>1. Emits(u, k) /\ Frame(u, k).event = e0
    BY <1>3 DEF SameEmissions
  <2>2. u = t /\ k = n
    BY <2>1 DEF InOrder, Emitting
  <2>. QED
    BY <2>2
<1>. QED
  BY <1>1, <1>2, <1>3 DEF InOrder, Posted, Passed

LEMMA CallDirectlyOrders ==
  ASSUME SupportInv, SupportInv', InOrder, NEW t \in Threads, CallDirectly(t)
  PROVE  InOrder'
<1>. USE DEF SupportInv
<1>1. PICK l0 \in Top(t).todo :
        /\ Direct(t, l0)
        /\ stack' = [stack EXCEPT ![t] = <<[at |-> "direct", listener |-> l0]>> \o
                       <<[Top(t) EXCEPT !.todo = @ \ {l0}]>> \o Tail(@)]
        /\ log' = [log EXCEPT ![l0] = Append(@, Top(t).event)]
  BY DEF CallDirectly
<1>. PICK f : f = [at |-> "direct", listener |-> l0]
  OBVIOUS
<1>. PICK g : g = [Top(t) EXCEPT !.todo = @ \ {l0}]
  OBVIOUS
<1>. PICK n : n = Len(stack[t])
  OBVIOUS
<1>. PICK e0 : e0 = Top(t).event
  OBVIOUS
<1>2. stack[t] # <<>> /\ Top(t) = stack[t][1] /\ Top(t).at = "post" /\ Top(t) \in EmitFrames
  BY TopIsFrame, PlaceTellsFrame DEF CallDirectly, At, EmitPlaces
<1>3. /\ l0 \in Listeners /\ f \in Frames /\ g \in Frames /\ f.at = "direct" /\ g.at = "post"
      /\ g.event = e0 /\ g.mode = Top(t).mode /\ g.todo = Top(t).todo \ {l0} /\ e0 \in EventNumbers
  BY <1>1, <1>2 DEF Frames, EmitFrames
<1>4. Pushed(t, f, g)
  BY <1>1, <1>2, <1>3, CallPushes
<1>5. /\ UNCHANGED <<m_eventListenerList, m_listenerDelegateMutex, queue, timed, emitted>>
      /\ log' = [log EXCEPT ![l0] = Append(@, e0)]
  BY <1>1 DEF CallDirectly, listVars, callVars
<1>6. /\ n \in Nat /\ n + 1 \in Depths(t)' /\ Frame(t, n + 1)' = f
      /\ n \in Depths(t)' <=> stack[t] # <<>>
      /\ stack[t] # <<>> => /\ Frame(t, n)' = g /\ n \in Depths(t) /\ Frame(t, n) = Top(t)
      /\ FramesStay(t, {n, n + 1})
  BY <1>4, TopPushed
<1>7. \A u \in Threads, l \in Listeners, e \in EventNumbers : MadeFor(u, l, e)' => MadeFor(u, l, e)
  BY <1>3, <1>4, CallPushed
<1>8. Emits(t, n) /\ SameEmissions
  <2>1. Emits(t, n) /\ ~Emits(t, n + 1)'
    BY <1>2, <1>3, <1>6 DEF Emits
  <2>2. /\ Frame(t, n)'.event = Frame(t, n).event
        /\ Frame(t, n)'.at = Frame(t, n).at /\ Frame(t, n)'.mode = Frame(t, n).mode
        /\ Frame(t, n)'.todo \subseteq Frame(t, n).todo
    BY <1>2, <1>3, <1>6
  <2>. QED
    BY <1>6, <2>1, <2>2, EmissionsStay
<1>9. Emitting'
  BY <1>5, <1>8, EmittingStays DEF InOrder
<1>10. Homed'
  <2>1. ASSUME NEW u \in Threads, NEW k \in Depths(u)'
        PROVE  Frame(u, k)'.at # "resent"
    <3>1. Frame(t, n)'.at # "resent" /\ Frame(t, n + 1)'.at # "resent"
      BY <1>2, <1>3, <1>6
    <3>2. (u = t /\ (k = n \/ k = n + 1)) \/ (k \in Depths(u) /\ Frame(u, k)' = Frame(u, k))
      BY <1>6 DEF FramesStay
    <3>. QED
      BY <3>1, <3>2 DEF InOrder, Homed
  <2>. QED
    BY <1>5, <1>7, <2>1 DEF InOrder, Homed
<1>11. ~InLine(l0, e0) /\ ~Deferred(l0, e0) /\ Passed(l0, e0)'
  <2>1. /\ Frame(t, n).event = e0 /\ l0 \in Frame(t, n).todo
        /\ Frame(t, n)'.at = "post" /\ l0 \notin Frame(t, n)'.todo
    BY <1>2, <1>3, <1>6
  <2>. QED
    BY <1>3, <1>5, <1>6, <1>8, <2>1, NextIsPassed
<1>12. ~IsQueued(e0)
  BY <1>1, <1>2, <1>6, <1>8 DEF IsQueued, Direct, InOrder, Emitting
<1>13. ~Deferred(l0, e0)' /\ \A u \in Threads : timed'[u] \subseteq timed[u]
  BY <1>5, <1>11 DEF Deferred
<1>14. /\ \A l \in Listeners, e \in EventNumbers :
             InLine(l, e)' => InLine(l, e) \/ (l = l0 /\ e = e0)
       /\ \A l \in Listeners, e, f1 \in EventNumbers :
             Before(l, e, f1)' => \/ Before(l, e, f1)
                                  \/ l = l0 /\ e = e0 /\ InLine(l, f1)
                                  \/ l = l0 /\ f1 = e0 /\ InLine(l, e)
  BY <1>3, <1>5, <1>7, LineIsJumped
<1>. QED
  BY <1>3, <1>5, <1>8, <1>9, <1>10, <1>11, <1>12, <1>13, <1>14, InOrderWhenOneJoins

LEMMA InOrderWhenDeferred ==
  ASSUME InOrder, SameEmissions, emitted' = emitted, Homed', Emitting',
         NEW l0 \in Listeners, NEW e0 \in EventNumbers,
         ~InLine(l0, e0), ~Deferred(l0, e0), Passed(l0, e0)', emitted[e0] = "Deffered",
         \A l \in Listeners, e \in EventNumbers : InLine(l, e)' => InLine(l, e),
         \A l \in Listeners, e, f \in EventNumbers : Before(l, e, f)' => Before(l, e, f),
         NEW u \in Threads, NEW call \in Calls, call.listener = l0, call.event = e0,
         timed' = [timed EXCEPT ![u] = @ \cup {call}], Types
  PROVE  InOrder'
<1>1. /\ timed'[u] = timed[u] \cup {call} /\ \A t \in Threads : t # u => timed'[t] = timed[t]
      /\ \A t \in Threads : timed[t] \subseteq Calls
  BY DEF Types
<1>2. \A l \in Listeners, e \in EventNumbers :
        Deferred(l, e)' => Deferred(l, e) \/ (l = l0 /\ e = e0)
  BY <1>1 DEF Deferred
<1>3. EmittedStays /\ EmissionsGoOn
  BY SameGoOn DEF EmittedStays
<1>4. Posted'
  BY <1>2, <1>3, PassedStays DEF InOrder, Posted
<1>5. Ordered'
  BY <1>3, OrderedStays DEF InOrder
<1>6. \A t \in Threads : \A c \in timed[t] : ~(c.listener = l0 /\ c.event = e0)
  BY DEF Deferred
<1>7. e0 \in 1..Len(emitted)
  BY DEF Passed
<1>8. ASSUME NEW t \in Threads, NEW c \in timed'[t], NEW d \in timed'[t]
      PROVE  /\ c.event \in 1..Len(emitted') /\ emitted'[c.event] = "Deffered"
             /\ c.listener = d.listener /\ c.event = d.event => c = d
  <2>1. (c \in timed[t] \/ c = call) /\ (d \in timed[t] \/ d = call)
    BY <1>1
  <2>2. CASE c \in timed[t] /\ d \in timed[t]
    BY <2>2 DEF InOrder, Once
  <2>3. CASE c = call
    BY <1>6, <1>7, <2>1, <2>3
  <2>4. CASE d = call /\ c \in timed[t]
    BY <1>6, <2>4 DEF InOrder, Once
  <2>. QED
    BY <2>1, <2>2, <2>3, <2>4
<1>9. Once'
  <2>1. \A l \in Listeners, e \in EventNumbers : ~Before(l, e, e)'
    BY DEF InOrder, Once
  <2>2. \A l \in Listeners, e \in EventNumbers : Deferred(l, e)' => ~InLine(l, e)'
    BY <1>2 DEF InOrder, Once
  <2>. QED
    BY <1>8, <2>1, <2>2 DEF Once
<1>. QED
  BY <1>4, <1>5, <1>9 DEF InOrder, OneHome

LEMMA AddEventCallOrders ==
  ASSUME SupportInv, SupportInv', InOrder, NEW t \in Threads, AddEventCall(t)
  PROVE  InOrder'
<1>. USE DEF SupportInv
<1>1. PICK l0 \in Top(t).todo :
        LET target == m_eventListenerList[l0] IN
        /\ IF Top(t).mode = "Deffered"
           THEN /\ timed' = [timed EXCEPT ![target] = @ \cup {NewCall(t, l0)}]
                /\ UNCHANGED queue
           ELSE /\ queue' = [queue EXCEPT ![target] = Append(@, NewCall(t, l0))]
                /\ UNCHANGED timed
        /\ stack' = [stack EXCEPT ![t][1].todo = @ \ {l0}]
  BY DEF AddEventCall
<1>. PICK target : target = m_eventListenerList[l0]
  OBVIOUS
<1>. PICK call : call = NewCall(t, l0)
  OBVIOUS
<1>. PICK g : g = [stack[t][1] EXCEPT !.todo = @ \ {l0}]
  OBVIOUS
<1>. PICK n : n = Len(stack[t])
  OBVIOUS
<1>. PICK e0 : e0 = Top(t).event
  OBVIOUS
<1>2. stack[t] # <<>> /\ Top(t) = stack[t][1] /\ Top(t).at = "post" /\ Top(t) \in EmitFrames
  BY TopIsFrame, PlaceTellsFrame DEF AddEventCall, At, EmitPlaces
<1>3. /\ l0 \in Listeners /\ g \in Frames /\ g.at = "post"
      /\ g.event = e0 /\ g.mode = Top(t).mode /\ g.todo = Top(t).todo \ {l0} /\ e0 \in EventNumbers
  BY <1>1, <1>2 DEF Frames, EmitFrames
<1>4. call \in Calls /\ call.listener = l0 /\ call.event = e0
  BY <1>3 DEF NewCall, Calls
<1>5. stack' = [stack EXCEPT ![t] = [stack[t] EXCEPT ![1] = g]]
  BY <1>1, <1>2
<1>6. Changed(t, g)
  BY <1>2, <1>3, <1>5, ReplacementChanges
<1>7. UNCHANGED <<m_eventListenerList, m_listenerDelegateMutex, emitted, log>>
  BY DEF AddEventCall, listVars, countVars
<1>8. /\ n \in Nat /\ n \in Depths(t) /\ Frame(t, n) = Top(t) /\ Frame(t, n)' = g
      /\ FramesStay(t, {n})
      /\ \A u \in Threads, l \in Listeners, e \in EventNumbers :
           MadeFor(u, l, e)' =>
             \/ u # t /\ MadeFor(u, l, e)
             \/ u = t /\ g.at \in {"check", "ready"} /\ g.listener = l /\ g.event = e
  <2>1. Types /\ Types' /\ n = Len(stack[t]) /\ Changed(t, g)
    BY <1>6
  <2>2. TopMoves(t, g, n)
    BY ONLY <2>1, t \in Threads, TopChanged, Zenon
  <2>. QED
    BY ONLY <2>2, t \in Threads DEF TopMoves
<1>9. Emits(t, n) /\ SameEmissions
  <2>1. Emits(t, n)
    BY <1>2, <1>8 DEF Emits
  <2>2. /\ Frame(t, n)'.event = Frame(t, n).event
        /\ Frame(t, n)'.at = Frame(t, n).at /\ Frame(t, n)'.mode = Frame(t, n).mode
        /\ Frame(t, n)'.todo \subseteq Frame(t, n).todo
    BY <1>2, <1>3, <1>8
  <2>3. FramesStay(t, {n})
    BY <1>8
  <2>. QED
    BY <2>1, <2>2, <2>3, EmissionsStay
<1>10. Emitting'
  BY <1>7, <1>9, EmittingStays DEF InOrder
<1>11. ~InLine(l0, e0) /\ ~Deferred(l0, e0) /\ Passed(l0, e0)'
  <2>1. /\ Frame(t, n).event = e0 /\ l0 \in Frame(t, n).todo
        /\ Frame(t, n)'.at = "post" /\ l0 \notin Frame(t, n)'.todo
    BY <1>2, <1>3, <1>8
  <2>. QED
    BY <1>3, <1>7, <1>8, <1>9, <2>1, NextIsPassed
<1>12. emitted[e0] = Top(t).mode
  BY <1>2, <1>8, <1>9 DEF InOrder, Emitting
<1>13. \A u \in Threads, l \in Listeners, e \in EventNumbers : MadeFor(u, l, e)' => MadeFor(u, l, e)
  BY <1>3, <1>8
<1>14. \A u \in Threads : \A k \in Depths(u)' : Frame(u, k)'.at # "resent"
  <2>. SUFFICES ASSUME NEW u \in Threads, NEW k \in Depths(u)'
                PROVE  Frame(u, k)'.at # "resent"
    OBVIOUS
  <2>1. Frame(t, n)'.at # "resent"
    BY <1>3, <1>8
  <2>2. (u = t /\ k = n) \/ (k \in Depths(u) /\ Frame(u, k)' = Frame(u, k))
    BY <1>8 DEF FramesStay
  <2>. QED
    BY <2>1, <2>2 DEF InOrder, Homed
<1>15. CASE target \notin Threads
  <2>1. queue' = queue /\ timed' = timed
    BY <1>1, <1>15 DEF Types
  <2>. QED
    BY <1>7, <1>9, <1>13, <1>14, <2>1, QuietStep
<1>16. target \in Threads => target \in Homes[l0]
  BY <1>3, EventSupportAssumption DEF InOrder, Homed
<1>17. CASE target \in Threads /\ Top(t).mode = "Deffered"
  <2>1. queue' = queue /\ timed' = [timed EXCEPT ![target] = @ \cup {call}]
    BY <1>1, <1>17
  <2>2. \A u \in Threads : \A c \in timed'[u] : u \in Homes[c.listener]
    BY <1>4, <1>16, <1>17, <2>1 DEF InOrder, Homed, Types
  <2>3. Homed'
    BY <1>7, <1>13, <1>14, <2>1, <2>2 DEF InOrder, Homed
  <2>4. /\ \A l \in Listeners, e \in EventNumbers : InLine(l, e)' => InLine(l, e)
        /\ \A l \in Listeners, e, f \in EventNumbers : Before(l, e, f)' => Before(l, e, f)
    BY <1>7, <1>13, <2>1, LineStays
  <2>. QED
    BY <1>3, <1>4, <1>7, <1>9, <1>10, <1>11, <1>12, <1>17, <2>1, <2>3, <2>4, InOrderWhenDeferred
<1>18. CASE target \in Threads /\ Top(t).mode # "Deffered"
  <2>1. timed' = timed /\ queue' = [queue EXCEPT ![target] = Append(@, call)]
    BY <1>1, <1>18
  <2>2. \A u \in Threads : \A i \in 1..Len(queue'[u]) : u \in Homes[queue'[u][i].listener]
    <3>1. /\ Len(queue'[target]) = Len(queue[target]) + 1 /\ Len(queue[target]) \in Nat
          /\ queue'[target][Len(queue[target]) + 1] = call
          /\ \A i \in 1..Len(queue[target]) : queue'[target][i] = queue[target][i]
          /\ \A u \in Threads : u # target => queue'[u] = queue[u]
      <4>1. queue[target] \in Seq(Calls) /\ queue'[target] = Append(queue[target], call)
            /\ \A u \in Threads : u # target => queue'[u] = queue[u]
        BY <1>18, <2>1 DEF Types
      <4>. QED
        BY <1>4, <4>1
    <3>2. \A i \in 1..Len(queue'[target]) :
            queue'[target][i] = call \/ (i \in 1..Len(queue[target]) /\ queue'[target][i] = queue[target][i])
      BY <3>1
    <3>3. \A i \in 1..Len(queue'[target]) : target \in Homes[queue'[target][i].listener]
      BY <1>4, <1>16, <1>18, <3>2 DEF InOrder, Homed
    <3>4. \A u \in Threads : u # target =>
            \A i \in 1..Len(queue'[u]) : u \in Homes[queue'[u][i].listener]
      BY <3>1 DEF InOrder, Homed
    <3>. QED
      BY <3>3, <3>4
  <2>3. Homed'
    BY <1>7, <1>13, <1>14, <2>1, <2>2 DEF InOrder, Homed
  <2>4. /\ \A l \in Listeners, e \in EventNumbers :
              InLine(l, e)' => InLine(l, e) \/ (l = l0 /\ e = e0)
        /\ \A l \in Listeners, e, f \in EventNumbers :
              Before(l, e, f)' => \/ Before(l, e, f)
                                  \/ l = l0 /\ f = e0 /\ InLine(l, e)
    BY <1>4, <1>7, <1>13, <1>16, <1>18, <2>1, LineGrows DEF InOrder
  <2>5. ~Deferred(l0, e0)' /\ \A u \in Threads : timed'[u] \subseteq timed[u]
    BY <1>11, <2>1 DEF Deferred
  <2>6. \E u \in Threads, k \in Nat :
          Emits(u, k) /\ Frame(u, k).at = "post" /\ Frame(u, k).event = e0
    BY <1>2, <1>8, <1>9
  <2>. QED
    BY <1>3, <1>7, <1>9, <1>10, <1>11, <2>3, <2>4, <2>5, <2>6, InOrderWhenOneJoins
<1>. QED
  BY <1>15, <1>17, <1>18

-------------------------------------------------------------------------------
(***************************************************************************)
(* The theorems.                                                           *)
(***************************************************************************)


LEMMA LinesInit == Init => LinesInv
<1>. SUFFICES ASSUME Init, Settled PROVE InOrder
  BY DEF LinesInv
<1>1. OneHome
  BY DEF Settled, OneHome
<1>2. /\ \A t \in Threads : stack[t] = <<>> /\ Len(stack[t]) = 0 /\ Len(queue[t]) = 0 /\ timed[t] = {}
      /\ \A l \in Listeners : Len(log[l]) = 0 /\ m_eventListenerList[l] = NoOne
      /\ emitted = <<>> /\ Len(emitted) = 0
  BY DEF Init
<1>3. /\ \A t \in Threads : Depths(t) = {}
      /\ \A t \in Threads, k \in Nat : ~Emits(t, k)
      /\ \A t \in Threads, l \in Listeners, e \in EventNumbers : ~MadeFor(t, l, e)
      /\ \A l \in Listeners, e \in EventNumbers : ~Deferred(l, e)
  BY <1>2 DEF Depths, Emits, MadeFor, Deferred
<1>4. \A l \in Listeners, e \in EventNumbers, p \in Nat : ~Stands(l, e, p)
  BY <1>2, <1>3 DEF Stands
<1>5. Homed /\ Emitting
  BY <1>2, <1>3 DEF Homed, Emitting
<1>6. Posted /\ Once /\ Ordered
  BY <1>2, <1>3, <1>4 DEF Posted, Once, Ordered, LastInLine, InLine, Before
<1>. QED
  BY <1>1, <1>5, <1>6 DEF InOrder

\* What the listeners of a program without switches receive stays in its lines.
LEMMA ObjectStepOrders ==
  ASSUME SupportInv, SupportInv', InOrder, NEW t \in Threads, ObjectStep(t)
  PROVE  InOrder'
BY LockListenersOrders, CallDirectlyOrders, LeavingOrders, GoingOnOrders, AddEventCallOrders,
   CallIsDueOrders, TakeCallOrders, ReceiveOrders, GuardedEventCallOrders, DisableQueuedOrders,
   DisableCalledOrders DEF ObjectStep

LEMMA OnlySwitchesCount ==
  ASSUME NEW t \in Threads, ObjectStep(t)
  PROVE  switches' = switches
<1>1. UNCHANGED countVars \/ UNCHANGED <<emitted, switches>>
  BY DEF ObjectStep, LockListeners, CallDirectly, EndDirect, AddEventCall, EndPosting, AwaitBarrier,
         CallIsDue, TakeCall, ReceiveAbstractEventCall, ReceiveWith, EndResent, GuardedEventCall,
         EndHandler, DestroyData, RemoveEventCall, DisableQueued, DisableCalled, EndDestroy
<1>. QED
  BY <1>1 DEF countVars

LEMMA ClientStepOrders ==
  ASSUME SupportInv, SupportInv', switches = 0 => InOrder, NEW t \in Threads, ClientStep(t),
         switches' = 0
  PROVE  InOrder'
<1>1. ASSUME NEW some, NEW u \in Threads, SwitchListeners(t, some, u)
      PROVE  FALSE
  BY <1>1 DEF SwitchListeners, SupportInv, Types
<1>2. \/ \E l \in Listeners : AddListener(t, l) \/ RemoveListener(t, l)
      \/ \E mode \in Modes : EmitEvent(t, mode)
      \/ Destroy(t)
  BY <1>1 DEF ClientStep, SwitchListenerToThread, SwitchAllListenersToThread
<1>3. switches' = switches
  BY <1>2 DEF AddListener, RemoveListener, EmitEvent, Destroy, countVars
<1>. QED
  BY <1>2, <1>3, ListOrders, EmitEventOrders, DestroyOrders

LEMMA LinesNext == SupportInv /\ SupportInv' /\ LinesInv /\ [Next]_vars => LinesInv'
<1>. SUFFICES ASSUME SupportInv, SupportInv', LinesInv, [Next]_vars, Settled'
              PROVE  InOrder'
  BY DEF LinesInv
<1>1. switches' = 0 /\ (switches = 0 => InOrder)
  BY DEF Settled, LinesInv
<1>2. CASE UNCHANGED vars
  <2>1. UNCHANGED <<m_eventListenerList, m_listenerDelegateMutex, queue, timed, stack, emitted,
                    switches, log>>
    BY <1>2 DEF vars, listVars, callVars, countVars
  <2>2. InOrder
    BY <1>1, <2>1
  <2>3. SameEmissions /\ \A u \in Threads : \A k \in Depths(u)' : Frame(u, k)'.at # "resent"
    BY <2>1, <2>2 DEF SameEmissions, Emits, Depths, Frame, InOrder, Homed
  <2>. QED
    BY <2>1, <2>2, <2>3, StackSame, QuietStep DEF SupportInv
<1>3. ASSUME NEW t \in Threads, ObjectStep(t)
      PROVE  InOrder'
  BY <1>1, <1>3, OnlySwitchesCount, ObjectStepOrders
<1>4. ASSUME NEW t \in Threads, ClientStep(t)
      PROVE  InOrder'
  BY <1>1, <1>4, ClientStepOrders
<1>. QED
  BY <1>2, <1>3, <1>4 DEF Next

LEMMA LinesHold == Spec => [](SupportInv /\ LinesInv)
BY SupportInit, SupportNext, LinesInit, LinesNext, PTL DEF Spec

\* What a handler received stands in its line, in that order.
LEMMA ReceivedInLine ==
  ASSUME Types, NEW l \in Listeners, NEW i \in 1..Len(log[l]), NEW j \in 1..Len(log[l]), i < j
  PROVE  Before(l, log[l][i], log[l][j]) /\ log[l][i] \in EventNumbers /\ log[l][j] \in EventNumbers
<1>1. log[l] \in Seq(EventNumbers)
  BY DEF Types
<1>2. i \in Nat /\ j \in Nat /\ log[l][i] \in EventNumbers /\ log[l][j] \in EventNumbers
  BY <1>1
<1>3. Stands(l, log[l][i], i) /\ Stands(l, log[l][j], j)
  BY DEF Stands
<1>. QED
  BY <1>2, <1>3 DEF Before

\* EmitEvent and the receiving thread (event_support.h) bring an event to a listener
\* at most once: for all modes, listeners that are registered and removed while it is
\* on its way, handlers that emit again, and a destructor, as long as every listener
\* stays in one thread.
THEOREM EventsAreHandledOnce == Spec => []HandledOnce
<1>1. SupportInv /\ LinesInv => ReceivedOnce
  <2>. SUFFICES ASSUME SupportInv, InOrder, NEW l \in Listeners,
                       NEW i \in 1..Len(log[l]), NEW j \in 1..Len(log[l]), log[l][i] = log[l][j]
                PROVE  i = j
    BY DEF LinesInv, ReceivedOnce
  <2>1. i < j \/ j < i \/ i = j
    OBVIOUS
  <2>2. ~(i < j) /\ ~(j < i)
    BY ReceivedInLine DEF SupportInv, InOrder, Once
  <2>. QED
    BY <2>1, <2>2
<1>. QED
  BY TypesAreKept, LinesHold, <1>1, PTL DEF HandledOnce

\* The mutex that EmitEvent (event_support.h) keeps while it posts makes all listeners
\* see queued events in one order, whichever threads emit them and serve them.
THEOREM QueuedEventsKeepOrder == Spec => []SameOrder
<1>1. SupportInv /\ LinesInv => SameOrder
  <2>. SUFFICES ASSUME SupportInv, InOrder, NEW l \in Listeners, NEW m \in Listeners,
                       NEW e \in 1..Len(emitted), NEW f \in 1..Len(emitted),
                       emitted[e] = "Queued", emitted[f] = "Queued",
                       Precedes(l, e, f), Precedes(m, f, e)
                PROVE  FALSE
    BY DEF LinesInv, SameOrder
  <2>1. Before(l, e, f) /\ Before(m, f, e) /\ e \in EventNumbers /\ f \in EventNumbers
    BY ReceivedInLine DEF Precedes, SupportInv
  <2>. QED
    BY <2>1 DEF InOrder, Ordered, IsQueued
<1>. QED
  BY LinesHold, <1>1, PTL
===============================================================================
