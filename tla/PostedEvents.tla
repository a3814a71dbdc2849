----------------------------- MODULE PostedEvents -----------------------------
(***************************************************************************)
(* What the event dispatcher of the main loop promises: events are         *)
(* delivered once per posting and one at a time, those of one sender in    *)
(* the order it posted them, timed events when their time has come, none   *)
(* after the dispatcher is gone.  Unlike EventQueue there is no order      *)
(* between senders: an event that the main thread posts overtakes those    *)
(* that other threads have posted before it.                               *)
(***************************************************************************)
EXTENDS Integers, Sequences

CONSTANTS
  Senders,
  Events,       \* the events that are posted
  TimedEvents,  \* those that are posted with a delay
  Sender,       \* Sender[e]: who posts e
  Idle,         \* the time of a timed event that is not pending
  NoEvent

VARIABLES
  queue,        \* queue[s]: what s has posted and is not delivered, oldest first
  earliest,     \* earliest[e]: when a pending timed event may be delivered
  current,      \* the event that is being delivered, or NoEvent
  clock

vars == <<queue, earliest, current, clock>>

Nothing == [s \in Senders |-> <<>>]
NoTimers == [e \in TimedEvents |-> Idle]

Init ==
  /\ queue = Nothing
  /\ earliest = NoTimers
  /\ current = NoEvent
  /\ clock = 0

Post(e) ==
  /\ queue' = [queue EXCEPT ![Sender[e]] = Append(@, e)]
  /\ UNCHANGED <<earliest, current, clock>>

Arm(e) ==
  /\ earliest[e] = Idle
  /\ earliest' = [earliest EXCEPT ![e] = earliest'[e]]
  /\ earliest'[e] >= clock
  /\ UNCHANGED <<queue, current, clock>>

Deliver(s) ==
  /\ current = NoEvent
  /\ queue[s] # <<>>
  /\ current' = Head(queue[s])
  /\ queue' = [queue EXCEPT ![s] = Tail(@)]
  /\ UNCHANGED <<earliest, clock>>

Fire(e) ==
  /\ current = NoEvent
  /\ earliest[e] # Idle
  /\ earliest[e] <= clock
  /\ current' = e
  /\ earliest' = [earliest EXCEPT ![e] = Idle]
  /\ UNCHANGED <<queue, clock>>

Return ==
  /\ current # NoEvent
  /\ current' = NoEvent
  /\ UNCHANGED <<queue, earliest, clock>>

Advance ==
  /\ clock' = clock + 1
  /\ UNCHANGED <<queue, earliest, current>>

\* The dispatcher is destroyed, or the process ends: the rest is dropped.
End ==
  /\ current = NoEvent
  /\ queue' = Nothing
  /\ earliest' = NoTimers
  /\ UNCHANGED <<current, clock>>

Next ==
  \/ \E e \in Events : Post(e)
  \/ \E e \in TimedEvents : Arm(e) \/ Fire(e)
  \/ \E s \in Senders : Deliver(s)
  \/ Return
  \/ Advance
  \/ End

Spec == Init /\ [][Next]_vars
===============================================================================
