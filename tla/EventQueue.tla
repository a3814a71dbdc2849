------------------------------ MODULE EventQueue ------------------------------
(***************************************************************************)
(* What DPL::Thread promises the clients that post events to it: one FIFO  *)
(* queue per thread, served only while the thread runs its event loop.     *)
(* An event is delivered once per posting, in posting order; a timed event *)
(* joins the queue once its due time has come, never ahead of an earlier   *)
(* one; nothing leaves the queue undelivered before the thread object is   *)
(* destroyed.  The locks, the wake-up pipes, the select call and the       *)
(* stealing of the event list are those of Thread, which implements this.  *)
(***************************************************************************)
EXTENDS Integers, Sequences

CONSTANTS
  Events,       \* the events clients post
  TimedEvents,  \* the events posted with a due time
  Idle          \* the due time of an event that is not waiting for one

VARIABLES
  queue,        \* the events waiting to be delivered, oldest first
  timer,        \* timer[e]: the due time of e, or Idle
  clock,        \* the time the due times are compared with
  serving       \* the thread is executing its event loop

vars == <<queue, timer, clock, serving>>

Waiting == {e \in TimedEvents : timer[e] # Idle}

Init ==
  /\ queue = <<>>
  /\ timer = [e \in TimedEvents |-> Idle]
  /\ clock = 0
  /\ serving = FALSE

Post(e) ==
  /\ queue' = Append(queue, e)
  /\ UNCHANGED <<timer, clock, serving>>

Arm(e) ==
  /\ timer[e] = Idle
  /\ timer' = [timer EXCEPT ![e] = timer'[e]]
  /\ timer'[e] >= clock
  /\ UNCHANGED <<queue, clock, serving>>

\* The earliest timer, once due, becomes an ordinary event.
Fire(e) ==
  /\ serving = TRUE
  /\ e \in Waiting
  /\ timer[e] <= clock
  /\ \A f \in Waiting : timer[e] <= timer[f]
  /\ timer' = [timer EXCEPT ![e] = Idle]
  /\ queue' = Append(queue, e)
  /\ UNCHANGED <<clock, serving>>

Deliver ==
  /\ serving = TRUE
  /\ queue # <<>>
  /\ queue' = Tail(queue)
  /\ UNCHANGED <<timer, clock, serving>>

Start ==
  /\ serving = FALSE
  /\ serving' = TRUE
  /\ UNCHANGED <<queue, timer, clock>>

Stop ==
  /\ serving = TRUE
  /\ serving' = FALSE
  /\ UNCHANGED <<queue, timer, clock>>

Advance ==
  /\ clock' = clock + 1
  /\ UNCHANGED <<queue, timer, serving>>

\* The thread object is destroyed: what is still queued is deleted.
Discard ==
  /\ serving = FALSE
  /\ queue' = <<>>
  /\ UNCHANGED <<timer, clock, serving>>

Next ==
  \/ \E e \in Events : Post(e)
  \/ \E e \in TimedEvents : Arm(e) \/ Fire(e)
  \/ Deliver
  \/ Start
  \/ Stop
  \/ Advance
  \/ Discard

Spec == Init /\ [][Next]_vars
===============================================================================
