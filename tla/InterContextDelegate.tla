------------------------ MODULE InterContextDelegate ------------------------
(***************************************************************************)
(* DPL::Event::ICDelegate and ICDelegateSupport: delegates that any thread *)
(* may call or disable and whose method runs in the thread that made them, *)
(* through an event of their own EventSupport (in mode Queued; the module  *)
(* EventSupport).                                                          *)
(***************************************************************************)
EXTENDS Naturals, Sequences, FiniteSets

CONSTANTS
  Owner,        \* the thread in which the object with ICDelegateSupport lives
  Others,       \* the threads its delegates are handed to
  Delegates,
  Reuse,        \* Reuse[d]: made with ICD::Reuse::Yes
  NoOne,
  MaxCalls      \* bounds the calls of operator()

VARIABLES
  m_disabled,   \* of each ICDSharedData
  m_mutex,      \* its recursive mutex: the owner and how often it locked it
  listening,    \* the delegateForwarder is registered with the EventSupport
  shared,       \* m_ICDSharedDatas: the delegates registered with the support
  listUser,     \* the threads that are inside an operation on that list
  alive,        \* the support was not destroyed
  queue,        \* the events posted to the owner's thread
  stack,        \* the frames of each thread, the innermost first
  called,       \* ghost: how often the method of each delegate was called
  ended,        \* ghost: a call of disable or the destructor has returned
  calls

vars == << m_disabled, m_mutex, listening, shared, listUser, alive, queue, stack,
           called, ended, calls >>

Threads == Others \cup {Owner}

IcdAssumption == NoOne \notin Threads

Init ==
  /\ m_disabled = [d \in Delegates |-> FALSE]
  /\ m_mutex = [d \in Delegates |-> [owner |-> NoOne, count |-> 0]]
  /\ listening = {} /\ shared = {} /\ listUser = {}
  /\ alive = TRUE
  /\ queue = <<>>
  /\ stack = [t \in Threads |-> <<>>]
  /\ called = [d \in Delegates |-> 0]
  /\ ended = {}
  /\ calls = 0

Frame(op, d, at) == [op |-> op, d |-> d, at |-> at]

At(t, op, at) == stack[t] # <<>> /\ Head(stack[t]).op = op /\ Head(stack[t]).at = at

TopDelegate(t) == Head(stack[t]).d

Go(t, at) == stack' = [stack EXCEPT ![t] = << [Head(@) EXCEPT !.at = at] >> \o Tail(@)]

Push(t, frame) == stack' = [stack EXCEPT ![t] = << frame >> \o @]

Pop(t) == stack' = [stack EXCEPT ![t] = Tail(@)]

(* User code runs in a thread between calls and inside a delegate's method. *)
UserCode(t) == stack[t] = <<>> \/ At(t, "forward", "method")

MayLock(t, d) == m_mutex[d].owner \in {NoOne, t}

Lock(t, d) ==
  /\ MayLock(t, d)
  /\ m_mutex' = [m_mutex EXCEPT ![d] = [owner |-> t, count |-> @.count + 1]]

Unlock(d) ==
  m_mutex' = [m_mutex EXCEPT ![d] =
    IF @.count = 1 THEN [owner |-> NoOne, count |-> 0] ELSE [owner |-> @.owner, count |-> @.count - 1]]

dataVars == << m_disabled, listening >>
listVars == << shared, listUser, alive >>
ghosts   == << called, ended, calls >>

-----------------------------------------------------------------------------
(* makeICDelegate: the data is made, listens in this thread, and is put in *)
(* the list of the support.                                                *)
MakeICDelegate(d) ==
  /\ UserCode(Owner) /\ alive
  /\ d \notin listening /\ d \notin shared /\ ~ m_disabled[d]
  /\ listening' = listening \cup {d}
  /\ listUser' = listUser \cup {Owner}
  /\ Push(Owner, Frame("make", d, "insert"))
  /\ UNCHANGED << m_disabled, m_mutex, shared, alive, queue, ghosts >>

RegisterICDSharedData ==
  /\ At(Owner, "make", "insert")
  /\ shared' = shared \cup {TopDelegate(Owner)}
  /\ listUser' = listUser \ {Owner}
  /\ Pop(Owner)
  /\ UNCHANGED << dataVars, m_mutex, alive, queue, ghosts >>

-----------------------------------------------------------------------------
(* ICDelegate::operator(). *)

BeginCall(t, d) ==
  /\ UserCode(t) /\ d \in listening \cup ended /\ calls < MaxCalls
  /\ calls' = calls + 1
  /\ Push(t, Frame("call", d, "lock"))
  /\ UNCHANGED << dataVars, m_mutex, listVars, queue, called, ended >>

CallDelegate(t) ==
  LET d == TopDelegate(t)
  IN  /\ At(t, "call", "lock") /\ Lock(t, d)
      /\ Go(t, "emit")
      /\ UNCHANGED << dataVars, listVars, queue, ghosts >>

EmitEvent(t) ==
  LET d == TopDelegate(t)
  IN  /\ At(t, "call", "emit")
      /\ queue' = IF m_disabled[d] THEN queue
                  ELSE Append(queue, [kind |-> "event", d |-> d])
      /\ Unlock(d) /\ Pop(t)
      /\ UNCHANGED << dataVars, listVars, ghosts >>

-----------------------------------------------------------------------------
(* ICDSharedData::disable. *)

BeginDisable(t, d) ==
  /\ UserCode(t) /\ d \in listening
  /\ Push(t, Frame("disable", d, "lock"))
  /\ UNCHANGED << dataVars, m_mutex, listVars, queue, ghosts >>

Disable(t) ==
  LET d == TopDelegate(t)
  IN  /\ At(t, "disable", "lock") /\ Lock(t, d)
      /\ m_disabled' = [m_disabled EXCEPT ![d] = TRUE]
      /\ Go(t, IF m_disabled[d] THEN "unlock" ELSE "remove")
      /\ UNCHANGED << listening, listVars, queue, ghosts >>

RemoveListener(t) ==
  LET d == TopDelegate(t)
  IN  /\ At(t, "disable", "remove")
      /\ listening' = listening \ {d}
      /\ listUser' = listUser \cup {t}
      /\ Go(t, "erase")
      /\ UNCHANGED << m_disabled, m_mutex, shared, alive, queue, ghosts >>

(* m_base->unregisterICDSharedData, on a list that no mutex guards. *)
UnregisterICDSharedData(t) ==
  LET d == TopDelegate(t)
  IN  /\ At(t, "disable", "erase")
      /\ shared' = shared \ {d}
      /\ listUser' = listUser \ {t}
      /\ Go(t, "unlock")
      /\ UNCHANGED << dataVars, m_mutex, alive, queue, ghosts >>

EndDisable(t) ==
  LET d == TopDelegate(t)
  IN  /\ At(t, "disable", "unlock")
      /\ Unlock(d) /\ Pop(t)
      /\ ended' = ended \cup {d}
      /\ UNCHANGED << dataVars, listVars, queue, called, calls >>

-----------------------------------------------------------------------------
(* The owner's loop: an event whose listener disappeared is dropped, and   *)
(* the event that holds the last reference does nothing else.              *)

ReceiveEvent ==
  /\ stack[Owner] = <<>> /\ queue # <<>>
  /\ queue' = Tail(queue)
  /\ IF Head(queue).kind = "event" /\ Head(queue).d \in listening
     THEN Push(Owner, Frame("forward", Head(queue).d, "lock"))
     ELSE UNCHANGED stack
  /\ UNCHANGED << dataVars, m_mutex, listVars, ghosts >>

(* Mutant: the delegate's mutex is not taken while its method runs. *)
ForwardUnlocked ==
  LET d == TopDelegate(Owner)
  IN  /\ At(Owner, "forward", "lock")
      /\ IF m_disabled[d]
         THEN Pop(Owner) /\ UNCHANGED << m_mutex, called >>
         ELSE /\ Go(Owner, "method")
              /\ m_mutex' = [m_mutex EXCEPT ![d].count = @ + 1]
              /\ called' = [called EXCEPT ![d] = @ + 1]
      /\ UNCHANGED << dataVars, listVars, queue, ended, calls >>

DelegateForwarder ==
  LET d == TopDelegate(Owner)
  IN  /\ At(Owner, "forward", "lock") /\ MayLock(Owner, d)
      /\ IF m_disabled[d]
         THEN Pop(Owner) /\ UNCHANGED << m_mutex, called >>
         ELSE /\ Lock(Owner, d)
              /\ Go(Owner, "method")
              /\ called' = [called EXCEPT ![d] = @ + 1]
      /\ UNCHANGED << dataVars, listVars, queue, ended, calls >>

(* The method returns: a delegate that is not reusable is disabled ...     *)
EndMethod ==
  LET d == TopDelegate(Owner)
  IN  /\ At(Owner, "forward", "method")
      /\ IF Reuse[d]
         THEN Unlock(d) /\ Pop(Owner)
         ELSE /\ UNCHANGED m_mutex
              /\ stack' = [stack EXCEPT ![Owner] =
                   << Frame("disable", d, "lock"), Frame("forward", d, "delete") >> \o Tail(@)]
      /\ UNCHANGED << dataVars, listVars, queue, ghosts >>

(* ... and the last reference to it is handed to the loop. *)
DeleteICDSharedDataBase ==
  LET d == TopDelegate(Owner)
  IN  /\ At(Owner, "forward", "delete")
      /\ queue' = Append(queue, [kind |-> "delete", d |-> d])
      /\ Unlock(d) /\ Pop(Owner)
      /\ UNCHANGED << dataVars, listVars, ghosts >>

-----------------------------------------------------------------------------
(* ~ICDelegateSupport, which may run inside a method of its delegates: the *)
(* delegates in a copy of the list are locked and disabled.                *)

BeginDestroy ==
  /\ UserCode(Owner) /\ alive
  /\ alive' = FALSE
  /\ listUser' = listUser \cup {Owner}
  /\ Push(Owner, [op |-> "destroy", d |-> NoOne, at |-> "copy", rest |-> {}])
  /\ UNCHANGED << dataVars, m_mutex, shared, queue, ghosts >>

CopyList ==
  /\ At(Owner, "destroy", "copy")
  /\ listUser' = listUser \ {Owner}
  /\ stack' = [stack EXCEPT ![Owner] =
                 << [Head(@) EXCEPT !.at = "disable", !.rest = shared] >> \o Tail(@)]
  /\ UNCHANGED << dataVars, m_mutex, shared, alive, queue, ghosts >>

DisableNext(d) ==
  /\ At(Owner, "destroy", "disable") /\ d \in Head(stack[Owner]).rest
  /\ stack' = [stack EXCEPT ![Owner] =
       << Frame("disable", d, "lock"), [Head(@) EXCEPT !.rest = Head(stack[Owner]).rest \ {d}] >>
         \o Tail(@)]
  /\ UNCHANGED << dataVars, m_mutex, listVars, queue, ghosts >>

EndDestroy ==
  /\ At(Owner, "destroy", "disable") /\ Head(stack[Owner]).rest = {}
  /\ shared' = {}
  /\ Pop(Owner)
  /\ UNCHANGED << dataVars, m_mutex, listUser, alive, queue, ghosts >>

-----------------------------------------------------------------------------
ThreadStep(t) ==
  \/ CallDelegate(t) \/ EmitEvent(t)
  \/ Disable(t) \/ RemoveListener(t) \/ UnregisterICDSharedData(t) \/ EndDisable(t)

OwnerStep ==
  \/ RegisterICDSharedData
  \/ ReceiveEvent \/ DelegateForwarder \/ EndMethod \/ DeleteICDSharedDataBase
  \/ CopyList \/ (\E d \in Delegates : DisableNext(d)) \/ EndDestroy

Next ==
  \/ \E t \in Threads : ThreadStep(t)
  \/ OwnerStep
  \/ \E d \in Delegates :
       MakeICDelegate(d) \/ \E t \in Threads : BeginCall(t, d) \/ BeginDisable(t, d)
  \/ BeginDestroy

Fairness == WF_vars(OwnerStep) /\ \A t \in Threads : WF_vars(ThreadStep(t))

Spec == Init /\ [][Next]_vars /\ Fairness

-----------------------------------------------------------------------------
(* "Disable delegate (it won't be called anymore)" and "When               *)
(* ICDelegateSupport is destroyed, all its ICDelegates are invalidated":   *)
(* from the return of either on, in whatever thread, the method is not     *)
(* called, though events of the delegate may still be queued; and a thread *)
(* other than the owner does not return from disabling it in the middle of *)
(* a call of the method.  "ICDelegate can be called just once.  All       *)
(* following calls will be silently ignored", however many events of it    *)
(* are queued when the first is received, unless it is made for reuse.     *)
EndsCalls ==
  \A d \in Delegates :
    /\ called'[d] # called[d] => d \notin ended /\ (Reuse[d] \/ called[d] = 0)
    /\ d \in ended' \ ended /\ stack'[Owner] = stack[Owner] =>
         \A i \in DOMAIN stack[Owner] :
           ~ (stack[Owner][i].at = "method" /\ stack[Owner][i].d = d)

NotCalledAfterEnd == [][EndsCalls]_vars

(* A thread is inside a call, which it gets out of: no two of them wait    *)
(* for each other's mutexes.                                               *)
Busy(t) == stack[t] # <<>>
=============================================================================
