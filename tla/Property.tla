------------------------------ MODULE Property ------------------------------
(***************************************************************************)
(* DPL::Event::Property and Model: properties that share the read-write    *)
(* mutex of their model, kept in one of three storages, whose changes are  *)
(* emitted as events to listeners in the thread of the change or in other  *)
(* threads (EventSupport in mode Auto, itself the module EventSupport).    *)
(***************************************************************************)
EXTENDS Naturals, Sequences, FiniteSets

CONSTANTS
  Threads, Properties, Values,
  Callers,      \* the threads that call Get and Set
  Storage,      \* Storage[p]: "Cached", "Dynamic" or "DynamicCached"
  Listening,    \* Listening[p]: the threads that listen to p
  Initial,      \* the value given to a constructor, and of the remote values at first
  Unset,        \* a cached value that was never assigned
  NoOne,
  MaxSets,      \* bounds the calls of Set
  MaxExternal   \* bounds the changes of the remote values

PropertyAssumption ==
  /\ Callers \subseteq Threads /\ NoOne \notin Threads
  /\ Storage \in [Properties -> {"Cached", "Dynamic", "DynamicCached"}]
  /\ Listening \in [Properties -> SUBSET Threads]
  /\ Unset \notin Values \cup {Initial}

VARIABLES
  readers, writer,  \* the read-write mutex of the model
  m_value,          \* the cached value of each property
  remote,           \* what the read delegate of each property would return
  m_once,           \* m_atomic of the Once of a DynamicCached property
  onceMutex,        \* and its mutex
  call,             \* what each thread is doing
  queue,            \* the events posted to each thread, each with the number of its change
  log,              \* ghost: what the listener in each thread has received
  history,          \* ghost: the changes, each with the thread that made it
  sets, external

vars == << readers, writer, m_value, remote, m_once, onceMutex, call, queue, log,
           history, sets, external >>

Idle == [at |-> "idle"]

(* The constructor with a value stores it; the read delegate of the others *)
(* is asked at the first Get.                                              *)
Init ==
  /\ readers = {} /\ writer = NoOne
  /\ m_value = [p \in Properties |-> IF Storage[p] = "Cached" THEN Initial ELSE Unset]
  /\ remote = [p \in Properties |-> Initial]
  /\ m_once = [p \in Properties |-> 0]
  /\ onceMutex = [p \in Properties |-> NoOne]
  /\ call = [t \in Threads |-> Idle]
  /\ queue = [t \in Threads |-> <<>>]
  /\ log = [t \in Threads |-> <<>>]
  /\ history = <<>>
  /\ sets = 0 /\ external = 0

At(t, place) == call[t].at = place

Go(t, place) == call' = [call EXCEPT ![t].at = place]

eventVars == << queue, log, history, sets, external >>
onceVars  == << m_once, onceMutex >>

-----------------------------------------------------------------------------
(* Get, under the read lock. *)

BeginGet(t, p) ==
  /\ At(t, "idle") /\ writer = NoOne
  /\ readers' = readers \cup {t}
  /\ call' = [call EXCEPT ![t] = [at |-> "read", p |-> p, got |-> Unset]]
  /\ UNCHANGED << writer, m_value, remote, onceVars, eventVars >>

(* The storage answers, or has to make sure first that it was read once. *)
ReadStorage(t) ==
  LET p == call[t].p
      Answer(v) == call' = [call EXCEPT ![t].at = "readUnlock", ![t].got = v]
  IN  /\ At(t, "read")
      /\ CASE Storage[p] = "Cached"  -> Answer(m_value[p])
           [] Storage[p] = "Dynamic" -> Answer(remote[p])
           [] Storage[p] = "DynamicCached" /\ m_once[p] = 1 -> Answer(m_value[p])
           [] OTHER -> Go(t, "once")
      /\ UNCHANGED << readers, writer, m_value, remote, onceVars, eventVars >>

(* Mutant: the second test is left out. *)
NoSecondTest(t) ==
  LET p == call[t].p
  IN  /\ At(t, "once") /\ onceMutex[p] = NoOne
      /\ onceMutex' = [onceMutex EXCEPT ![p] = t]
      /\ Go(t, "ensure")
      /\ UNCHANGED << readers, writer, m_value, remote, m_once, eventVars >>

(* Once::Call: the mutex, the second test, the delegate, then the counter. *)
EnterOnce(t) ==
  LET p == call[t].p
  IN  /\ At(t, "once") /\ onceMutex[p] = NoOne
      /\ onceMutex' = [onceMutex EXCEPT ![p] = t]
      /\ Go(t, IF m_once[p] = 1 THEN "onceUnlock" ELSE "ensure")
      /\ UNCHANGED << readers, writer, m_value, remote, m_once, eventVars >>

OnceEnsure(t) ==
  LET p == call[t].p
  IN  /\ At(t, "ensure") \/ At(t, "onceDone")
      /\ IF At(t, "ensure")
         THEN m_value' = [m_value EXCEPT ![p] = remote[p]] /\ UNCHANGED m_once
              /\ Go(t, "onceDone")
         ELSE m_once' = [m_once EXCEPT ![p] = 1] /\ UNCHANGED m_value /\ Go(t, "onceUnlock")
      /\ UNCHANGED << readers, writer, remote, onceMutex, eventVars >>

LeaveOnce(t) ==
  LET p == call[t].p
  IN  /\ At(t, "onceUnlock")
      /\ onceMutex' = [onceMutex EXCEPT ![p] = NoOne]
      /\ call' = [call EXCEPT ![t].at = "readUnlock", ![t].got = m_value[p]]
      /\ UNCHANGED << readers, writer, m_value, remote, m_once, eventVars >>

EndGet(t) ==
  /\ At(t, "readUnlock")
  /\ readers' = readers \ {t}
  /\ call' = [call EXCEPT ![t] = Idle]
  /\ UNCHANGED << writer, m_value, remote, onceVars, eventVars >>

-----------------------------------------------------------------------------
(* Set, under the write lock. *)

BeginSet(t, p, v) ==
  /\ At(t, "idle") /\ writer = NoOne /\ readers = {}
  /\ sets < MaxSets
  /\ sets' = sets + 1
  /\ writer' = t
  /\ call' = [call EXCEPT ![t] = [at |-> "compare", p |-> p, value |-> v]]
  /\ UNCHANGED << readers, m_value, remote, onceVars, queue, log, history, external >>

(* What m_storage.Get() returns here: nobody else is in the storage.       *)
Current(p) ==
  IF Storage[p] = "Dynamic" \/ (Storage[p] = "DynamicCached" /\ m_once[p] = 0)
  THEN remote[p] ELSE m_value[p]

(* A value that is there already is not set again, nor emitted. *)
SetStorage(t) ==
  LET p == call[t].p
      v == call[t].value
  IN  /\ At(t, "compare")
      /\ m_once' = [m_once EXCEPT ![p] = IF Storage[p] = "DynamicCached" THEN 1 ELSE @]
      /\ IF Current(p) = v
         THEN /\ m_value' = [m_value EXCEPT ![p] =
                               IF Storage[p] = "DynamicCached" THEN v ELSE @]
              /\ Go(t, "writeUnlock")
              /\ UNCHANGED << remote, history >>
         ELSE /\ m_value' = [m_value EXCEPT ![p] = IF Storage[p] = "Dynamic" THEN @ ELSE v]
              /\ remote' = [remote EXCEPT ![p] = IF Storage[p] = "Cached" THEN @ ELSE v]
              /\ call' = [call EXCEPT ![t] = [at |-> "emit", p |-> p, value |-> v,
                                              to |-> Listening[p]]]
              /\ history' = Append(history, << p, v, t >>)
      /\ UNCHANGED << readers, writer, onceMutex, queue, log, sets, external >>

(* One listener after the other: in this thread it is called, to another   *)
(* thread the event is posted.                                             *)
EmitEvent(t, l) ==
  LET e == << Len(history), << call[t].p, call[t].value, t >> >>
  IN  /\ At(t, "emit") /\ l \in call[t].to
      /\ call' = [call EXCEPT ![t].to = @ \ {l}]
      /\ IF l = t
         THEN log' = [log EXCEPT ![t] = Append(@, e)] /\ UNCHANGED queue
         ELSE queue' = [queue EXCEPT ![l] = Append(@, e)] /\ UNCHANGED log
      /\ UNCHANGED << readers, writer, m_value, remote, onceVars, history, sets, external >>

(* Mutant: the lock is left before the event is emitted. *)
UnlockFirst(t) ==
  /\ At(t, "writeUnlock") \/ At(t, "emit")
  /\ IF writer = t
     THEN writer' = NoOne /\ UNCHANGED call
     ELSE /\ At(t, "emit") => call[t].to = {}
          /\ call' = [call EXCEPT ![t] = Idle] /\ UNCHANGED writer
  /\ UNCHANGED << readers, m_value, remote, onceVars, eventVars >>

EndSet(t) ==
  /\ At(t, "writeUnlock") \/ (At(t, "emit") /\ call[t].to = {})
  /\ writer' = NoOne
  /\ call' = [call EXCEPT ![t] = Idle]
  /\ UNCHANGED << readers, m_value, remote, onceVars, eventVars >>

-----------------------------------------------------------------------------
(* A thread's loop delivers the next event to its listener. *)
HandleEvent(t) ==
  /\ At(t, "idle") /\ queue[t] # <<>>
  /\ log' = [log EXCEPT ![t] = Append(@, Head(queue[t]))]
  /\ queue' = [queue EXCEPT ![t] = Tail(@)]
  /\ UNCHANGED << readers, writer, m_value, remote, onceVars, call, history, sets, external >>

(* The remote value changes by itself. *)
RemoteChange(p, v) ==
  /\ Storage[p] # "Cached" /\ external < MaxExternal /\ remote[p] # v
  /\ remote' = [remote EXCEPT ![p] = v]
  /\ external' = external + 1
  /\ UNCHANGED << readers, writer, m_value, onceVars, call, queue, log, history, sets >>

Step(t) ==
  \/ ReadStorage(t) \/ EnterOnce(t) \/ OnceEnsure(t) \/ LeaveOnce(t) \/ EndGet(t)
  \/ SetStorage(t) \/ (\E l \in Threads : EmitEvent(t, l)) \/ EndSet(t)
  \/ HandleEvent(t)

Next ==
  \/ \E t \in Threads :
       \/ Step(t)
       \/ /\ t \in Callers
          /\ \E p \in Properties : BeginGet(t, p) \/ \E v \in Values : BeginSet(t, p, v)
  \/ \E p \in Properties, v \in Values : RemoteChange(p, v)

(* Threads go on with what they do and serve their queues. *)
Spec == Init /\ [][Next]_vars /\ \A t \in Threads : WF_vars(Step(t))

-----------------------------------------------------------------------------
(* What the listener of thread l was told and is still going to be told,   *)
(* the number of the change and the change.                                *)
Told(l) == log[l] \o queue[l]

Follows(l, e) ==
  e[1] \in DOMAIN history /\ history[e[1]] = e[2] /\ l \in Listening[e[2][1]]

MissesLast(l) ==
  \E t \in Threads : At(t, "emit") /\ l \in call[t].to

(* Property::Set emits under the lock that it changes the value under, so  *)
(* every listener is told once of each change, of all properties of the    *)
(* model that it listens to, in the order they were made.  Only the        *)
(* changes made in the listener's own thread, for which it is called       *)
(* directly, overtake those that wait in the thread's queue.               *)
ListenersFollow ==
  \A l \in Threads :
    LET told == Told(l)
    IN  /\ \A i \in DOMAIN told : Follows(l, told[i])
        /\ \A i, j \in DOMAIN told :
             i < j /\ (told[i][2][3] = l <=> told[j][2][3] = l) => told[i][1] < told[j][1]
        /\ \A n \in DOMAIN history :
             \/ l \in Listening[history[n][1]] => \E i \in DOMAIN told : told[i][1] = n
             \/ n = Len(history) /\ MissesLast(l)

(* Readers hold the model's mutex together: none of them takes the cached  *)
(* value before the one that reads the remote value has stored it.         *)
ReadsAreEnsured ==
  \A t \in Threads : At(t, "readUnlock") => call[t].got # Unset

(* "After the value has been received from external source, it will never  *)
(* be updated externally": once stored, only Set changes the cached value. *)
OnlySetChanges ==
  \A p \in Properties : m_once[p] = 1 /\ m_value'[p] # m_value[p] =>
    \E t \in Threads : At(t, "compare") /\ call[t].p = p

CachedForGood == [][OnlySetChanges]_vars
=============================================================================
