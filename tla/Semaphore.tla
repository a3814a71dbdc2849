----------------------------- MODULE Semaphore ------------------------------
(***************************************************************************)
(* DPL::Semaphore, the named kind, between processes: each opens it,       *)
(* enters and leaves it with ScopedLock, and destroys its object, which    *)
(* removes the name where unlinkOnDestroy asks for it.                     *)
(***************************************************************************)
EXTENDS Naturals, FiniteSets

CONSTANTS
  Processes,
  MaxLockCount,     \* maxLockCount of every constructor
  Unlinks,          \* the processes whose object has unlinkOnDestroy
  MaxOpened         \* bounds the semaphores that the kernel makes under the name

SemaphoreAssumption ==
  /\ IsFiniteSet(Processes)
  /\ MaxLockCount \in Nat /\ MaxOpened \in Nat

VARIABLES
  name,     \* the semaphore that the name stands for, 0 for none
  value,    \* value[k]: the value of semaphore k of the kernel
  opened,   \* the number of semaphores made so far
  handle,   \* handle[p]: the semaphore that the object of p refers to, 0 for no object
  inside    \* the processes inside a ScopedLock

vars == << name, value, opened, handle, inside >>

Kernel == 1 .. MaxOpened

Init ==
  /\ name = 0 /\ opened = 0
  /\ value = [k \in Kernel |-> 0]
  /\ handle = [p \in Processes |-> 0]
  /\ inside = {}

(* sem_open: without O_CREAT there must be one, with O_EXCL there must not *)
(* (CreateFailed otherwise); one that exists keeps its value.              *)
Open(p, allowCreate, exclusiveCreate) ==
  /\ handle[p] = 0
  /\ IF name # 0
     THEN /\ ~ (allowCreate /\ exclusiveCreate)
          /\ handle' = [handle EXCEPT ![p] = name]
          /\ UNCHANGED << name, value, opened >>
     ELSE /\ allowCreate /\ opened < MaxOpened
          /\ opened' = opened + 1
          /\ name' = opened'
          /\ value' = [value EXCEPT ![opened'] = MaxLockCount]
          /\ handle' = [handle EXCEPT ![p] = opened']
  /\ UNCHANGED inside

Lock(p) ==
  /\ handle[p] # 0 /\ p \notin inside
  /\ value[handle[p]] > 0
  /\ value' = [value EXCEPT ![handle[p]] = @ - 1]
  /\ inside' = inside \cup {p}
  /\ UNCHANGED << name, opened, handle >>

(* Mutant: leaving posts to the semaphore that the name stands for now. *)
UnlockByName(p) ==
  /\ p \in inside /\ name # 0
  /\ value' = [value EXCEPT ![name] = @ + 1]
  /\ inside' = inside \ {p}
  /\ UNCHANGED << name, opened, handle >>

Unlock(p) ==
  /\ p \in inside
  /\ value' = [value EXCEPT ![handle[p]] = @ + 1]
  /\ inside' = inside \ {p}
  /\ UNCHANGED << name, opened, handle >>

(* sem_close, and sem_unlink of whatever has the name. *)
Destroy(p) ==
  /\ handle[p] # 0 /\ p \notin inside
  /\ handle' = [handle EXCEPT ![p] = 0]
  /\ name' = IF p \in Unlinks THEN 0 ELSE name
  /\ UNCHANGED << value, opened, inside >>

(* A process that is killed, perhaps inside, leaves name and value as they are. *)
Killed(p) ==
  /\ handle[p] # 0
  /\ inside' = inside \ {p}
  /\ handle' = [handle EXCEPT ![p] = 0]
  /\ UNCHANGED << name, value, opened >>

Next ==
  \E p \in Processes :
    \/ \E allowCreate, exclusiveCreate \in BOOLEAN : Open(p, allowCreate, exclusiveCreate)
    \/ Lock(p) \/ Unlock(p) \/ Destroy(p) \/ Killed(p)

Spec == Init /\ [][Next]_vars

-----------------------------------------------------------------------------
(* Whoever opened which semaphore of the name, the value of each and those *)
(* inside of it never exceed the count it was made with: no post goes to   *)
(* another semaphore than the wait.                                        *)
CountKept ==
  \A k \in 1 .. opened :
    value[k] + Cardinality({p \in inside : handle[p] = k}) <= MaxLockCount

=============================================================================
