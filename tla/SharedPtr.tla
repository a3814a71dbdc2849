----------------------------- MODULE SharedPtr ------------------------------
(***************************************************************************)
(* DPL::SharedPtr and EnableSharedFromThis between threads: each thread    *)
(* has pointers of its own and copies those that another thread handed to  *)
(* it; the counter of an object is atomic, and nothing else is.            *)
(***************************************************************************)
EXTENDS Naturals, FiniteSets

CONSTANTS
  Threads,
  Slots,      \* the pointers of a thread
  MaxObjects  \* bounds the objects that are made

SharedPtrAssumption ==
  IsFiniteSet(Threads) /\ IsFiniteSet(Slots) /\ MaxObjects \in Nat

VARIABLES
  ptr,        \* ptr[t][s]: the object (with its counter) that slot s of t holds, 0 for none
  ref,        \* ref[o]: the count of its counter
  alive,      \* the objects that were made and not deleted
  deletions,  \* ghost: how often each object was deleted
  made,       \* the number of objects made
  pc          \* what each thread is in the middle of

vars == << ptr, ref, alive, deletions, made, pc >>

Objects == 1 .. MaxObjects

Idle == [at |-> "idle"]

Init ==
  /\ ptr = [t \in Threads |-> [s \in Slots |-> 0]]
  /\ ref = [o \in Objects |-> 0]
  /\ alive = {}
  /\ deletions = [o \in Objects |-> 0]
  /\ made = 0
  /\ pc = [t \in Threads |-> Idle]

(* The constructor that takes a new object. *)
Create(t, s) ==
  /\ pc[t] = Idle /\ ptr[t][s] = 0 /\ made < MaxObjects
  /\ made' = made + 1
  /\ ref' = [ref EXCEPT ![made'] = 1]
  /\ alive' = alive \cup {made'}
  /\ ptr' = [ptr EXCEPT ![t][s] = made']
  /\ UNCHANGED << deletions, pc >>

(* The copy constructor, from a pointer that its owner keeps meanwhile,    *)
(* such as an argument or a part of an event: the object is counted, then  *)
(* the slot holds it.                                                      *)
BeginCopy(t, s, owner, from) ==
  /\ pc[t] = Idle /\ ptr[t][s] = 0
  /\ pc[owner] = Idle /\ ptr[owner][from] # 0
  /\ ref' = [ref EXCEPT ![ptr[owner][from]] = @ + 1]
  /\ ptr' = [ptr EXCEPT ![t][s] = ptr[owner][from]]
  /\ UNCHANGED << alive, deletions, made, pc >>

(* Mutant: the object that gives out a pointer to itself gets a counter of *)
(* its own for it.                                                         *)
SharedAnew(t, s, from) ==
  /\ pc[t] = Idle /\ ptr[t][s] = 0 /\ ptr[t][from] # 0
  /\ ptr' = [ptr EXCEPT ![t][s] = ptr[t][from]]
  /\ ref' = [ref EXCEPT ![ptr[t][from]] = 1]
  /\ UNCHANGED << alive, deletions, made, pc >>

(* SharedFromThis in a method of an object that the thread holds: the weak *)
(* pointer to the counter makes one more strong one.                       *)
SharedFromThis(t, s, from) ==
  /\ pc[t] = Idle /\ ptr[t][s] = 0 /\ ptr[t][from] # 0
  /\ ptr' = [ptr EXCEPT ![t][s] = ptr[t][from]]
  /\ ref' = [ref EXCEPT ![ptr[t][from]] = @ + 1]
  /\ UNCHANGED << alive, deletions, made, pc >>

(* DetachCounter: the destructor, Reset, and the first half of operator=,  *)
(* then being the object that the slot is going to hold.                   *)
DetachCounter(t, s, then) ==
  LET o == ptr[t][s]
  IN  /\ pc[t] = Idle /\ o # 0
      /\ ref' = [ref EXCEPT ![o] = @ - 1]
      /\ pc' = [pc EXCEPT ![t] =
           [at |-> IF ref[o] = 1 THEN "delete" ELSE "attach", o |-> o, slot |-> s, then |-> then]]
      /\ ptr' = [ptr EXCEPT ![t][s] = 0]
      /\ UNCHANGED << alive, deletions, made >>

(* The last pointer deletes the object and its counter. *)
Delete(t) ==
  LET o == pc[t].o
  IN  /\ pc[t].at = "delete"
      /\ alive' = alive \ {o}
      /\ deletions' = [deletions EXCEPT ![o] = @ + 1]
      /\ pc' = [pc EXCEPT ![t].at = "attach"]
      /\ UNCHANGED << ptr, ref, made >>

(* AttachCounter, the second half of operator=. *)
AttachCounter(t) ==
  LET o == pc[t].then
  IN  /\ pc[t].at = "attach"
      /\ IF o = 0
         THEN UNCHANGED << ptr, ref >>
         ELSE /\ ptr' = [ptr EXCEPT ![t][pc[t].slot] = o]
              /\ ref' = [ref EXCEPT ![o] = @ + 1]
      /\ pc' = [pc EXCEPT ![t] = Idle]
      /\ UNCHANGED << alive, deletions, made >>

(* operator= from another slot of the thread, or Reset and destruction. *)
Detach(t, s) ==
  \/ DetachCounter(t, s, 0)
  \/ \E from \in Slots \ {s} : DetachCounter(t, s, ptr[t][from])

Next ==
  \E t \in Threads :
    \/ Delete(t) \/ AttachCounter(t)
    \/ \E s \in Slots :
         \/ Create(t, s) \/ Detach(t, s)
         \/ \E from \in Slots :
              \/ SharedFromThis(t, s, from)
              \/ \E owner \in Threads : BeginCopy(t, s, owner, from)

Spec == Init /\ [][Next]_vars

-----------------------------------------------------------------------------
Holders(o) == {h \in Threads \X Slots : ptr[h[1]][h[2]] = o}

(* Whatever the threads do at the same time, an object is deleted once, by *)
(* whoever lets the last pointer to it go, and nobody holds it then: while *)
(* it is alive somebody holds it, or is just about to delete it.           *)
DeletedOnceUnheld ==
  \A o \in 1 .. made :
    /\ deletions[o] = IF o \in alive THEN 0 ELSE 1
    /\ o \in alive
         <=> Holders(o) # {} \/ \E t \in Threads : pc[t].at = "delete" /\ pc[t].o = o
=============================================================================
