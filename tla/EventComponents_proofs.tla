----------------------- MODULE EventComponents_proofs -----------------------
(***************************************************************************)
(* Theorems about the components of src/modules/event in                   *)
(* Components, for every value of their constants.  A step of the          *)
(* composition is one of a single component (the lemmas ...Moves), so an   *)
(* invariant of a component is one of the composition.                     *)
(***************************************************************************)
EXTENDS Components, SequenceTheorems, FunctionTheorems,
        FiniteSetTheorems, TLAPS

-----------------------------------------------------------------------------
(* A step of the composition is a step of one component, or of none, and   *)
(* leaves the variables of the others alone.                               *)

LEMMA IcdMoves == [Next]_vars => [Icd!Next]_(Icd!vars)
BY DEF Next, Only, Is, vars, delegateVars, Icd!vars

-----------------------------------------------------------------------------
(* InterContextDelegate. *)

Frames ==
  [op : {"make"}, d : Delegates, at : {"insert"}]
    \cup [op : {"call"}, d : Delegates, at : {"lock", "emit"}]
    \cup [op : {"disable"}, d : Delegates, at : {"lock", "remove", "erase", "unlock"}]
    \cup [op : {"forward"}, d : Delegates, at : {"lock", "method", "delete"}]
    \cup [op : {"destroy"}, d : {Nobody}, at : {"copy", "disable"}, rest : SUBSET Delegates]

IcdTypes ==
  /\ m_disabled \in [Delegates -> BOOLEAN]
  /\ m_mutex \in [Delegates -> [owner : Icd!Threads \cup {Nobody}, count : Nat]]
  /\ delegateListening \subseteq Delegates
  /\ shared \subseteq Delegates
  /\ stack \in [Icd!Threads -> Seq(Frames)]
  /\ called \in [Delegates -> Nat]
  /\ ended \subseteq Delegates

-----------------------------------------------------------------------------
(* Frames that hold a mutex. *)

\* The places between taking the mutex of a delegate and releasing it.
Holds(f, d) ==
  /\ f.d = d
  /\ \/ f.op = "call" /\ f.at = "emit"
     \/ f.op = "disable" /\ f.at \in {"remove", "erase", "unlock"}
     \/ f.op = "forward" /\ f.at \in {"method", "delete"}

Holding(st, d) == {i \in 1..Len(st) : Holds(st[i], d)}
Locks(st, d) == Cardinality(Holding(st, d))
Lock1(f, d) == IF Holds(f, d) THEN 1 ELSE 0

\* A thread owns the mutex of a delegate as often as its frames hold it.
MutexInv ==
  \A d \in Delegates :
    /\ m_mutex[d].owner = Nobody <=> m_mutex[d].count = 0
    /\ \A t \in Icd!Threads :
         Locks(stack[t], d) = IF m_mutex[d].owner = t THEN m_mutex[d].count ELSE 0

\* A stack without frames holds nothing.
LEMMA NoLocks == ASSUME NEW d PROVE Locks(<<>>, d) = 0
<1>1. Holding(<<>>, d) = {}
  BY DEF Holding
<1> QED
  BY <1>1, FS_EmptySet DEF Locks

LEMMA LocksType ==
  ASSUME NEW st \in Seq(Frames), NEW d
  PROVE  IsFiniteSet(Holding(st, d)) /\ Locks(st, d) \in Nat
<1>1. Len(st) \in Nat /\ Holding(st, d) \subseteq 1..Len(st)
  BY DEF Holding
<1>2. IsFiniteSet(1..Len(st))
  BY <1>1, FS_Interval
<1> QED
  BY <1>1, <1>2, FS_Subset, FS_CardinalityType DEF Locks

\* The locks of a stack are those of its innermost frame and of the others.
LEMMA LocksOfTail ==
  ASSUME NEW st \in Seq(Frames), st # <<>>, NEW d
  PROVE  Locks(st, d) = Locks(Tail(st), d) + Lock1(Head(st), d)
<1>. DEFINE T == Holding(Tail(st), d)
            U == {i \in 2..Len(st) : Holds(st[i], d)}
            f == [i \in T |-> i + 1]
<1>1. /\ Tail(st) \in Seq(Frames) /\ Len(st) \in Nat \ {0} /\ Len(Tail(st)) = Len(st) - 1
      /\ \A i \in 1..Len(st) - 1 : Tail(st)[i] = st[i + 1]
      /\ Head(st) = st[1]
  OBVIOUS
<1>2. IsFiniteSet(T) /\ Locks(Tail(st), d) \in Nat
  BY <1>1, LocksType
<1>3. f \in Bijection(T, U)
  <2>1. \A i \in T : i \in Nat /\ i + 1 \in U
    BY <1>1 DEF Holding
  <2>2. \A j \in U : j - 1 \in T /\ f[j - 1] = j
    BY <1>1 DEF Holding
  <2>3. f \in [T -> U] /\ \A i, j \in T : f[i] = f[j] => i = j
    BY <2>1
  <2>4. \A j \in U : \E i \in T : f[i] = j
    BY <2>2
  <2> QED
    BY <2>3, <2>4 DEF Bijection, Injection, Surjection, IsInjective
<1>4. IsFiniteSet(U) /\ Cardinality(U) = Locks(Tail(st), d)
  BY <1>2, <1>3, FS_Bijection DEF ExistsBijection, Locks
<1>5. CASE Holds(Head(st), d)
  <2>1. Holding(st, d) = U \cup {1} /\ 1 \notin U
    BY <1>1, <1>5 DEF Holding
  <2> QED
    BY <1>2, <1>4, <1>5, <2>1, FS_AddElement DEF Locks, Lock1
<1>6. CASE ~ Holds(Head(st), d)
  <2>1. Holding(st, d) = U
    BY <1>1, <1>6 DEF Holding
  <2> QED
    BY <1>2, <1>4, <1>6, <2>1 DEF Locks, Lock1
<1> QED
  BY <1>5, <1>6

LEMMA Cons ==
  ASSUME NEW f \in Frames, NEW st \in Seq(Frames)
  PROVE  /\ << f >> \o st \in Seq(Frames) /\ << f >> \o st # <<>>
         /\ Head(<< f >> \o st) = f /\ Tail(<< f >> \o st) = st
OBVIOUS

LEMMA LocksOfCons ==
  ASSUME NEW f \in Frames, NEW st \in Seq(Frames), NEW d
  PROVE  Locks(<< f >> \o st, d) = Locks(st, d) + Lock1(f, d)
<1>1. Locks(<< f >> \o st, d) = Locks(Tail(<< f >> \o st), d) + Lock1(Head(<< f >> \o st), d)
  BY Cons, LocksOfTail
<1> QED
  BY <1>1, Cons

-----------------------------------------------------------------------------
(* The changes of a stack: the frame f is pushed, the head is popped, or it *)
(* is replaced by f.                                                        *)

Becomes(t, st) == stack' = [stack EXCEPT ![t] = st]

Owners(t, st) ==
  \A d \in Delegates :
    Locks(st, d) = IF m_mutex'[d].owner = t THEN m_mutex'[d].count ELSE 0

\* The mutexes agree with the stacks when those of the others are left alone and
\* those of the thread agree with its new stack.
LEMMA MutexKeeps ==
  ASSUME IcdTypes, MutexInv, NEW t \in Icd!Threads, NEW st, Becomes(t, st), Owners(t, st),
         \A d \in Delegates :
           /\ m_mutex'[d].owner = Nobody <=> m_mutex'[d].count = 0
           /\ m_mutex'[d] = m_mutex[d] \/
                {m_mutex[d].owner, m_mutex'[d].owner} \subseteq {t, Nobody}
  PROVE  MutexInv'
<1>. SUFFICES ASSUME NEW d \in Delegates, NEW u \in Icd!Threads
     PROVE  Locks(stack'[u], d) = IF m_mutex'[d].owner = u THEN m_mutex'[d].count ELSE 0
  BY DEF MutexInv, Locks, Holding, Holds
<1>1. CASE u = t
  <2>1. stack'[u] = st
    BY <1>1 DEF IcdTypes, Becomes
  <2> QED
    BY <1>1, <2>1 DEF Owners
<1>2. CASE u # t
  <2>1. stack'[u] = stack[u]
    BY <1>2 DEF IcdTypes, Becomes
  <2>2. Locks(stack[u], d) = IF m_mutex[d].owner = u THEN m_mutex[d].count ELSE 0
    BY DEF MutexInv
  <2>3. CASE m_mutex'[d] = m_mutex[d]
    BY <2>1, <2>2, <2>3
  <2>4. CASE {m_mutex[d].owner, m_mutex'[d].owner} \subseteq {t, Nobody}
    <3>1. m_mutex[d].owner \in {t, Nobody} /\ m_mutex'[d].owner \in {t, Nobody}
      BY <2>4
    <3>2. m_mutex[d].owner = u => Locks(stack[u], d) = 0 /\ m_mutex'[d].owner \in {t, Nobody}
      BY <1>2, <2>2, <3>1 DEF MutexInv
    <3>3. Locks(stack[u], d) = 0
      BY <1>2, <2>2, <3>2
    <3>4. m_mutex'[d].owner = u => m_mutex'[d].count = 0
      BY <1>2, <3>1
    <3> QED
      BY <2>1, <3>3, <3>4
  <2> QED
    BY <2>3, <2>4
<1> QED
  BY <1>1, <1>2

\* No mutex is touched, and the stack holds what it held.
LEMMA NoMutexKeeps ==
  ASSUME IcdTypes, MutexInv, NEW t \in Icd!Threads, NEW st, Becomes(t, st), UNCHANGED m_mutex,
         \A d \in Delegates : Locks(st, d) = Locks(stack[t], d)
  PROVE  MutexInv'
<1>1. Owners(t, st)
  BY DEF Owners, MutexInv
<1> QED
  BY <1>1, MutexKeeps DEF MutexInv

\* The mutex of d is taken, and the stack holds it once more.
LEMMA LockKeeps ==
  ASSUME IcdTypes, Icd!IcdAssumption, MutexInv, NEW t \in Icd!Threads, NEW d \in Delegates, Icd!Lock(t, d),
         NEW st, Becomes(t, st),
         \A e \in Delegates : Locks(st, e) = Locks(stack[t], e) + (IF e = d THEN 1 ELSE 0)
  PROVE  MutexInv' /\ m_mutex' \in [Delegates -> [owner : Icd!Threads \cup {Nobody}, count : Nat]]
<1>1. /\ m_mutex[d].owner \in {Nobody, t} /\ m_mutex[d].count \in Nat
      /\ m_mutex' = [m_mutex EXCEPT ![d] = [owner |-> t, count |-> m_mutex[d].count + 1]]
      /\ t # Nobody
  BY DEF Icd!Lock, Icd!MayLock, IcdTypes, Icd!IcdAssumption
<1>2. /\ m_mutex' \in [Delegates -> [owner : Icd!Threads \cup {Nobody}, count : Nat]]
      /\ m_mutex'[d].owner = t /\ m_mutex'[d].count = m_mutex[d].count + 1
      /\ \A e \in Delegates \ {d} : m_mutex'[e] = m_mutex[e]
  BY <1>1 DEF IcdTypes
<1>3. Owners(t, st)
  <2>. SUFFICES ASSUME NEW e \in Delegates
                PROVE  Locks(st, e) = IF m_mutex'[e].owner = t THEN m_mutex'[e].count ELSE 0
    BY DEF Owners
  <2>1. Locks(stack[t], e) = IF m_mutex[e].owner = t THEN m_mutex[e].count ELSE 0
    BY DEF MutexInv
  <2>2. CASE e = d
    <3>1. Locks(stack[t], d) = m_mutex[d].count
      BY <1>1, <2>1, <2>2 DEF MutexInv
    <3> QED
      BY <1>1, <1>2, <2>2, <3>1
  <2>3. CASE e # d
    <3>1. Locks(stack[t], e) \in Nat
      BY LocksType DEF IcdTypes
    <3>2. Locks(st, e) = Locks(stack[t], e)
      BY <2>3, <3>1
    <3> QED
      BY <1>2, <2>1, <2>3, <3>2
  <2> QED
    BY <2>2, <2>3
<1>4. \A e \in Delegates :
        /\ m_mutex'[e].owner = Nobody <=> m_mutex'[e].count = 0
        /\ m_mutex'[e] = m_mutex[e] \/ {m_mutex[e].owner, m_mutex'[e].owner} \subseteq {t, Nobody}
  BY <1>1, <1>2 DEF MutexInv
<1> QED
  BY <1>2, <1>3, <1>4, MutexKeeps

\* The mutex of d is released, and the stack, which held it, holds it once less.
LEMMA UnlockKeeps ==
  ASSUME IcdTypes, Icd!IcdAssumption, MutexInv, NEW t \in Icd!Threads, NEW d \in Delegates, Icd!Unlock(d),
         NEW st, Becomes(t, st), Locks(stack[t], d) # 0,
         \A e \in Delegates : Locks(st, e) = Locks(stack[t], e) - (IF e = d THEN 1 ELSE 0)
  PROVE  MutexInv' /\ m_mutex' \in [Delegates -> [owner : Icd!Threads \cup {Nobody}, count : Nat]]
<1>1. /\ m_mutex[d].owner = t /\ m_mutex[d].count \in Nat \ {0} /\ t # Nobody
      /\ m_mutex[d] \in [owner : Icd!Threads \cup {Nobody}, count : Nat]
      /\ Locks(stack[t], d) = m_mutex[d].count
  BY DEF MutexInv, IcdTypes, Icd!IcdAssumption
<1>2. /\ m_mutex' \in [Delegates -> [owner : Icd!Threads \cup {Nobody}, count : Nat]]
      /\ m_mutex'[d].count = m_mutex[d].count - 1
      /\ m_mutex'[d].owner = (IF m_mutex[d].count = 1 THEN Nobody ELSE t)
      /\ \A e \in Delegates \ {d} : m_mutex'[e] = m_mutex[e]
  <2>1. CASE m_mutex[d].count = 1
    <3>1. m_mutex' = [m_mutex EXCEPT ![d] = [owner |-> Nobody, count |-> 0]]
      BY <2>1 DEF Icd!Unlock, IcdTypes
    <3> QED
      BY <1>1, <2>1, <3>1 DEF IcdTypes
  <2>2. CASE m_mutex[d].count # 1
    <3>1. m_mutex' = [m_mutex EXCEPT ![d] = [owner |-> t, count |-> m_mutex[d].count - 1]]
      BY <1>1, <2>2 DEF Icd!Unlock
    <3>2. m_mutex[d].count - 1 \in Nat
      BY <1>1
    <3> QED
      BY <1>1, <2>2, <3>1, <3>2 DEF IcdTypes
  <2> QED
    BY <2>1, <2>2
<1>3. Owners(t, st)
  <2>. SUFFICES ASSUME NEW e \in Delegates
                PROVE  Locks(st, e) = IF m_mutex'[e].owner = t THEN m_mutex'[e].count ELSE 0
    BY DEF Owners
  <2>1. Locks(stack[t], e) = IF m_mutex[e].owner = t THEN m_mutex[e].count ELSE 0
    BY DEF MutexInv
  <2>2. CASE e = d
    BY <1>1, <1>2, <2>2
  <2>3. CASE e # d
    <3>1. Locks(stack[t], e) \in Nat
      BY LocksType DEF IcdTypes
    <3>2. Locks(st, e) = Locks(stack[t], e)
      BY <2>3, <3>1
    <3> QED
      BY <1>2, <2>1, <2>3, <3>2
  <2> QED
    BY <2>2, <2>3
<1>4. \A e \in Delegates :
        /\ m_mutex'[e].owner = Nobody <=> m_mutex'[e].count = 0
        /\ m_mutex'[e] = m_mutex[e] \/ {m_mutex[e].owner, m_mutex'[e].owner} \subseteq {t, Nobody}
  BY <1>1, <1>2 DEF MutexInv
<1> QED
  BY <1>2, <1>3, <1>4, MutexKeeps

-----------------------------------------------------------------------------
(* What the frames of a stack say. *)

\* A frame of disable that has marked its delegate.
Late(f) == f.op = "disable" /\ f.at \in {"remove", "erase", "unlock"}
LateOk(st, disabled) == \A i \in 1..Len(st) : Late(st[i]) => disabled[st[i].d]

\* The forwarder of the loop is the outermost frame or none at all.
Well(st) == \A i \in 1..Len(st) - 1 : st[i].op # "forward"
Outermost(st) == st[Len(st)]

\* A delegate's method is running, or has returned and is being disabled.
Serving(st, d) ==
  /\ st # <<>>
  /\ Outermost(st).op = "forward" /\ Outermost(st).at \in {"method", "delete"}
  /\ Outermost(st).d = d

\* A delegate whose method has returned is about to be disabled.
Waiting(st) ==
  /\ Len(st) = 2
  /\ st[1].op = "disable" /\ st[1].at = "lock" /\ st[1].d = st[2].d

DisabledInv ==
  /\ \A d \in ended : m_disabled[d]
  /\ \A t \in Icd!Threads : LateOk(stack[t], m_disabled)

Returned(st, disabled) ==
  st # <<>> /\ Outermost(st).op = "forward" /\ Outermost(st).at = "delete" =>
    disabled[Outermost(st).d] \/ Waiting(st)

\* A delegate that is made for one call and was called is disabled, or still
\* in that call.
CalledInv ==
  \A d \in Delegates :
    called[d] # 0 /\ ~ Reuse[d] /\ ~ m_disabled[d] => Serving(stack[Owner], d)

IcdInv ==
  /\ IcdTypes /\ MutexInv /\ DisabledInv
  /\ Well(stack[Owner]) /\ Returned(stack[Owner], m_disabled)
  /\ CalledInv

\* A step leaves the outermost frame alone, or it is no forwarder.
NoForwarder(st) == st # <<>> => Outermost(st).op # "forward"
Kept(st, new) ==
  /\ Well(new)
  /\ \/ st # <<>> /\ new # <<>> /\ Outermost(new) = Outermost(st)
     \/ NoForwarder(st) /\ NoForwarder(new)

LEMMA TailFacts ==
  ASSUME NEW st \in Seq(Frames), st # <<>>, NEW dis, LateOk(st, dis)
  PROVE  /\ Tail(st) \in Seq(Frames) /\ Head(st) \in Frames
         /\ LateOk(Tail(st), dis) /\ (Late(Head(st)) => dis[Head(st).d])
         /\ \A d : Locks(st, d) = Locks(Tail(st), d) + Lock1(Head(st), d)
<1>1. /\ Tail(st) \in Seq(Frames) /\ Len(st) \in Nat \ {0} /\ Len(Tail(st)) = Len(st) - 1
      /\ \A i \in 1..Len(st) - 1 : Tail(st)[i] = st[i + 1]
      /\ Head(st) = st[1] /\ Head(st) \in Frames
  OBVIOUS
<1>2. LateOk(Tail(st), dis) /\ (Late(Head(st)) => dis[Head(st).d])
  BY <1>1 DEF LateOk
<1> QED
  BY <1>1, <1>2, LocksOfTail

LEMMA ConsFacts ==
  ASSUME NEW st \in Seq(Frames), NEW f \in Frames, NEW dis, LateOk(st, dis), Late(f) => dis[f.d]
  PROVE  /\ << f >> \o st \in Seq(Frames)
         /\ LateOk(<< f >> \o st, dis)
         /\ \A d : Locks(<< f >> \o st, d) = Locks(st, d) + Lock1(f, d)
<1>. DEFINE new == << f >> \o st
<1>1. /\ new \in Seq(Frames) /\ Len(new) = Len(st) + 1 /\ new[1] = f /\ Len(st) \in Nat
      /\ \A i \in 2..Len(st) + 1 : new[i] = st[i - 1]
  OBVIOUS
<1>2. LateOk(new, dis)
  <2>. HIDE DEF new
  <2>1. ASSUME NEW i \in 1..Len(new), Late(new[i]) PROVE dis[new[i].d]
    <3>1. CASE i = 1
      BY <1>1, <2>1, <3>1
    <3>2. CASE i # 1
      <4>1. i \in 2..Len(st) + 1 /\ i - 1 \in 1..Len(st)
        BY <1>1, <3>2
      <4> QED
        BY <1>1, <2>1, <4>1 DEF LateOk
    <3> QED
      BY <3>1, <3>2
  <2> QED
    BY <2>1 DEF LateOk
<1> QED
  BY <1>1, <1>2, LocksOfCons

LEMMA NoFrames ==
  ASSUME NEW st \in Seq(Frames), Len(st) = 0
  PROVE  st = <<>>
OBVIOUS

\* Popping a frame that is no forwarder.
LEMMA KeptPop ==
  ASSUME NEW st \in Seq(Frames), st # <<>>, Well(st), Head(st).op # "forward"
  PROVE  Kept(st, Tail(st))
<1>1. /\ Tail(st) \in Seq(Frames) /\ Len(st) \in Nat \ {0} /\ Len(Tail(st)) = Len(st) - 1
      /\ \A i \in 1..Len(st) - 1 : Tail(st)[i] = st[i + 1]
      /\ Head(st) = st[1]
  OBVIOUS
<1>2. Well(Tail(st))
  BY <1>1 DEF Well
<1>3. CASE Len(st) = 1
  <2>1. Tail(st) = <<>>
    <3>1. Len(Tail(st)) = 0
      BY <1>1, <1>3
    <3> QED
      BY <1>1, <3>1, NoFrames
  <2> QED
    BY <1>1, <1>2, <1>3, <2>1 DEF Kept, NoForwarder, Outermost
<1>4. CASE Len(st) # 1
  <2>1. Tail(st) # <<>> /\ Len(Tail(st)) \in 1..Len(st) - 1
    BY <1>1, <1>4
  <2>2. Outermost(Tail(st)) = Outermost(st)
    BY <1>1, <2>1 DEF Outermost
  <2> QED
    BY <1>2, <2>1, <2>2 DEF Kept
<1> QED
  BY <1>3, <1>4

\* Pushing one.
LEMMA KeptPush ==
  ASSUME NEW st \in Seq(Frames), NEW f \in Frames, Well(st), f.op # "forward"
  PROVE  Kept(st, << f >> \o st)
<1>. DEFINE new == << f >> \o st
<1>1. /\ new \in Seq(Frames) /\ Len(new) = Len(st) + 1 /\ new[1] = f /\ Len(st) \in Nat
      /\ \A i \in 2..Len(st) + 1 : new[i] = st[i - 1]
      /\ new # <<>>
  OBVIOUS
<1>. HIDE DEF new
<1>2. Well(new)
  <2>1. ASSUME NEW i \in 1..Len(new) - 1 PROVE new[i].op # "forward"
    <3>1. CASE i = 1
      BY <1>1, <3>1
    <3>2. CASE i # 1
      <4>1. i \in 2..Len(st) + 1 /\ i - 1 \in 1..Len(st) - 1
        BY <1>1, <3>2
      <4> QED
        BY <1>1, <4>1 DEF Well
    <3> QED
      BY <3>1, <3>2
  <2> QED
    BY <2>1 DEF Well
<1>3. CASE st = <<>>
  <2>1. Outermost(new) = f
    BY <1>1, <1>3 DEF Outermost
  <2> QED
    BY <1>2, <1>3, <2>1 DEF Kept, NoForwarder, new
<1>4. CASE st # <<>>
  <2>1. Len(st) \in Nat \ {0} /\ Len(new) \in 2..Len(st) + 1
    BY <1>1, <1>4
  <2>2. Outermost(new) = Outermost(st)
    BY <1>1, <2>1 DEF Outermost
  <2> QED
    BY <1>1, <1>2, <1>4, <2>2 DEF Kept, new
<1> QED
  BY <1>3, <1>4

LEMMA KeptTrans ==
  ASSUME NEW st, NEW mid, NEW new, Kept(st, mid), Kept(mid, new)
  PROVE  Kept(st, new)
BY DEF Kept, NoForwarder

\* Replacing the innermost frame.
LEMMA KeptReplace ==
  ASSUME NEW st \in Seq(Frames), st # <<>>, Well(st), Head(st).op # "forward",
         NEW f \in Frames, f.op # "forward"
  PROVE  Kept(st, << f >> \o Tail(st))
<1>1. Kept(st, Tail(st)) /\ Tail(st) \in Seq(Frames)
  BY KeptPop
<1>2. Kept(Tail(st), << f >> \o Tail(st))
  BY <1>1, KeptPush DEF Kept
<1> QED
  BY <1>1, <1>2, KeptTrans

\* Disabling never ends.
Monotone == \A d \in Delegates : m_disabled[d] => m_disabled'[d]

\* Such a step of a thread keeps what is said of the loop's forwarder.
LEMMA KeptKeeps ==
  ASSUME IcdInv, NEW t \in Icd!Threads, NEW new, Becomes(t, new), Monotone, UNCHANGED called,
         m_disabled' \in [Delegates -> BOOLEAN],
         t = Owner => /\ Kept(stack[Owner], new)
                      /\ Waiting(stack[Owner]) => m_disabled'[Outermost(stack[Owner]).d]
  PROVE  Well(stack[Owner])' /\ Returned(stack[Owner], m_disabled)' /\ CalledInv'
<1>0. Owner \in Icd!Threads /\ stack[Owner] \in Seq(Frames)
  BY DEF Icd!Threads, IcdInv, IcdTypes
<1>1. CASE t # Owner
  <2>1. stack'[Owner] = stack[Owner]
    BY <1>0, <1>1 DEF Becomes, IcdInv, IcdTypes
  <2>2. Returned(stack[Owner], m_disabled')
    <3>1. CASE stack[Owner] # <<>> /\ Outermost(stack[Owner]).op = "forward"
                 /\ Outermost(stack[Owner]).at = "delete"
      <4>1. Outermost(stack[Owner]) \in Frames
        BY <1>0, <3>1 DEF Outermost
      <4>2. Outermost(stack[Owner]).d \in Delegates
        BY <3>1, <4>1 DEF Frames
      <4> QED
        BY <3>1, <4>2 DEF IcdInv, Returned, Monotone
    <3> QED
      BY <3>1 DEF Returned
  <2> QED
    BY <2>1, <2>2 DEF IcdInv, CalledInv, Monotone, Well, Returned, Outermost, Waiting, Serving
<1>2. CASE t = Owner
  <2>1. /\ stack'[Owner] = new /\ Kept(stack[Owner], new)
        /\ Waiting(stack[Owner]) => m_disabled'[Outermost(stack[Owner]).d]
    BY <1>0, <1>2 DEF Becomes, IcdInv, IcdTypes
  <2>2. Well(stack'[Owner])
    BY <2>1 DEF Kept
  <2>3. Returned(stack'[Owner], m_disabled')
    <3>1. CASE new # <<>> /\ Outermost(new).op = "forward" /\ Outermost(new).at = "delete"
      <4>1. Outermost(new) = Outermost(stack[Owner]) /\ stack[Owner] # <<>>
        BY <2>1, <3>1 DEF Kept, NoForwarder
      <4>2. Outermost(new) \in Frames
        BY <1>0, <4>1 DEF Outermost
      <4>3. Outermost(new).d \in Delegates
        BY <3>1, <4>2 DEF Frames
      <4> QED
        BY <2>1, <3>1, <4>1, <4>3 DEF IcdInv, Returned, Monotone
    <3> QED
      BY <2>1, <3>1 DEF Returned
  <2>4. ASSUME NEW d \in Delegates, called'[d] # 0, ~ Reuse[d], ~ m_disabled'[d]
        PROVE  Serving(new, d)
    <3>1. Serving(stack[Owner], d)
      BY <2>4 DEF IcdInv, CalledInv, Monotone
    <3>2. stack[Owner] # <<>> /\ new # <<>> /\ Outermost(new) = Outermost(stack[Owner])
      BY <2>1, <3>1 DEF Serving, Kept, NoForwarder
    <3> QED
      BY <3>1, <3>2 DEF Serving
  <2> QED
    BY <2>1, <2>2, <2>3, <2>4 DEF CalledInv, Well, Returned, Outermost, Waiting, Serving
<1> QED
  BY <1>1, <1>2

\* The marks of frames stay right when those of the new stack are.
LEMMA DisabledKeeps ==
  ASSUME IcdInv, NEW t \in Icd!Threads, NEW new, Becomes(t, new), Monotone,
         LateOk(new, m_disabled'), \A d \in ended' : m_disabled'[d]
  PROVE  DisabledInv'
<1>1. ASSUME NEW u \in Icd!Threads PROVE LateOk(stack'[u], m_disabled')
  <2>1. CASE u = t
    BY <2>1 DEF Becomes, IcdInv, IcdTypes
  <2>2. CASE u # t
    <3>1. stack'[u] = stack[u] /\ stack[u] \in Seq(Frames) /\ LateOk(stack[u], m_disabled)
      BY <2>2 DEF Becomes, IcdInv, IcdTypes, DisabledInv
    <3>2. ASSUME NEW i \in 1..Len(stack[u]), Late(stack[u][i]) PROVE m_disabled'[stack[u][i].d]
      <4>1. stack[u][i] \in Frames /\ m_disabled[stack[u][i].d]
        BY <3>1, <3>2 DEF LateOk
      <4>2. stack[u][i].d \in Delegates
        BY <3>2, <4>1 DEF Frames, Late
      <4> QED
        BY <4>1, <4>2 DEF Monotone
    <3> QED
      BY <3>1, <3>2 DEF LateOk
  <2> QED
    BY <2>1, <2>2
<1> QED
  BY <1>1 DEF DisabledInv, LateOk, Late

-----------------------------------------------------------------------------
(* The shapes of a step. *)

\* Nothing of what the invariant speaks of changes but the stack of t, which
\* holds what it held.
LEMMA PlainStep ==
  ASSUME IcdInv, Icd!IcdAssumption, NEW t \in Icd!Threads, NEW new \in Seq(Frames), Becomes(t, new),
         UNCHANGED << m_disabled, m_mutex, called, ended >>,
         delegateListening' \subseteq Delegates, shared' \subseteq Delegates,
         LateOk(new, m_disabled),
         \A d \in Delegates : Locks(new, d) = Locks(stack[t], d),
         t = Owner => Kept(stack[Owner], new) /\ ~ Waiting(stack[Owner])
  PROVE  IcdInv'
<1>1. IcdTypes'
  BY DEF IcdInv, IcdTypes, Becomes
<1>2. MutexInv'
  BY NoMutexKeeps DEF IcdInv
<1>3. Monotone /\ m_disabled' \in [Delegates -> BOOLEAN]
  BY DEF Monotone, IcdInv, IcdTypes
<1>4. LateOk(new, m_disabled') /\ \A d \in ended' : m_disabled'[d]
  BY DEF IcdInv, DisabledInv
<1>5. DisabledInv'
  BY <1>3, <1>4, DisabledKeeps
<1>6. Well(stack[Owner])' /\ Returned(stack[Owner], m_disabled)' /\ CalledInv'
  BY <1>3, KeptKeeps
<1> QED
  BY <1>1, <1>2, <1>5, <1>6 DEF IcdInv

\* The stack of a thread, as the invariant gives it.
LEMMA StackOf ==
  ASSUME IcdInv, NEW t \in Icd!Threads
  PROVE  /\ stack[t] \in Seq(Frames) /\ LateOk(stack[t], m_disabled)
         /\ t = Owner => Well(stack[t])
         /\ Owner \in Icd!Threads
BY DEF IcdInv, IcdTypes, DisabledInv, Icd!Threads

\* The innermost frame of a thread that is at some place.
LEMMA HeadOf ==
  ASSUME IcdInv, NEW t \in Icd!Threads, NEW op, NEW at, Icd!At(t, op, at)
  PROVE  /\ stack[t] # <<>> /\ Head(stack[t]) = stack[t][1]
         /\ Head(stack[t]) \in Frames /\ Head(stack[t]).op = op /\ Head(stack[t]).at = at
         /\ op # "destroy" => Icd!TopDelegate(t) \in Delegates
         /\ (op # "disable" \/ at # "lock") => ~ Waiting(stack[t])
<1>1. /\ stack[t] \in Seq(Frames) /\ stack[t] # <<>> /\ Head(stack[t]) = stack[t][1]
      /\ Head(stack[t]).op = op /\ Head(stack[t]).at = at
  BY StackOf DEF Icd!At
<1>2. Head(stack[t]) \in Frames
  BY <1>1
<1>3. op # "destroy" => Icd!TopDelegate(t) \in Delegates
  BY <1>1, <1>2 DEF Icd!TopDelegate, Frames
<1> QED
  BY <1>1, <1>2, <1>3 DEF Waiting

\* User code is not where a delegate waits to be disabled.
LEMMA UserWaitsNot ==
  ASSUME IcdInv, NEW t \in Icd!Threads, Icd!UserCode(t)
  PROVE  ~ Waiting(stack[t])
<1>1. CASE stack[t] = <<>>
  BY <1>1 DEF Waiting
<1>2. CASE Icd!At(t, "forward", "method")
  BY <1>2, HeadOf
<1> QED
  BY <1>1, <1>2 DEF Icd!UserCode

\* An operation begins with a frame that holds nothing.
LEMMA PushStep ==
  ASSUME IcdInv, Icd!IcdAssumption, NEW t \in Icd!Threads, Icd!UserCode(t), NEW f \in Frames,
         f.op # "forward", ~ Late(f), \A d : ~ Holds(f, d), Icd!Push(t, f),
         UNCHANGED << m_disabled, m_mutex, called, ended >>,
         delegateListening' \subseteq Delegates, shared' \subseteq Delegates
  PROVE  IcdInv'
<1>. DEFINE new == << f >> \o stack[t]
<1>1. /\ stack[t] \in Seq(Frames) /\ LateOk(stack[t], m_disabled)
      /\ t = Owner => Well(stack[t])
  BY StackOf
<1>2. new \in Seq(Frames) /\ LateOk(new, m_disabled)
      /\ \A d : Locks(new, d) = Locks(stack[t], d) + Lock1(f, d)
  BY <1>1, ConsFacts
<1>3. \A d \in Delegates : Locks(new, d) = Locks(stack[t], d)
  BY <1>1, <1>2, LocksType DEF Lock1
<1>4. t = Owner => Kept(stack[Owner], new) /\ ~ Waiting(stack[Owner])
  BY <1>1, KeptPush, UserWaitsNot
<1>5. Becomes(t, new)
  BY DEF Becomes, Icd!Push
<1>. HIDE DEF new
<1> QED
  BY <1>2, <1>3, <1>4, <1>5, PlainStep

\* An operation ends with a frame that holds nothing.
LEMMA PopStep ==
  ASSUME IcdInv, Icd!IcdAssumption, NEW t \in Icd!Threads, stack[t] # <<>>,
         Head(stack[t]).op # "forward", \A d : ~ Holds(Head(stack[t]), d),
         ~ Waiting(stack[t]), Icd!Pop(t),
         UNCHANGED << m_disabled, m_mutex, called, ended >>,
         delegateListening' \subseteq Delegates, shared' \subseteq Delegates
  PROVE  IcdInv'
<1>. DEFINE new == Tail(stack[t])
<1>1. /\ stack[t] \in Seq(Frames) /\ LateOk(stack[t], m_disabled)
      /\ t = Owner => Well(stack[t])
  BY StackOf
<1>2. new \in Seq(Frames) /\ LateOk(new, m_disabled)
      /\ \A d : Locks(stack[t], d) = Locks(new, d) + Lock1(Head(stack[t]), d)
  BY <1>1, TailFacts
<1>3. \A d \in Delegates : Locks(new, d) = Locks(stack[t], d)
  <2>1. \A d : Lock1(Head(stack[t]), d) = 0
    BY DEF Lock1
  <2>2. \A d : Locks(new, d) \in Nat
    BY <1>2, LocksType
  <2>. HIDE DEF new
  <2> QED
    BY <1>2, <2>1, <2>2
<1>4. t = Owner => Kept(stack[Owner], new) /\ ~ Waiting(stack[Owner])
  BY <1>1, KeptPop
<1>5. Becomes(t, new)
  BY DEF Becomes, Icd!Pop
<1>. HIDE DEF new
<1> QED
  BY <1>2, <1>3, <1>4, <1>5, PlainStep

\* What replacing the innermost frame by f makes of a stack.
LEMMA ReplaceFacts ==
  ASSUME NEW st \in Seq(Frames), st # <<>>, NEW f \in Frames, NEW dis, NEW dis1,
         LateOk(st, dis), LateOk(Tail(st), dis1), Late(f) => dis1[f.d]
  PROVE  /\ << f >> \o Tail(st) \in Seq(Frames) /\ LateOk(<< f >> \o Tail(st), dis1)
         /\ \A d : Locks(<< f >> \o Tail(st), d) + Lock1(Head(st), d)
                    = Locks(st, d) + Lock1(f, d)
<1>1. Tail(st) \in Seq(Frames) /\ \A d : Locks(st, d) = Locks(Tail(st), d) + Lock1(Head(st), d)
  BY TailFacts
<1>2. /\ << f >> \o Tail(st) \in Seq(Frames)
      /\ LateOk(<< f >> \o Tail(st), dis1)
      /\ \A d : Locks(<< f >> \o Tail(st), d) = Locks(Tail(st), d) + Lock1(f, d)
  BY <1>1, ConsFacts
<1>3. \A d : Locks(Tail(st), d) \in Nat /\ Lock1(f, d) \in Nat /\ Lock1(Head(st), d) \in Nat
  BY <1>1, LocksType DEF Lock1
<1>4. \A d : Locks(<< f >> \o Tail(st), d) + Lock1(Head(st), d) = Locks(st, d) + Lock1(f, d)
  BY <1>1, <1>2, <1>3
<1> QED
  BY <1>2, <1>4

\* An operation goes on to a frame that holds the same.
LEMMA ReplaceStep ==
  ASSUME IcdInv, Icd!IcdAssumption, NEW t \in Icd!Threads, stack[t] # <<>>,
         Head(stack[t]).op # "forward", ~ Waiting(stack[t]),
         NEW f \in Frames, f.op # "forward", Late(f) => m_disabled[f.d],
         \A d : Holds(f, d) <=> Holds(Head(stack[t]), d),
         Becomes(t, << f >> \o Tail(stack[t])),
         UNCHANGED << m_disabled, m_mutex, called, ended >>,
         delegateListening' \subseteq Delegates, shared' \subseteq Delegates
  PROVE  IcdInv'
<1>. DEFINE new == << f >> \o Tail(stack[t])
<1>1. /\ stack[t] \in Seq(Frames) /\ LateOk(stack[t], m_disabled)
      /\ t = Owner => Well(stack[t])
  BY StackOf
<1>2. LateOk(Tail(stack[t]), m_disabled)
  BY <1>1, TailFacts
<1>3. new \in Seq(Frames) /\ LateOk(new, m_disabled)
      /\ \A d : Locks(new, d) + Lock1(Head(stack[t]), d) = Locks(stack[t], d) + Lock1(f, d)
  BY <1>1, <1>2, ReplaceFacts
<1>4. \A d \in Delegates : Locks(new, d) = Locks(stack[t], d)
  <2>1. \A d : Lock1(Head(stack[t]), d) = Lock1(f, d) /\ Lock1(f, d) \in {0, 1}
    BY DEF Lock1
  <2>2. \A d : Locks(new, d) \in Nat /\ Locks(stack[t], d) \in Nat
    BY <1>1, <1>3, LocksType
  <2>. HIDE DEF new
  <2> QED
    BY <1>3, <2>1, <2>2
<1>5. t = Owner => Kept(stack[Owner], new) /\ ~ Waiting(stack[Owner])
  BY <1>1, KeptReplace
<1>6. Becomes(t, new)
  OBVIOUS
<1>. HIDE DEF new
<1> QED
  BY <1>3, <1>4, <1>5, <1>6, PlainStep

\* An operation takes the mutex of d and goes on to a frame that holds it.
LEMMA LockStep ==
  ASSUME IcdInv, Icd!IcdAssumption, NEW t \in Icd!Threads, stack[t] # <<>>,
         Head(stack[t]).op # "forward", \A e : ~ Holds(Head(stack[t]), e),
         NEW d \in Delegates, Icd!Lock(t, d),
         NEW f \in Frames, f.op # "forward", \A e : Holds(f, e) <=> e = d,
         Becomes(t, << f >> \o Tail(stack[t]))
  PROVE  MutexInv' /\ m_mutex' \in [Delegates -> [owner : Icd!Threads \cup {Nobody}, count : Nat]]
<1>. DEFINE new == << f >> \o Tail(stack[t])
<1>1. stack[t] \in Seq(Frames) /\ LateOk(stack[t], m_disabled)
  BY StackOf
<1>3. /\ Tail(stack[t]) \in Seq(Frames)
      /\ \A e : Locks(stack[t], e) = Locks(Tail(stack[t]), e) + Lock1(Head(stack[t]), e)
      /\ \A e : Locks(new, e) = Locks(Tail(stack[t]), e) + Lock1(f, e)
  BY <1>1, TailFacts, LocksOfCons
<1>4. \A e \in Delegates : Locks(new, e) = Locks(stack[t], e) + (IF e = d THEN 1 ELSE 0)
  <2>1. \A e : Lock1(Head(stack[t]), e) = 0 /\ Lock1(f, e) = (IF e = d THEN 1 ELSE 0)
    BY DEF Lock1
  <2>2. \A e : Locks(Tail(stack[t]), e) \in Nat
    BY <1>3, LocksType
  <2>. HIDE DEF new
  <2> QED
    BY <1>3, <2>1, <2>2
<1>5. Becomes(t, new)
  OBVIOUS
<1>. HIDE DEF new
<1> QED
  BY <1>4, <1>5, LockKeeps DEF IcdInv

\* An operation releases the mutex of d with the frame that holds it.
LEMMA UnlockStep ==
  ASSUME IcdInv, Icd!IcdAssumption, NEW t \in Icd!Threads, stack[t] # <<>>,
         NEW d \in Delegates, \A e : Holds(Head(stack[t]), e) <=> e = d,
         Icd!Unlock(d), Icd!Pop(t)
  PROVE  MutexInv' /\ m_mutex' \in [Delegates -> [owner : Icd!Threads \cup {Nobody}, count : Nat]]
<1>. DEFINE new == Tail(stack[t])
<1>1. stack[t] \in Seq(Frames) /\ LateOk(stack[t], m_disabled)
  BY StackOf
<1>2. /\ new \in Seq(Frames)
      /\ \A e : Locks(stack[t], e) = Locks(new, e) + Lock1(Head(stack[t]), e)
  BY <1>1, TailFacts
<1>3. \A e : Lock1(Head(stack[t]), e) = (IF e = d THEN 1 ELSE 0)
  BY DEF Lock1
<1>4. \A e : Locks(new, e) \in Nat
  BY <1>2, LocksType
<1>5. Becomes(t, new)
  BY DEF Becomes, Icd!Pop
<1>. HIDE DEF new
<1>6. /\ Locks(stack[t], d) # 0
      /\ \A e \in Delegates : Locks(new, e) = Locks(stack[t], e) - (IF e = d THEN 1 ELSE 0)
  BY <1>2, <1>3, <1>4
<1> QED
  BY <1>5, <1>6, UnlockKeeps DEF IcdInv

\* A step that locks or unlocks, of a thread that is not in the forwarder.
LEMMA MutexStep ==
  ASSUME IcdInv, Icd!IcdAssumption, NEW t \in Icd!Threads, NEW new \in Seq(Frames), Becomes(t, new),
         MutexInv', m_mutex' \in [Delegates -> [owner : Icd!Threads \cup {Nobody}, count : Nat]],
         UNCHANGED << m_disabled, delegateListening, shared, called >>,
         ended' \subseteq Delegates, \A d \in ended' : m_disabled[d],
         LateOk(new, m_disabled),
         t = Owner => Kept(stack[Owner], new) /\ ~ Waiting(stack[Owner])
  PROVE  IcdInv'
<1>1. IcdTypes'
  BY DEF IcdInv, IcdTypes, Becomes
<1>2. Monotone /\ m_disabled' \in [Delegates -> BOOLEAN]
  BY DEF Monotone, IcdInv, IcdTypes
<1>3. LateOk(new, m_disabled') /\ \A d \in ended' : m_disabled'[d]
  OBVIOUS
<1>4. DisabledInv'
  BY <1>2, <1>3, DisabledKeeps
<1>5. Well(stack[Owner])' /\ Returned(stack[Owner], m_disabled)' /\ CalledInv'
  BY <1>2, KeptKeeps
<1> QED
  BY <1>1, <1>4, <1>5 DEF IcdInv

\* Going on to another place of the same operation.
LEMMA GoFrame ==
  ASSUME NEW t \in Icd!Threads, NEW at, Icd!Go(t, at), stack[t] # <<>>, stack[t] \in Seq(Frames),
         Head(stack[t]).op \in {"call", "disable", "forward"},
         << Head(stack[t]).op, at >> \in {<<"call", "emit">>, <<"disable", "remove">>,
            <<"disable", "erase">>, <<"disable", "unlock">>, <<"forward", "method">>}
  PROVE  LET f == Icd!Frame(Head(stack[t]).op, Icd!TopDelegate(t), at)
         IN  f \in Frames /\ Becomes(t, << f >> \o Tail(stack[t]))
<1>. DEFINE h == Head(stack[t])
            f == Icd!Frame(h.op, h.d, at)
<1>1. h \in Frames
  OBVIOUS
<1>2. h.d \in Delegates /\ [h EXCEPT !.at = at] = f /\ f \in Frames
  BY <1>1 DEF Frames, Icd!Frame
<1>3. stack' = [stack EXCEPT ![t] = << [h EXCEPT !.at = at] >> \o Tail(stack[t])]
  BY DEF Icd!Go
<1> QED
  BY <1>2, <1>3 DEF Becomes, Icd!TopDelegate

\* A step of the loop's own frames, which are the outermost.
LEMMA LoopStep ==
  ASSUME IcdInv, Icd!IcdAssumption, NEW new \in Seq(Frames), Becomes(Owner, new),
         MutexInv', m_mutex' \in [Delegates -> [owner : Icd!Threads \cup {Nobody}, count : Nat]],
         UNCHANGED << m_disabled, delegateListening, shared, ended >>,
         called' \in [Delegates -> Nat],
         LateOk(new, m_disabled), Well(new), Returned(new, m_disabled),
         \A d \in Delegates :
           called'[d] # 0 /\ ~ Reuse[d] /\ ~ m_disabled[d] => Serving(new, d)
  PROVE  IcdInv'
<1>0. Owner \in Icd!Threads
  BY DEF Icd!Threads
<1>1. IcdTypes'
  BY <1>0 DEF IcdInv, IcdTypes, Becomes
<1>2. Monotone /\ LateOk(new, m_disabled') /\ \A d \in ended' : m_disabled'[d]
  BY DEF Monotone, IcdInv, DisabledInv
<1>3. DisabledInv'
  BY <1>0, <1>2, DisabledKeeps
<1>4. stack'[Owner] = new
  BY <1>0 DEF Becomes, IcdInv, IcdTypes
<1>5. Well(stack[Owner])' /\ Returned(stack[Owner], m_disabled)' /\ CalledInv'
  BY <1>4 DEF CalledInv, Well, Returned, Outermost, Waiting, Serving
<1> QED
  BY <1>1, <1>3, <1>5 DEF IcdInv

-----------------------------------------------------------------------------
(* The operations. *)

LEMMA BeginStep ==
  ASSUME IcdInv, Icd!IcdAssumption, NEW t \in Icd!Threads, NEW d \in Delegates,
         Icd!MakeICDelegate(d) \/ Icd!BeginCall(t, d) \/ Icd!BeginDisable(t, d) \/ Icd!BeginDestroy
  PROVE  IcdInv'
<1>0. Owner \in Icd!Threads /\ delegateListening \subseteq Delegates /\ shared \subseteq Delegates
  BY DEF Icd!Threads, IcdInv, IcdTypes
<1>. USE DEF Late, Holds, Frames, Icd!Frame
<1>1. CASE Icd!MakeICDelegate(d)
  <2>1. /\ Icd!Frame("make", d, "insert") \in Frames /\ Icd!Push(Owner, Icd!Frame("make", d, "insert"))
        /\ Icd!UserCode(Owner) /\ UNCHANGED << m_disabled, m_mutex, called, ended >>
        /\ delegateListening' \subseteq Delegates /\ shared' \subseteq Delegates
    BY <1>0, <1>1 DEF Icd!MakeICDelegate, Icd!ghosts
  <2> QED
    BY <1>0, <2>1, PushStep
<1>2. CASE Icd!BeginCall(t, d)
  <2>1. /\ Icd!Frame("call", d, "lock") \in Frames /\ Icd!Push(t, Icd!Frame("call", d, "lock"))
        /\ Icd!UserCode(t) /\ UNCHANGED << m_disabled, m_mutex, called, ended >>
        /\ delegateListening' \subseteq Delegates /\ shared' \subseteq Delegates
    BY <1>0, <1>2 DEF Icd!BeginCall, Icd!dataVars, Icd!listVars
  <2> QED
    BY <1>0, <2>1, PushStep
<1>3. CASE Icd!BeginDisable(t, d)
  <2>1. /\ Icd!Frame("disable", d, "lock") \in Frames /\ Icd!Push(t, Icd!Frame("disable", d, "lock"))
        /\ Icd!UserCode(t) /\ UNCHANGED << m_disabled, m_mutex, called, ended >>
        /\ delegateListening' \subseteq Delegates /\ shared' \subseteq Delegates
    BY <1>0, <1>3 DEF Icd!BeginDisable, Icd!dataVars, Icd!listVars, Icd!ghosts
  <2> QED
    BY <1>0, <2>1, PushStep
<1>4. CASE Icd!BeginDestroy
  <2>. DEFINE f == [op |-> "destroy", d |-> Nobody, at |-> "copy", rest |-> {}]
  <2>1. /\ f \in Frames /\ Icd!Push(Owner, f)
        /\ Icd!UserCode(Owner) /\ UNCHANGED << m_disabled, m_mutex, called, ended >>
        /\ delegateListening' \subseteq Delegates /\ shared' \subseteq Delegates
    BY <1>0, <1>4 DEF Icd!BeginDestroy, Icd!dataVars, Icd!ghosts
  <2> QED
    BY <1>0, <2>1, PushStep
<1> QED
  BY <1>1, <1>2, <1>3, <1>4

LEMMA FinishStep ==
  ASSUME IcdInv, Icd!IcdAssumption, Icd!RegisterICDSharedData \/ Icd!EndDestroy
  PROVE  IcdInv'
<1>0. Owner \in Icd!Threads /\ delegateListening \subseteq Delegates /\ shared \subseteq Delegates
  BY DEF Icd!Threads, IcdInv, IcdTypes
<1>1. CASE Icd!RegisterICDSharedData
  <2>1. Icd!At(Owner, "make", "insert")
    BY <1>1 DEF Icd!RegisterICDSharedData
  <2>2. /\ stack[Owner] # <<>> /\ Head(stack[Owner]).op = "make" /\ ~ Waiting(stack[Owner])
        /\ Icd!TopDelegate(Owner) \in Delegates
    BY <1>0, <2>1, HeadOf
  <2>3. /\ Icd!Pop(Owner) /\ UNCHANGED << m_disabled, m_mutex, called, ended >>
        /\ delegateListening' \subseteq Delegates /\ shared' \subseteq Delegates
    BY <1>0, <1>1, <2>2 DEF Icd!RegisterICDSharedData, Icd!dataVars, Icd!ghosts
  <2>4. \A d : ~ Holds(Head(stack[Owner]), d)
    BY <2>2 DEF Holds
  <2> QED
    BY <1>0, <2>2, <2>3, <2>4, PopStep
<1>2. CASE Icd!EndDestroy
  <2>1. Icd!At(Owner, "destroy", "disable")
    BY <1>2 DEF Icd!EndDestroy
  <2>2. /\ stack[Owner] # <<>> /\ Head(stack[Owner]).op = "destroy" /\ ~ Waiting(stack[Owner])
    BY <1>0, <2>1, HeadOf
  <2>3. /\ Icd!Pop(Owner) /\ UNCHANGED << m_disabled, m_mutex, called, ended >>
        /\ delegateListening' \subseteq Delegates /\ shared' \subseteq Delegates
    BY <1>0, <1>2 DEF Icd!EndDestroy, Icd!dataVars, Icd!ghosts
  <2>4. \A d : ~ Holds(Head(stack[Owner]), d)
    BY <2>2 DEF Holds
  <2> QED
    BY <1>0, <2>2, <2>3, <2>4, PopStep
<1> QED
  BY <1>1, <1>2

LEMMA GoOnStep ==
  ASSUME IcdInv, Icd!IcdAssumption, NEW t \in Icd!Threads,
         Icd!RemoveListener(t) \/ Icd!UnregisterICDSharedData(t) \/ Icd!CopyList
  PROVE  IcdInv'
<1>0. /\ Owner \in Icd!Threads /\ delegateListening \subseteq Delegates /\ shared \subseteq Delegates
      /\ \A u \in Icd!Threads : stack[u] \in Seq(Frames) /\ LateOk(stack[u], m_disabled)
  BY StackOf DEF Icd!Threads, IcdInv, IcdTypes
<1>1. CASE Icd!RemoveListener(t) \/ Icd!UnregisterICDSharedData(t)
  <2>1. PICK from \in {"remove", "erase"}, to \in {"erase", "unlock"} :
          Icd!At(t, "disable", from) /\ Icd!Go(t, to)
    BY <1>1 DEF Icd!RemoveListener, Icd!UnregisterICDSharedData
  <2>. DEFINE f == Icd!Frame("disable", Icd!TopDelegate(t), to)
  <2>2. /\ stack[t] # <<>> /\ Head(stack[t]).op = "disable" /\ Head(stack[t]).at = from
        /\ Icd!TopDelegate(t) \in Delegates /\ ~ Waiting(stack[t])
    BY <2>1, HeadOf
  <2>3. f \in Frames /\ Becomes(t, << f >> \o Tail(stack[t]))
    BY <1>0, <2>1, <2>2, GoFrame
  <2>4. f.op = "disable" /\ \A d : Holds(f, d) <=> Holds(Head(stack[t]), d)
    BY <2>2 DEF Holds, Icd!Frame, Icd!TopDelegate
  <2>5. m_disabled[f.d]
    <3>1. Late(Head(stack[t]))
      BY <2>2 DEF Late
    <3> QED
      BY <1>0, <2>2, <3>1, TailFacts DEF Icd!Frame, Icd!TopDelegate
  <2>6. /\ UNCHANGED << m_disabled, m_mutex, called, ended >>
        /\ delegateListening' \subseteq Delegates /\ shared' \subseteq Delegates
    BY <1>0, <1>1 DEF Icd!RemoveListener, Icd!UnregisterICDSharedData, Icd!dataVars, Icd!ghosts
  <2>. HIDE DEF f
  <2> QED
    BY <2>2, <2>3, <2>4, <2>5, <2>6, ReplaceStep
<1>2. CASE Icd!CopyList
  <2>1. Icd!At(Owner, "destroy", "copy")
    BY <1>2 DEF Icd!CopyList
  <2>. DEFINE h == Head(stack[Owner])
              f == [h EXCEPT !.at = "disable", !.rest = shared]
  <2>2. stack[Owner] # <<>> /\ h.op = "destroy" /\ ~ Waiting(stack[Owner]) /\ h \in Frames
    BY <1>0, <2>1, HeadOf
  <2>3. f \in Frames /\ f.op = "destroy"
    BY <1>0, <2>2 DEF Frames
  <2>4. Becomes(Owner, << f >> \o Tail(stack[Owner]))
    BY <1>2 DEF Icd!CopyList, Becomes
  <2>5. ~ Late(f) /\ \A d : ~ Holds(f, d) /\ ~ Holds(h, d)
    BY <2>2, <2>3 DEF Holds, Late
  <2>6. /\ UNCHANGED << m_disabled, m_mutex, called, ended >>
        /\ delegateListening' \subseteq Delegates /\ shared' \subseteq Delegates
    BY <1>0, <1>2 DEF Icd!CopyList, Icd!dataVars, Icd!ghosts
  <2>. HIDE DEF f
  <2> QED
    BY <1>0, <2>2, <2>3, <2>4, <2>5, <2>6, ReplaceStep
<1> QED
  BY <1>1, <1>2

LEMMA CallStep ==
  ASSUME IcdInv, Icd!IcdAssumption, NEW t \in Icd!Threads, Icd!CallDelegate(t)
  PROVE  IcdInv'
<1>. DEFINE d == Icd!TopDelegate(t)
            f == Icd!Frame("call", d, "emit")
            new == << f >> \o Tail(stack[t])
<1>0. /\ Icd!At(t, "call", "lock") /\ Icd!Lock(t, d) /\ Icd!Go(t, "emit")
      /\ UNCHANGED << m_disabled, delegateListening, shared, called, ended >>
  BY DEF Icd!CallDelegate, Icd!dataVars, Icd!listVars, Icd!ghosts
<1>1. /\ stack[t] # <<>> /\ Head(stack[t]).op = "call" /\ Head(stack[t]).at = "lock"
      /\ d \in Delegates /\ ~ Waiting(stack[t])
  BY <1>0, HeadOf
<1>2. /\ stack[t] \in Seq(Frames) /\ LateOk(stack[t], m_disabled)
      /\ t = Owner => Well(stack[t])
  BY StackOf
<1>3. f \in Frames /\ Becomes(t, new)
  BY <1>0, <1>1, <1>2, GoFrame
<1>4. /\ f.op = "call" /\ ~ Late(f) /\ \A e : Holds(f, e) <=> e = d
      /\ \A e : ~ Holds(Head(stack[t]), e)
  BY <1>1 DEF Holds, Late, Icd!Frame
<1>. HIDE DEF f, d
<1>5. MutexInv' /\ m_mutex' \in [Delegates -> [owner : Icd!Threads \cup {Nobody}, count : Nat]]
  BY <1>0, <1>1, <1>3, <1>4, LockStep
<1>6. new \in Seq(Frames) /\ LateOk(new, m_disabled)
  BY <1>1, <1>2, <1>3, <1>4, TailFacts, ReplaceFacts
<1>7. t = Owner => Kept(stack[Owner], new) /\ ~ Waiting(stack[Owner])
  BY <1>1, <1>2, <1>3, <1>4, KeptReplace
<1>8. ended' \subseteq Delegates /\ \A e \in ended' : m_disabled[e]
  BY <1>0 DEF IcdInv, IcdTypes, DisabledInv
<1>. HIDE DEF new
<1> QED
  BY <1>0, <1>3, <1>5, <1>6, <1>7, <1>8, MutexStep

LEMMA ReleaseStep ==
  ASSUME IcdInv, Icd!IcdAssumption, NEW t \in Icd!Threads, Icd!EmitEvent(t) \/ Icd!EndDisable(t)
  PROVE  IcdInv'
<1>. DEFINE d == Icd!TopDelegate(t)
            new == Tail(stack[t])
<1>0. /\ Icd!At(t, "call", "emit") \/ Icd!At(t, "disable", "unlock")
      /\ Icd!Unlock(d) /\ Icd!Pop(t)
      /\ UNCHANGED << m_disabled, delegateListening, shared, called >>
      /\ \/ ended' = ended
         \/ Icd!At(t, "disable", "unlock") /\ ended' = ended \cup {d}
  BY DEF Icd!EmitEvent, Icd!EndDisable, Icd!dataVars, Icd!listVars, Icd!ghosts
<1>1. /\ stack[t] # <<>> /\ d \in Delegates /\ ~ Waiting(stack[t])
      /\ \/ Head(stack[t]).op = "call" /\ Head(stack[t]).at = "emit"
         \/ Head(stack[t]).op = "disable" /\ Head(stack[t]).at = "unlock"
  BY <1>0, HeadOf
<1>2. /\ stack[t] \in Seq(Frames) /\ LateOk(stack[t], m_disabled)
      /\ t = Owner => Well(stack[t])
  BY StackOf
<1>3. \A e : Holds(Head(stack[t]), e) <=> e = d
  BY <1>1 DEF Holds, Icd!TopDelegate
<1>4. MutexInv' /\ m_mutex' \in [Delegates -> [owner : Icd!Threads \cup {Nobody}, count : Nat]]
  BY <1>0, <1>1, <1>3, UnlockStep
<1>5. new \in Seq(Frames) /\ LateOk(new, m_disabled) /\ (Late(Head(stack[t])) => m_disabled[d])
  BY <1>1, <1>2, TailFacts DEF Icd!TopDelegate
<1>6. t = Owner => Kept(stack[Owner], new) /\ ~ Waiting(stack[Owner])
  BY <1>1, <1>2, KeptPop
<1>7. ended' \subseteq Delegates /\ \A e \in ended' : m_disabled[e]
  <2>1. Icd!At(t, "disable", "unlock") => m_disabled[d]
    BY <1>5 DEF Icd!At, Late
  <2> QED
    BY <1>0, <1>1, <2>1 DEF IcdInv, IcdTypes, DisabledInv
<1>8. Becomes(t, new)
  BY <1>0 DEF Becomes, Icd!Pop
<1>. HIDE DEF new, d
<1> QED
  BY <1>0, <1>4, <1>5, <1>6, <1>7, <1>8, MutexStep

LEMMA DisableStep ==
  ASSUME IcdInv, Icd!IcdAssumption, NEW t \in Icd!Threads, Icd!Disable(t)
  PROVE  IcdInv'
<1>. DEFINE d == Icd!TopDelegate(t)
            to == IF m_disabled[d] THEN "unlock" ELSE "remove"
            f == Icd!Frame("disable", d, to)
            new == << f >> \o Tail(stack[t])
<1>0. /\ Icd!At(t, "disable", "lock") /\ Icd!Lock(t, d) /\ Icd!Go(t, to)
      /\ m_disabled' = [m_disabled EXCEPT ![d] = TRUE]
      /\ UNCHANGED << delegateListening, shared, called, ended >>
  BY DEF Icd!Disable, Icd!listVars, Icd!ghosts
<1>1. /\ stack[t] # <<>> /\ Head(stack[t]).op = "disable" /\ Head(stack[t]).at = "lock"
      /\ d \in Delegates /\ Head(stack[t]) = stack[t][1]
  BY <1>0, HeadOf
<1>2. /\ stack[t] \in Seq(Frames) /\ LateOk(stack[t], m_disabled)
      /\ t = Owner => Well(stack[t])
  BY StackOf
<1>3. f \in Frames /\ Becomes(t, new)
  BY <1>0, <1>1, <1>2, GoFrame
<1>4. /\ f.op = "disable" /\ f.d = d /\ \A e : Holds(f, e) <=> e = d
      /\ \A e : ~ Holds(Head(stack[t]), e)
  BY <1>1 DEF Holds, Icd!Frame
<1>5. /\ m_disabled' \in [Delegates -> BOOLEAN] /\ m_disabled'[d]
      /\ Monotone
      /\ \A e \in Delegates : m_disabled[e] => m_disabled'[e]
  BY <1>0, <1>1 DEF IcdInv, IcdTypes, Monotone
<1>6. \A e \in ended' : m_disabled'[e]
  BY <1>0, <1>5 DEF IcdInv, IcdTypes, DisabledInv
<1>. HIDE DEF f, to
<1>7. /\ Waiting(stack[t]) => m_disabled'[Outermost(stack[t]).d]
  BY <1>1, <1>5 DEF Waiting, Outermost, Icd!TopDelegate
<1>. HIDE DEF d
<1>8. MutexInv' /\ m_mutex' \in [Delegates -> [owner : Icd!Threads \cup {Nobody}, count : Nat]]
  BY <1>0, <1>1, <1>3, <1>4, LockStep
<1>9. LateOk(Tail(stack[t]), m_disabled')
  <2>1. LateOk(Tail(stack[t]), m_disabled) /\ Tail(stack[t]) \in Seq(Frames)
    BY <1>1, <1>2, TailFacts
  <2>. DEFINE rest == Tail(stack[t])
  <2>. HIDE DEF rest
  <2>2. ASSUME NEW i \in 1..Len(rest), Late(rest[i]) PROVE m_disabled'[rest[i].d]
    <3>1. rest[i] \in Frames /\ m_disabled[rest[i].d]
      BY <2>1, <2>2 DEF LateOk, rest
    <3>2. rest[i].d \in Delegates
      BY <2>2, <3>1 DEF Frames, Late
    <3> QED
      BY <1>5, <3>1, <3>2
  <2> QED
    BY <2>2 DEF LateOk, rest
<1>10. new \in Seq(Frames) /\ LateOk(new, m_disabled')
  BY <1>1, <1>2, <1>3, <1>4, <1>5, <1>9, ReplaceFacts
<1>11. t = Owner => Kept(stack[Owner], new)
  BY <1>1, <1>2, <1>3, <1>4, KeptReplace
<1>. HIDE DEF new
<1>12. IcdTypes'
  BY <1>0, <1>3, <1>5, <1>8, <1>10 DEF IcdInv, IcdTypes, Becomes
<1>13. DisabledInv'
  BY <1>3, <1>5, <1>6, <1>10, DisabledKeeps
<1>14. Well(stack[Owner])' /\ Returned(stack[Owner], m_disabled)' /\ CalledInv'
  BY <1>0, <1>3, <1>5, <1>7, <1>11, KeptKeeps
<1> QED
  BY <1>8, <1>12, <1>13, <1>14 DEF IcdInv

LEMMA TwoPushed ==
  ASSUME NEW f \in Frames, NEW g \in Frames, NEW st \in Seq(Frames)
  PROVE  << f >> \o (<< g >> \o st) = << f, g >> \o st
<1>1. << f >> \in Seq(Frames) /\ << g >> \in Seq(Frames) /\ << f, g >> \in Seq(Frames)
  OBVIOUS
<1>2. << f >> \o << g >> = << f, g >>
  <2>1. << f >> \o << g >> \in Seq(Frames) /\ Len(<< f >> \o << g >>) = 2
    BY <1>1
  <2>2. (<< f >> \o << g >>)[1] = f /\ (<< f >> \o << g >>)[2] = g
    BY <1>1
  <2>3. Len(<< f, g >>) = 2 /\ << f, g >>[1] = f /\ << f, g >>[2] = g
    OBVIOUS
  <2>4. \A i \in 1..2 : (<< f >> \o << g >>)[i] = << f, g >>[i]
    BY <2>2, <2>3
  <2> QED
    BY <1>1, <2>1, <2>3, <2>4, SeqEqual
<1>3. (<< f >> \o << g >>) \o st = << f >> \o (<< g >> \o st)
  BY <1>1, ConcatAssociative
<1> QED
  BY <1>2, <1>3

LEMMA DisableNextStep ==
  ASSUME IcdInv, Icd!IcdAssumption, NEW d \in Delegates, Icd!DisableNext(d)
  PROVE  IcdInv'
<1>. DEFINE h == Head(stack[Owner])
            g == [h EXCEPT !.rest = h.rest \ {d}]
            f == Icd!Frame("disable", d, "lock")
            mid == << g >> \o Tail(stack[Owner])
            new == << f >> \o mid
<1>0. /\ Icd!At(Owner, "destroy", "disable") /\ Owner \in Icd!Threads
      /\ UNCHANGED << m_disabled, m_mutex, delegateListening, shared, called, ended >>
      /\ stack' = [stack EXCEPT ![Owner] = << f, g >> \o Tail(stack[Owner])]
  BY DEF Icd!DisableNext, Icd!dataVars, Icd!listVars, Icd!ghosts, Icd!Threads
<1>1. /\ stack[Owner] # <<>> /\ h.op = "destroy" /\ h.at = "disable" /\ h \in Frames
      /\ ~ Waiting(stack[Owner])
  BY <1>0, HeadOf
<1>2. stack[Owner] \in Seq(Frames) /\ LateOk(stack[Owner], m_disabled) /\ Well(stack[Owner])
  BY <1>0, StackOf
<1>3. f \in Frames /\ f.op = "disable" /\ g \in Frames /\ g.op = "destroy"
  BY <1>1 DEF Frames, Icd!Frame
<1>4. /\ ~ Late(f) /\ ~ Late(g)
      /\ \A e : ~ Holds(f, e) /\ ~ Holds(g, e) /\ ~ Holds(h, e)
  BY <1>1, <1>3 DEF Late, Holds, Icd!Frame
<1>5. Tail(stack[Owner]) \in Seq(Frames) /\ LateOk(Tail(stack[Owner]), m_disabled)
  BY <1>1, <1>2, TailFacts
<1>6. Becomes(Owner, new)
  <2>1. new = << f, g >> \o Tail(stack[Owner])
    <3>. DEFINE rest == Tail(stack[Owner])
    <3>. HIDE DEF f, g, rest
    <3>1. rest \in Seq(Frames)
      BY <1>5 DEF rest
    <3>2. << f >> \o (<< g >> \o rest) = << f, g >> \o rest
      BY <1>3, <3>1, TwoPushed
    <3> QED
      BY <3>2 DEF rest
  <2> QED
    BY <1>0, <2>1 DEF Becomes
<1>. HIDE DEF f, g, h
<1>7. /\ mid \in Seq(Frames) /\ LateOk(mid, m_disabled)
      /\ \A e : Locks(mid, e) = Locks(stack[Owner], e)
  <2>1. /\ mid \in Seq(Frames) /\ LateOk(mid, m_disabled)
        /\ \A e : Locks(mid, e) + Lock1(h, e) = Locks(stack[Owner], e) + Lock1(g, e)
    BY <1>1, <1>2, <1>3, <1>4, <1>5, ReplaceFacts DEF h
  <2>2. \A e : Lock1(h, e) = 0 /\ Lock1(g, e) = 0
    BY <1>4 DEF Lock1
  <2>3. \A e : Locks(mid, e) \in Nat /\ Locks(stack[Owner], e) \in Nat
    BY <1>2, <2>1, LocksType
  <2>. HIDE DEF mid
  <2> QED
    BY <2>1, <2>2, <2>3
<1>8. Kept(stack[Owner], mid)
  BY <1>1, <1>2, <1>3, KeptReplace DEF h
<1>. HIDE DEF mid
<1>9. /\ new \in Seq(Frames) /\ LateOk(new, m_disabled)
      /\ \A e : Locks(new, e) = Locks(mid, e) + Lock1(f, e)
  BY <1>3, <1>4, <1>7, ConsFacts
<1>10. Kept(stack[Owner], new)
  <2>1. Kept(mid, new)
    BY <1>3, <1>7, <1>8, KeptPush DEF Kept
  <2> QED
    BY <1>8, <2>1, KeptTrans
<1>. HIDE DEF new
<1>11. \A e \in Delegates : Locks(new, e) = Locks(stack[Owner], e)
  BY <1>4, <1>7, <1>9, LocksType DEF Lock1
<1>12. delegateListening' \subseteq Delegates /\ shared' \subseteq Delegates
  BY <1>0 DEF IcdInv, IcdTypes
<1> QED
  BY <1>0, <1>1, <1>6, <1>9, <1>10, <1>11, <1>12, PlainStep

\* What holds of stacks without frames and with one.
LEMMA NoFrame ==
  /\ <<>> \in Seq(Frames) /\ \A dis : LateOk(<<>>, dis) /\ Returned(<<>>, dis)
  /\ Well(<<>>) /\ NoForwarder(<<>>)
BY DEF LateOk, Well, Returned, NoForwarder

LEMMA OneFrame ==
  ASSUME NEW f \in Frames
  PROVE  /\ << f >> \in Seq(Frames) /\ << f >> # <<>> /\ Outermost(<< f >>) = f
         /\ Well(<< f >>)
         /\ \A dis : (Late(f) => dis[f.d]) => LateOk(<< f >>, dis)
         /\ \A d : Locks(<< f >>, d) = Lock1(f, d)
<1>. DEFINE st == << f >>
<1>1. st \in Seq(Frames) /\ Len(st) = 1 /\ st[1] = f /\ st # <<>>
      /\ Head(st) = f /\ Tail(st) = <<>>
  OBVIOUS
<1>2. \A d : Locks(st, d) = Locks(<<>>, d) + Lock1(f, d)
  BY <1>1, LocksOfTail
<1>. HIDE DEF st
<1>3. \A d : Locks(st, d) = Lock1(f, d)
  BY <1>2, NoLocks DEF Lock1
<1>4. Outermost(st) = f /\ Well(st) /\ \A dis : (Late(f) => dis[f.d]) => LateOk(st, dis)
  BY <1>1 DEF Outermost, Well, LateOk
<1> QED
  BY <1>1, <1>3, <1>4 DEF st

\* The forwarder has the stack of the loop for itself.
LEMMA ForwarderAlone ==
  ASSUME IcdInv, NEW at, Icd!At(Owner, "forward", at)
  PROVE  /\ Owner \in Icd!Threads /\ stack[Owner] \in Seq(Frames) /\ stack[Owner] # <<>>
         /\ Len(stack[Owner]) = 1 /\ Tail(stack[Owner]) = <<>>
         /\ stack[Owner] = << Head(stack[Owner]) >>
         /\ Outermost(stack[Owner]) = Head(stack[Owner])
         /\ Head(stack[Owner]) \in Frames
         /\ Head(stack[Owner]).op = "forward" /\ Head(stack[Owner]).at = at
         /\ Icd!TopDelegate(Owner) \in Delegates
         /\ \A d : Locks(stack[Owner], d) = Lock1(Head(stack[Owner]), d)
<1>. DEFINE st == stack[Owner]
<1>1. /\ Owner \in Icd!Threads /\ st \in Seq(Frames) /\ st # <<>> /\ Well(st)
      /\ Head(st) = st[1] /\ Head(st) \in Frames /\ Head(st).op = "forward"
      /\ Head(st).at = at /\ Icd!TopDelegate(Owner) \in Delegates
  BY StackOf, HeadOf DEF Icd!Threads
<1>. HIDE DEF st
<1>2. Len(st) = 1
  <2>1. Len(st) \in Nat \ {0}
    BY <1>1
  <2>2. \A i \in 1..Len(st) - 1 : st[i].op # "forward"
    BY <1>1 DEF Well
  <2>3. ~ (1 \in 1..Len(st) - 1)
    <3>1. st[1].op = "forward"
      BY <1>1
    <3> QED
      BY <2>2, <3>1
  <2>4. \A n \in Nat \ {0} : ~ (1 \in 1..n - 1) => n = 1
    OBVIOUS
  <2> QED
    BY <2>1, <2>3, <2>4
<1>3. Tail(st) = <<>>
  <2>1. Tail(st) \in Seq(Frames) /\ Len(Tail(st)) = 0
    BY <1>1, <1>2
  <2> QED
    BY <2>1, NoFrames
<1>4. Outermost(st) = Head(st)
  BY <1>1, <1>2 DEF Outermost
<1>5. \A d : Locks(st, d) = Lock1(Head(st), d)
  <2>1. \A d : Locks(st, d) = Locks(<<>>, d) + Lock1(Head(st), d)
    BY <1>1, <1>3, LocksOfTail
  <2> QED
    BY <2>1, NoLocks DEF Lock1
<1>6. st = << Head(st) >>
  <2>1. << Head(st) >> \in Seq(Frames) /\ Len(<< Head(st) >>) = 1 /\ << Head(st) >>[1] = st[1]
    BY <1>1
  <2>2. \A i \in 1..Len(st) : st[i] = << Head(st) >>[i]
    BY <1>2, <2>1
  <2> QED
    BY <1>1, <1>2, <2>1, <2>2, SeqEqual
<1> QED
  BY <1>1, <1>2, <1>3, <1>4, <1>5, <1>6 DEF st

LEMMA ReceiveStep ==
  ASSUME IcdInv, Icd!IcdAssumption, Icd!ReceiveEvent
  PROVE  IcdInv'
<1>0. /\ stack[Owner] = <<>> /\ Owner \in Icd!Threads
      /\ UNCHANGED << m_disabled, m_mutex, delegateListening, shared, called, ended >>
  BY DEF Icd!ReceiveEvent, Icd!dataVars, Icd!listVars, Icd!ghosts, Icd!Threads
<1>1. CASE Head(delegateQueue).kind = "event" /\ Head(delegateQueue).d \in delegateListening
  <2>. DEFINE f == Icd!Frame("forward", Head(delegateQueue).d, "lock")
  <2>1. f \in Frames /\ ~ Late(f) /\ (\A d : ~ Holds(f, d)) /\ f.at = "lock"
    BY <1>1 DEF Frames, Icd!Frame, Late, Holds, IcdInv, IcdTypes
  <2>2. Becomes(Owner, << f >> \o <<>>)
    BY <1>0, <1>1 DEF Icd!ReceiveEvent, Icd!Push, Becomes
  <2>3. << f >> \o <<>> = << f >>
    <3>1. << f >> \in Seq(Frames)
      BY <2>1
    <3> QED
      BY <3>1, ConcatEmptySeq
  <2>. HIDE DEF f
  <2>4. /\ << f >> \in Seq(Frames) /\ LateOk(<< f >>, m_disabled) /\ Well(<< f >>)
        /\ Returned(<< f >>, m_disabled)
        /\ \A d : Locks(<< f >>, d) = Locks(stack[Owner], d)
    BY <1>0, <2>1, OneFrame, NoLocks DEF Returned, Lock1
  <2>5. MutexInv' /\ m_mutex' \in [Delegates -> [owner : Icd!Threads \cup {Nobody}, count : Nat]]
    BY <1>0, <2>2, <2>3, <2>4, NoMutexKeeps DEF IcdInv, IcdTypes
  <2>6. called' \in [Delegates -> Nat]
    BY <1>0 DEF IcdInv, IcdTypes
  <2>7. \A d \in Delegates : called'[d] # 0 /\ ~ Reuse[d] /\ ~ m_disabled[d] => Serving(<< f >>, d)
    BY <1>0 DEF IcdInv, CalledInv, Serving
  <2> QED
    BY <1>0, <2>2, <2>3, <2>4, <2>5, <2>6, <2>7, LoopStep
<1>2. CASE ~ (Head(delegateQueue).kind = "event" /\ Head(delegateQueue).d \in delegateListening)
  <2>1. UNCHANGED stack
    BY <1>2 DEF Icd!ReceiveEvent
  <2>2. Becomes(Owner, <<>>)
    BY <1>0, <2>1 DEF Becomes, IcdInv, IcdTypes
  <2>3. delegateListening' \subseteq Delegates /\ shared' \subseteq Delegates
    BY <1>0 DEF IcdInv, IcdTypes
  <2>4. Kept(stack[Owner], <<>>) /\ ~ Waiting(stack[Owner])
    BY <1>0, NoFrame DEF Kept, Waiting
  <2> QED
    BY <1>0, <2>2, <2>3, <2>4, NoFrame, PlainStep
<1> QED
  BY <1>1, <1>2

LEMMA ForwarderStep ==
  ASSUME IcdInv, Icd!IcdAssumption, Icd!DelegateForwarder
  PROVE  IcdInv'
<1>. DEFINE d == Icd!TopDelegate(Owner)
            h == Head(stack[Owner])
<1>0. /\ Icd!At(Owner, "forward", "lock")
      /\ UNCHANGED << m_disabled, delegateListening, shared, ended >>
  BY DEF Icd!DelegateForwarder, Icd!dataVars, Icd!listVars
<1>1. /\ Owner \in Icd!Threads /\ stack[Owner] \in Seq(Frames) /\ stack[Owner] # <<>>
      /\ Tail(stack[Owner]) = <<>> /\ Outermost(stack[Owner]) = h
      /\ h.op = "forward" /\ h.at = "lock" /\ d \in Delegates
      /\ \A e : Locks(stack[Owner], e) = Lock1(h, e)
  BY <1>0, ForwarderAlone
<1>2. \A e : Locks(stack[Owner], e) = 0
  BY <1>1 DEF Lock1, Holds
<1>3. \A e \in Delegates : called[e] # 0 /\ ~ Reuse[e] => m_disabled[e]
  BY <1>1 DEF IcdInv, CalledInv, Serving
<1>. HIDE DEF h
<1>4. CASE m_disabled[d]
  <2>1. Becomes(Owner, <<>>) /\ UNCHANGED << m_mutex, called >>
    BY <1>1, <1>4 DEF Icd!DelegateForwarder, Icd!Pop, Becomes
  <2>2. MutexInv' /\ m_mutex' \in [Delegates -> [owner : Icd!Threads \cup {Nobody}, count : Nat]]
    BY <1>1, <1>2, <2>1, NoLocks, NoMutexKeeps DEF IcdInv, IcdTypes
  <2>3. called' \in [Delegates -> Nat]
    BY <2>1 DEF IcdInv, IcdTypes
  <2> QED
    BY <1>0, <1>3, <2>1, <2>2, <2>3, NoFrame, LoopStep
<1>5. CASE ~ m_disabled[d]
  <2>. DEFINE f == Icd!Frame("forward", d, "method")
  <2>1. Icd!Lock(Owner, d) /\ Icd!Go(Owner, "method") /\ called' = [called EXCEPT ![d] = @ + 1]
    BY <1>5 DEF Icd!DelegateForwarder
  <2>2. f \in Frames /\ Becomes(Owner, << f >> \o <<>>)
    BY <1>1, <2>1, GoFrame DEF h
  <2>3. ~ Late(f) /\ (\A e : Holds(f, e) <=> e = d) /\ f.at = "method" /\ f.d = d
        /\ f.op = "forward"
    BY DEF Late, Holds, Icd!Frame
  <2>. HIDE DEF f, d
  <2>4. << f >> \o <<>> = << f >>
    <3>1. << f >> \in Seq(Frames)
      BY <2>2
    <3> QED
      BY <3>1, ConcatEmptySeq
  <2>5. /\ << f >> \in Seq(Frames) /\ LateOk(<< f >>, m_disabled) /\ Well(<< f >>)
        /\ Returned(<< f >>, m_disabled) /\ Serving(<< f >>, d)
        /\ \A e : Locks(<< f >>, e) = Lock1(f, e)
    BY <2>2, <2>3, OneFrame DEF Returned, Serving
  <2>6. \A e \in Delegates : Locks(<< f >>, e) = Locks(stack[Owner], e) + (IF e = d THEN 1 ELSE 0)
    BY <1>2, <2>3, <2>5 DEF Lock1
  <2>7. MutexInv' /\ m_mutex' \in [Delegates -> [owner : Icd!Threads \cup {Nobody}, count : Nat]]
    BY <1>1, <2>1, <2>2, <2>4, <2>6, LockKeeps DEF IcdInv
  <2>8. called' \in [Delegates -> Nat] /\ \A e \in Delegates \ {d} : called'[e] = called[e]
    BY <1>1, <2>1 DEF IcdInv, IcdTypes
  <2>9. \A e \in Delegates : called'[e] # 0 /\ ~ Reuse[e] /\ ~ m_disabled[e] => Serving(<< f >>, e)
    BY <1>3, <2>5, <2>8
  <2> QED
    BY <1>0, <2>2, <2>4, <2>5, <2>7, <2>8, <2>9, LoopStep
<1> QED
  BY <1>4, <1>5

LEMMA MethodStep ==
  ASSUME IcdInv, Icd!IcdAssumption, Icd!EndMethod
  PROVE  IcdInv'
<1>. DEFINE d == Icd!TopDelegate(Owner)
            h == Head(stack[Owner])
<1>0. /\ Icd!At(Owner, "forward", "method")
      /\ UNCHANGED << m_disabled, delegateListening, shared, called, ended >>
  BY DEF Icd!EndMethod, Icd!dataVars, Icd!listVars, Icd!ghosts
<1>1. /\ Owner \in Icd!Threads /\ stack[Owner] \in Seq(Frames) /\ stack[Owner] # <<>>
      /\ Tail(stack[Owner]) = <<>> /\ Outermost(stack[Owner]) = h /\ h.d = d
      /\ h.op = "forward" /\ h.at = "method" /\ d \in Delegates
      /\ \A e : Locks(stack[Owner], e) = Lock1(h, e)
  BY <1>0, ForwarderAlone DEF Icd!TopDelegate
<1>2. (\A e : Holds(h, e) <=> e = d) /\ called' \in [Delegates -> Nat]
  BY <1>0, <1>1 DEF Holds, IcdInv, IcdTypes
<1>3. \A e \in Delegates : called'[e] # 0 /\ ~ Reuse[e] /\ ~ m_disabled[e] => e = d
  BY <1>0, <1>1 DEF IcdInv, CalledInv, Serving
<1>4. CASE Reuse[d]
  <2>1. Icd!Unlock(d) /\ Icd!Pop(Owner)
    BY <1>4 DEF Icd!EndMethod
  <2>2. Becomes(Owner, <<>>)
    BY <1>1, <2>1 DEF Icd!Pop, Becomes
  <2>3. MutexInv' /\ m_mutex' \in [Delegates -> [owner : Icd!Threads \cup {Nobody}, count : Nat]]
    BY <1>1, <1>2, <2>1, UnlockStep
  <2> QED
    BY <1>0, <1>2, <1>3, <1>4, <2>2, <2>3, NoFrame, LoopStep
<1>5. CASE ~ Reuse[d]
  <2>. DEFINE f == Icd!Frame("disable", d, "lock")
              g == Icd!Frame("forward", d, "delete")
              new == << f >> \o << g >>
  <2>1. f \in Frames /\ g \in Frames
    BY <1>1 DEF Frames, Icd!Frame
  <2>2. /\ f.op = "disable" /\ f.at = "lock" /\ f.d = d /\ g.d = d
        /\ g.op = "forward" /\ g.at = "delete" /\ ~ Late(f) /\ ~ Late(g)
        /\ \A e : ~ Holds(f, e) /\ (Holds(g, e) <=> e = d)
    BY DEF Late, Holds, Icd!Frame
  <2>3. stack' = [stack EXCEPT ![Owner] = << f, g >> \o <<>>] /\ UNCHANGED m_mutex
    BY <1>1, <1>5 DEF Icd!EndMethod
  <2>. HIDE DEF f, g, d, h
  <2>4. /\ << g >> \in Seq(Frames) /\ LateOk(<< g >>, m_disabled)
        /\ \A e : Locks(<< g >>, e) = Lock1(g, e)
    BY <2>1, <2>2, OneFrame
  <2>5. << f, g >> \o <<>> = new
    <3>1. << g >> \o <<>> = << g >>
      BY <2>4, ConcatEmptySeq
    <3>2. << f >> \o (<< g >> \o <<>>) = << f, g >> \o <<>>
      BY <2>1, NoFrame, TwoPushed
    <3> QED
      BY <3>1, <3>2
  <2>6. Becomes(Owner, new)
    BY <2>3, <2>5 DEF Becomes
  <2>7. /\ new \in Seq(Frames) /\ LateOk(new, m_disabled)
        /\ \A e : Locks(new, e) = Locks(<< g >>, e) + Lock1(f, e)
    BY <2>1, <2>2, <2>4, ConsFacts
  <2>8. Len(new) = 2 /\ new[1] = f /\ new[2] = g /\ new # <<>>
    BY <2>1
  <2>. HIDE DEF new
  <2>9. Outermost(new) = g /\ Waiting(new) /\ Well(new) /\ Serving(new, d)
    BY <2>2, <2>8 DEF Outermost, Waiting, Well, Serving
  <2>10. \A e \in Delegates : Locks(new, e) = Locks(stack[Owner], e)
    BY <1>1, <1>2, <2>2, <2>4, <2>7 DEF Lock1
  <2>11. MutexInv' /\ m_mutex' \in [Delegates -> [owner : Icd!Threads \cup {Nobody}, count : Nat]]
    BY <1>1, <2>3, <2>6, <2>10, NoMutexKeeps DEF IcdInv, IcdTypes
  <2>12. Returned(new, m_disabled)
    BY <2>9 DEF Returned
  <2>13. \A e \in Delegates : called'[e] # 0 /\ ~ Reuse[e] /\ ~ m_disabled[e] => Serving(new, e)
    BY <1>3, <2>9
  <2> QED
    BY <1>0, <1>2, <2>6, <2>7, <2>9, <2>11, <2>12, <2>13, LoopStep
<1> QED
  BY <1>4, <1>5

LEMMA DeleteStep ==
  ASSUME IcdInv, Icd!IcdAssumption, Icd!DeleteICDSharedDataBase
  PROVE  IcdInv'
<1>. DEFINE d == Icd!TopDelegate(Owner)
            h == Head(stack[Owner])
<1>0. /\ Icd!At(Owner, "forward", "delete") /\ Icd!Unlock(d) /\ Icd!Pop(Owner)
      /\ UNCHANGED << m_disabled, delegateListening, shared, called, ended >>
  BY DEF Icd!DeleteICDSharedDataBase, Icd!dataVars, Icd!listVars, Icd!ghosts
<1>1. /\ Owner \in Icd!Threads /\ stack[Owner] \in Seq(Frames) /\ stack[Owner] # <<>>
      /\ Len(stack[Owner]) = 1
      /\ Tail(stack[Owner]) = <<>> /\ Outermost(stack[Owner]) = h /\ h.d = d
      /\ h.op = "forward" /\ h.at = "delete" /\ d \in Delegates
  BY <1>0, ForwarderAlone DEF Icd!TopDelegate
<1>2. (\A e : Holds(h, e) <=> e = d) /\ called' \in [Delegates -> Nat]
  BY <1>0, <1>1 DEF Holds, IcdInv, IcdTypes
<1>3. m_disabled[d]
  BY <1>1 DEF IcdInv, Returned, Waiting
<1>4. \A e \in Delegates : called'[e] # 0 /\ ~ Reuse[e] => m_disabled[e]
  BY <1>0, <1>1, <1>3 DEF IcdInv, CalledInv, Serving
<1>5. Becomes(Owner, <<>>)
  BY <1>0, <1>1 DEF Icd!Pop, Becomes
<1>6. MutexInv' /\ m_mutex' \in [Delegates -> [owner : Icd!Threads \cup {Nobody}, count : Nat]]
  BY <1>0, <1>1, <1>2, UnlockStep
<1> QED
  BY <1>0, <1>2, <1>4, <1>5, <1>6, NoFrame, LoopStep

-----------------------------------------------------------------------------
(* The invariant, and what it says of the calls. *)

LEMMA InitHolds == Icd!IcdAssumption /\ Icd!Init => IcdInv
<1>. SUFFICES ASSUME Icd!IcdAssumption, Icd!Init PROVE IcdInv
  OBVIOUS
<1>0. Owner \in Icd!Threads
  BY DEF Icd!Threads
<1>1. IcdTypes
  BY NoFrame DEF Icd!Init, IcdTypes
<1>2. MutexInv
  BY NoLocks DEF Icd!Init, MutexInv, Icd!IcdAssumption
<1>3. DisabledInv /\ Well(stack[Owner]) /\ Returned(stack[Owner], m_disabled)
  BY <1>0, NoFrame DEF Icd!Init, DisabledInv
<1>4. CalledInv
  BY DEF Icd!Init, CalledInv
<1> QED
  BY <1>1, <1>2, <1>3, <1>4 DEF IcdInv

LEMMA StutterKeeps ==
  ASSUME IcdInv, UNCHANGED Icd!vars
  PROVE  IcdInv'
<1>. USE DEF Icd!vars
<1>1. IcdTypes' /\ DisabledInv'
  BY DEF IcdInv, IcdTypes, DisabledInv, LateOk
<1>2. MutexInv'
  BY DEF IcdInv, MutexInv, Locks, Holding
<1>3. CalledInv' /\ Well(stack[Owner])' /\ Returned(stack[Owner], m_disabled)'
  BY DEF IcdInv, CalledInv, Well, Returned, Serving, Outermost, Waiting
<1> QED
  BY <1>1, <1>2, <1>3 DEF IcdInv

LEMMA NextKeeps == Icd!IcdAssumption /\ IcdInv /\ [Icd!Next]_(Icd!vars) => IcdInv'
<1>. SUFFICES ASSUME Icd!IcdAssumption, IcdInv, [Icd!Next]_(Icd!vars) PROVE IcdInv'
  OBVIOUS
<1>1. ASSUME NEW t \in Icd!Threads, Icd!ThreadStep(t) PROVE IcdInv'
  BY <1>1, CallStep, ReleaseStep, DisableStep, GoOnStep DEF Icd!ThreadStep
<1>2. CASE Icd!OwnerStep
  <2>1. Owner \in Icd!Threads
    BY DEF Icd!Threads
  <2>2. CASE Icd!RegisterICDSharedData \/ Icd!EndDestroy
    BY <2>2, FinishStep
  <2>3. CASE Icd!ReceiveEvent \/ Icd!DelegateForwarder
    BY <2>3, ReceiveStep, ForwarderStep
  <2>4. CASE Icd!EndMethod \/ Icd!DeleteICDSharedDataBase
    BY <2>4, MethodStep, DeleteStep
  <2>5. CASE Icd!CopyList
    BY <2>1, <2>5, GoOnStep
  <2>6. CASE \E d \in Delegates : Icd!DisableNext(d)
    BY <2>6, DisableNextStep
  <2> QED
    BY <1>2, <2>2, <2>3, <2>4, <2>5, <2>6 DEF Icd!OwnerStep
<1>3. ASSUME NEW d \in Delegates,
             Icd!MakeICDelegate(d) \/ \E t \in Icd!Threads : Icd!BeginCall(t, d) \/ Icd!BeginDisable(t, d)
      PROVE  IcdInv'
  <2>1. Owner \in Icd!Threads
    BY DEF Icd!Threads
  <2> QED
    BY <1>3, <2>1, BeginStep
<1>4. CASE Icd!BeginDestroy
  <2>1. Owner \in Icd!Threads
    BY DEF Icd!Threads
  <2>2. CASE Delegates # {}
    BY <1>4, <2>1, <2>2, BeginStep
  <2>3. CASE Delegates = {}
    <3>. DEFINE f == [op |-> "destroy", d |-> Nobody, at |-> "copy", rest |-> {}]
    <3>1. /\ f \in Frames /\ Icd!Push(Owner, f) /\ Icd!UserCode(Owner)
          /\ UNCHANGED << m_disabled, m_mutex, called, ended >>
          /\ delegateListening' \subseteq Delegates /\ shared' \subseteq Delegates
      BY <1>4 DEF Icd!BeginDestroy, Icd!dataVars, Icd!ghosts, IcdInv, IcdTypes, Frames
    <3>2. f.op # "forward" /\ ~ Late(f) /\ \A d : ~ Holds(f, d)
      BY DEF Late, Holds
    <3> QED
      BY <2>1, <3>1, <3>2, PushStep
  <2> QED
    BY <2>2, <2>3
<1>5. CASE UNCHANGED Icd!vars
  BY <1>5, StutterKeeps
<1> QED
  BY <1>1, <1>2, <1>3, <1>4, <1>5 DEF Icd!Next

\* Only the forwarder calls a method, and only the end of disabling ends calls.
LEMMA WhoCallsAndWhoEnds ==
  ASSUME [Icd!Next]_(Icd!vars)
  PROVE  /\ UNCHANGED called \/ Icd!DelegateForwarder
         /\ UNCHANGED ended \/ \E t \in Icd!Threads : Icd!EndDisable(t)
<1>1. ASSUME NEW t \in Icd!Threads, Icd!ThreadStep(t)
      PROVE  UNCHANGED called /\ (UNCHANGED ended \/ Icd!EndDisable(t))
  BY <1>1 DEF Icd!ThreadStep, Icd!CallDelegate, Icd!EmitEvent, Icd!Disable, Icd!RemoveListener,
              Icd!UnregisterICDSharedData, Icd!EndDisable, Icd!ghosts
<1>2. ASSUME Icd!OwnerStep
      PROVE  UNCHANGED ended /\ (UNCHANGED called \/ Icd!DelegateForwarder)
  BY <1>2 DEF Icd!OwnerStep, Icd!RegisterICDSharedData, Icd!ReceiveEvent, Icd!DelegateForwarder, Icd!EndMethod,
              Icd!DeleteICDSharedDataBase, Icd!CopyList, Icd!DisableNext, Icd!EndDestroy, Icd!ghosts
<1>3. ASSUME NEW d \in Delegates,
             Icd!MakeICDelegate(d) \/ \E t \in Icd!Threads : Icd!BeginCall(t, d) \/ Icd!BeginDisable(t, d)
      PROVE  UNCHANGED << called, ended >>
  BY <1>3 DEF Icd!MakeICDelegate, Icd!BeginCall, Icd!BeginDisable, Icd!ghosts
<1>4. Icd!BeginDestroy \/ UNCHANGED Icd!vars => UNCHANGED << called, ended >>
  BY DEF Icd!BeginDestroy, Icd!ghosts, Icd!vars
<1> QED
  BY <1>1, <1>2, <1>3, <1>4 DEF Icd!Next

LEMMA HeldIsOwned ==
  ASSUME IcdInv, NEW t \in Icd!Threads, NEW d \in Delegates,
         NEW i \in 1..Len(stack[t]), Holds(stack[t][i], d)
  PROVE  m_mutex[d].owner = t
<1>1. stack[t] \in Seq(Frames) /\ i \in Holding(stack[t], d)
  BY StackOf DEF Holding
<1>2. Locks(stack[t], d) # 0
  BY <1>1, LocksType, FS_EmptySet DEF Locks
<1> QED
  BY <1>2 DEF IcdInv, MutexInv

LEMMA StepEndsCalls == Icd!IcdAssumption /\ IcdInv /\ [Icd!Next]_(Icd!vars) => Icd!EndsCalls
<1>. SUFFICES ASSUME Icd!IcdAssumption, IcdInv, [Icd!Next]_(Icd!vars), NEW d \in Delegates
     PROVE  /\ called'[d] # called[d] => d \notin ended /\ (Reuse[d] \/ called[d] = 0)
            /\ d \in ended' \ ended /\ stack'[Owner] = stack[Owner] =>
                 \A i \in DOMAIN stack[Owner] :
                   ~ (stack[Owner][i].at = "method" /\ stack[Owner][i].d = d)
  BY DEF Icd!EndsCalls
<1>1. ASSUME called'[d] # called[d]
      PROVE  d \notin ended /\ (Reuse[d] \/ called[d] = 0)
  <2>1. Icd!DelegateForwarder
    BY <1>1, WhoCallsAndWhoEnds
  <2>2. Icd!At(Owner, "forward", "lock")
    BY <2>1 DEF Icd!DelegateForwarder
  <2>3. /\ Outermost(stack[Owner]) = Head(stack[Owner]) /\ Head(stack[Owner]).at = "lock"
        /\ Icd!TopDelegate(Owner) \in Delegates
    BY <2>2, ForwarderAlone
  <2>4. ~ m_disabled[d]
    <3>1. ~ m_disabled[Icd!TopDelegate(Owner)]
      BY <1>1, <2>1 DEF Icd!DelegateForwarder
    <3>2. Icd!TopDelegate(Owner) = d
      BY <1>1, <2>1, <2>3, <3>1 DEF Icd!DelegateForwarder, IcdInv, IcdTypes
    <3> QED
      BY <3>1, <3>2
  <2>5. d \notin ended
    BY <2>4 DEF IcdInv, DisabledInv
  <2>6. ~ Serving(stack[Owner], d)
    BY <2>3 DEF Serving
  <2> QED
    BY <2>4, <2>5, <2>6 DEF IcdInv, CalledInv
<1>2. ASSUME d \in ended' \ ended, stack'[Owner] = stack[Owner], NEW i \in DOMAIN stack[Owner],
             stack[Owner][i].at = "method", stack[Owner][i].d = d
      PROVE  FALSE
  <2>1. PICK t \in Icd!Threads : Icd!EndDisable(t)
    BY <1>2, WhoCallsAndWhoEnds
  <2>2. Icd!At(t, "disable", "unlock") /\ Icd!TopDelegate(t) = d /\ Icd!Pop(t)
    BY <1>2, <2>1 DEF Icd!EndDisable
  <2>3. /\ stack[t] # <<>> /\ Head(stack[t]) = stack[t][1] /\ stack[t] \in Seq(Frames)
        /\ Head(stack[t]).op = "disable" /\ Head(stack[t]).at = "unlock"
    BY <2>2, HeadOf, StackOf
  <2>4. t # Owner
    <3>1. ASSUME t = Owner PROVE FALSE
      <4>1. stack'[t] = Tail(stack[t])
        BY <2>2 DEF Icd!Pop, IcdInv, IcdTypes
      <4>2. Len(Tail(stack[t])) = Len(stack[t]) - 1 /\ Len(stack[t]) \in Nat
        BY <2>3
      <4>3. stack[t] = Tail(stack[t])
        BY <1>2, <3>1, <4>1
      <4>4. Len(stack[t]) = Len(Tail(stack[t]))
        BY <4>3
      <4>5. \A n \in Nat : n # n - 1
        OBVIOUS
      <4> QED
        BY <4>2, <4>4, <4>5
    <3> QED
      BY <3>1
  <2>5. m_mutex[d].owner = t
    <3>1. 1 \in 1..Len(stack[t]) /\ Holds(stack[t][1], d)
      BY <2>2, <2>3 DEF Holds, Icd!TopDelegate
    <3> QED
      BY <3>1, HeldIsOwned
  <2>6. m_mutex[d].owner = Owner
    <3>1. Owner \in Icd!Threads /\ stack[Owner] \in Seq(Frames) /\ i \in 1..Len(stack[Owner])
      BY StackOf DEF Icd!Threads
    <3>2. stack[Owner][i] \in Frames
      BY <3>1
    <3>3. stack[Owner][i].op = "forward"
      BY <1>2, <3>2 DEF Frames
    <3> QED
      BY <1>2, <3>1, <3>3, HeldIsOwned DEF Holds
  <2> QED
    BY <2>4, <2>5, <2>6
<1> QED
  BY <1>1, <1>2

\* From the return of disable or of ~ICDelegateSupport on the method of a delegate
\* is not called, a thread other than the owner does not return from disabling
\* in the middle of a call, and a delegate that is not made for reuse is called
\* once at the most (ICDSharedData::delegateForwarder and disable).
THEOREM DelegatesEnd == SafetySpec => NotCalledAfterEnd
<1>1. Init => IcdInv
  BY ComponentsAssumption, InitHolds DEF Init, ComponentsAssumption
<1>2. IcdInv /\ [Next]_vars => IcdInv'
  BY ComponentsAssumption, IcdMoves, NextKeeps DEF ComponentsAssumption
<1>3. IcdInv /\ [Next]_vars => [Icd!EndsCalls]_(Icd!vars)
  BY ComponentsAssumption, IcdMoves, StepEndsCalls DEF ComponentsAssumption
<1> QED
  BY <1>1, <1>2, <1>3, PTL DEF SafetySpec, NotCalledAfterEnd, Icd!NotCalledAfterEnd

-----------------------------------------------------------------------------
(* Property. *)

PropValues == Values \cup {InitialValue}
Changed == Properties \X Values \X PropertyThreads
Reading == {"read", "once", "ensure", "onceDone", "onceUnlock", "readUnlock"}
Writing == {"compare", "writeUnlock", "emit"}

Calls ==
  {Prop!Idle} \cup [at : Reading, p : Properties, got : PropValues \cup {Unset}]
              \cup [at : {"compare", "writeUnlock"}, p : Properties, value : Values]
              \cup [at : {"emit"}, p : Properties, value : Values, to : SUBSET PropertyThreads]

PropTypes ==
  /\ call \in [PropertyThreads -> Calls]
  /\ readers \subseteq PropertyThreads
  /\ writer \in PropertyThreads \cup {Nobody}
  /\ m_value \in [Properties -> PropValues \cup {Unset}]
  /\ remote \in [Properties -> PropValues]
  /\ m_once \in [Properties -> {0, 1}]
  /\ onceMutex \in [Properties -> PropertyThreads \cup {Nobody}]
  /\ propertyQueue \in [PropertyThreads -> Seq(Nat \X Changed)]
  /\ log \in [PropertyThreads -> Seq(Nat \X Changed)]
  /\ history \in Seq(Changed)

\* Readers share the model's mutex, a writer has it alone.
LockedInv ==
  /\ \A t \in PropertyThreads : t \in readers <=> call[t].at \in Reading
  /\ \A t \in PropertyThreads : writer = t <=> call[t].at \in Writing
  /\ writer # Nobody => readers = {}

\* Whoever makes the first reading of a property has the mutex of its Once, and
\* a value that was read or set is there.
OnceInv ==
  /\ \A t \in PropertyThreads :
       /\ call[t].at \in {"once", "ensure", "onceDone", "onceUnlock"} =>
            Storage[call[t].p] = "DynamicCached"
       /\ call[t].at \in {"ensure", "onceDone", "onceUnlock"} => onceMutex[call[t].p] = t
       /\ call[t].at \in {"ensure", "onceDone"} => m_once[call[t].p] = 0
       /\ call[t].at = "onceDone" => m_value[call[t].p] # Unset
       /\ call[t].at = "onceUnlock" => m_once[call[t].p] = 1
       /\ call[t].at = "readUnlock" => call[t].got # Unset
  /\ \A p \in Properties : m_once[p] = 1 \/ Storage[p] = "Cached" => m_value[p] # Unset

ReadInv == PropTypes /\ LockedInv /\ OnceInv

\* What a change of the fields of a call makes of it.
LEMMA CallFields ==
  ASSUME PropTypes, NEW t \in PropertyThreads
  PROVE  /\ call[t].at \in Reading => call[t] \in [at : Reading, p : Properties, got : PropValues \cup {Unset}]
         /\ call[t].at \in {"compare", "writeUnlock"} =>
              call[t] \in [at : {"compare", "writeUnlock"}, p : Properties, value : Values]
         /\ call[t].at = "emit" =>
              call[t] \in [at : {"emit"}, p : Properties, value : Values, to : SUBSET PropertyThreads]
         /\ call[t].at \in {"idle"} \cup Reading \cup Writing
BY DEF PropTypes, Calls, Reading, Writing, Prop!Idle

LEMMA BeginGetReads ==
  ASSUME Prop!PropertyAssumption, ReadInv,
         NEW t \in PropertyThreads, NEW p \in Properties, Prop!BeginGet(t, p)
  PROVE  ReadInv'
<1>. DEFINE c == [at |-> "read", p |-> p, got |-> Unset]
<1>1. /\ call[t].at = "idle" /\ writer = Nobody /\ readers' = readers \cup {t}
      /\ call' = [call EXCEPT ![t] = c]
      /\ UNCHANGED << writer, m_value, remote, m_once, onceMutex, propertyQueue, log, history >>
  BY DEF Prop!BeginGet, Prop!At, Prop!onceVars, Prop!eventVars
<1>2. call'[t] = c /\ \A u \in PropertyThreads \ {t} : call'[u] = call[u]
  BY <1>1 DEF ReadInv, PropTypes
<1>3. PropTypes'
  <2>1. c \in Calls
    BY DEF Calls, Reading
  <2> QED
    BY <1>1, <2>1 DEF ReadInv, PropTypes
<1>4. LockedInv'
  BY <1>1, <1>2 DEF ReadInv, LockedInv, PropTypes, Reading, Writing, Prop!PropertyAssumption
<1>5. OnceInv'
  BY <1>1, <1>2 DEF ReadInv, OnceInv
<1> QED
  BY <1>3, <1>4, <1>5 DEF ReadInv

\* A reader that goes on reading leaves the lock as it is.
LEMMA ReaderStays ==
  ASSUME Prop!PropertyAssumption, ReadInv, NEW t \in PropertyThreads, NEW c \in Calls,
         call[t].at \in Reading, c.at \in Reading, c.p = call[t].p,
         call' = [call EXCEPT ![t] = c], UNCHANGED << readers, writer >>
  PROVE  /\ LockedInv' /\ call' \in [PropertyThreads -> Calls]
         /\ call'[t] = c /\ \A u \in PropertyThreads \ {t} : call'[u] = call[u]
BY DEF ReadInv, PropTypes, LockedInv, Reading, Writing

LEMMA ReadStorageReads ==
  ASSUME Prop!PropertyAssumption, ReadInv, NEW t \in PropertyThreads, Prop!ReadStorage(t)
  PROVE  ReadInv'
<1>. DEFINE p == call[t].p
            answer(v) == [call[t] EXCEPT !.at = "readUnlock", !.got = v]
            once == [call[t] EXCEPT !.at = "once"]
<1>1. /\ call[t].at = "read" /\ p \in Properties
      /\ call[t] \in [at : Reading, p : Properties, got : PropValues \cup {Unset}]
      /\ UNCHANGED << readers, writer, m_value, remote, m_once, onceMutex, propertyQueue, log, history >>
  BY CallFields DEF Prop!ReadStorage, Prop!At, Prop!onceVars, Prop!eventVars, ReadInv, Reading
<1>2. ASSUME NEW v \in PropValues, call' = [call EXCEPT ![t] = answer(v)]
      PROVE  ReadInv'
  <2>1. answer(v) \in Calls /\ answer(v).at = "readUnlock" /\ answer(v).p = p /\ answer(v).got = v
    BY <1>1 DEF Calls, Reading
  <2>2. LockedInv' /\ call' \in [PropertyThreads -> Calls]
        /\ call'[t] = answer(v) /\ \A u \in PropertyThreads \ {t} : call'[u] = call[u]
    <3>. HIDE DEF answer
    <3> QED
      BY <1>1, <1>2, <2>1, ReaderStays DEF Reading
  <2>3. v # Unset
    BY DEF PropValues, Prop!PropertyAssumption
  <2>4. PropTypes'
    BY <1>1, <2>2 DEF ReadInv, PropTypes
  <2>. HIDE DEF answer
  <2>5. OnceInv'
    BY <1>1, <2>1, <2>2, <2>3 DEF ReadInv, OnceInv
  <2> QED
    BY <2>2, <2>4, <2>5 DEF ReadInv
<1>3. CASE call' = [call EXCEPT ![t] = once] /\ Storage[p] = "DynamicCached"
  <2>1. once \in Calls /\ once.at = "once" /\ once.p = p
    BY <1>1 DEF Calls, Reading
  <2>2. LockedInv' /\ call' \in [PropertyThreads -> Calls]
        /\ call'[t] = once /\ \A u \in PropertyThreads \ {t} : call'[u] = call[u]
    <3>. HIDE DEF once
    <3> QED
      BY <1>1, <1>3, <2>1, ReaderStays DEF Reading
  <2>3. PropTypes' /\ OnceInv'
    BY <1>1, <1>3, <2>1, <2>2 DEF ReadInv, PropTypes, OnceInv
  <2> QED
    BY <2>2, <2>3 DEF ReadInv
<1>4. Storage[p] \in {"Cached", "Dynamic", "DynamicCached"}
  BY <1>1 DEF Prop!PropertyAssumption
<1>5. CASE Storage[p] = "Cached" \/ (Storage[p] = "DynamicCached" /\ m_once[p] = 1)
  <2>1. m_value[p] \in PropValues
    BY <1>1, <1>5 DEF ReadInv, PropTypes, OnceInv
  <2>2. call' = [call EXCEPT ![t] = answer(m_value[p])]
    BY <1>5 DEF Prop!ReadStorage, ReadInv, PropTypes
  <2> QED
    BY <1>2, <2>1, <2>2
<1>6. CASE Storage[p] = "Dynamic"
  <2>1. remote[p] \in PropValues
    BY <1>1 DEF ReadInv, PropTypes
  <2>2. call' = [call EXCEPT ![t] = answer(remote[p])]
    BY <1>6 DEF Prop!ReadStorage, ReadInv, PropTypes
  <2> QED
    BY <1>2, <2>1, <2>2
<1>7. CASE Storage[p] = "DynamicCached" /\ m_once[p] # 1
  <2>1. call' = [call EXCEPT ![t] = once]
    BY <1>7 DEF Prop!ReadStorage, Prop!Go, ReadInv, PropTypes
  <2> QED
    BY <1>3, <1>7, <2>1
<1> QED
  BY <1>4, <1>5, <1>6, <1>7

LEMMA EnterOnceReads ==
  ASSUME Prop!PropertyAssumption, ReadInv, NEW t \in PropertyThreads, Prop!EnterOnce(t)
  PROVE  ReadInv'
<1>. DEFINE p == call[t].p
            place == IF m_once[p] = 1 THEN "onceUnlock" ELSE "ensure"
            c == [call[t] EXCEPT !.at = place]
<1>1. /\ call[t].at = "once" /\ p \in Properties /\ onceMutex[p] = Nobody
      /\ call[t] \in [at : Reading, p : Properties, got : PropValues \cup {Unset}]
      /\ onceMutex' = [onceMutex EXCEPT ![p] = t]
      /\ call' = [call EXCEPT ![t] = c]
      /\ UNCHANGED << readers, writer, m_value, remote, m_once, propertyQueue, log, history >>
  BY CallFields DEF Prop!EnterOnce, Prop!At, Prop!Go, Prop!eventVars, ReadInv, Reading, PropTypes
<1>2. c \in Calls /\ c.at = place /\ c.p = p /\ place \in Reading
  BY <1>1 DEF Calls, Reading
<1>3. LockedInv' /\ call' \in [PropertyThreads -> Calls]
      /\ call'[t] = c /\ \A u \in PropertyThreads \ {t} : call'[u] = call[u]
  <2>. HIDE DEF c, place
  <2> QED
    BY <1>1, <1>2, ReaderStays DEF Reading
<1>4. PropTypes'
  BY <1>1, <1>3 DEF ReadInv, PropTypes
<1>5. \A u \in PropertyThreads \ {t} : call[u].at \in {"ensure", "onceDone", "onceUnlock"} => call[u].p # p
  BY <1>1 DEF ReadInv, OnceInv, Prop!PropertyAssumption
<1>6. \A u \in PropertyThreads : call[u].at \in {"ensure", "onceDone", "onceUnlock"} => call[u].p \in Properties
  BY CallFields DEF ReadInv, Reading
<1>7. m_once[p] \in {0, 1}
  BY <1>1 DEF ReadInv, PropTypes
<1>8. OnceInv'
  BY <1>1, <1>2, <1>3, <1>5, <1>6, <1>7 DEF ReadInv, OnceInv, PropTypes
<1> QED
  BY <1>3, <1>4, <1>8 DEF ReadInv

LEMMA OnceEnsureReads ==
  ASSUME Prop!PropertyAssumption, ReadInv, NEW t \in PropertyThreads, Prop!OnceEnsure(t)
  PROVE  /\ ReadInv'
         /\ \A p \in Properties : m_value'[p] # m_value[p] => m_once[p] # 1
<1>. DEFINE p == call[t].p
<1>1. /\ call[t].at \in {"ensure", "onceDone"} /\ p \in Properties /\ onceMutex[p] = t
      /\ call[t] \in [at : Reading, p : Properties, got : PropValues \cup {Unset}]
      /\ m_once[p] = 0 /\ Storage[p] = "DynamicCached"
      /\ UNCHANGED << readers, writer, remote, onceMutex, propertyQueue, log, history >>
  BY CallFields DEF Prop!OnceEnsure, Prop!At, Prop!Go, Prop!eventVars, ReadInv, Reading, OnceInv
<1>2. \A u \in PropertyThreads \ {t} :
        call[u].at \in {"ensure", "onceDone", "onceUnlock"} => call[u].p # p /\ call[u].p \in Properties
  <2>1. \A u \in PropertyThreads : call[u].at \in {"ensure", "onceDone", "onceUnlock"} => call[u].p \in Properties
    BY CallFields DEF ReadInv, Reading
  <2> QED
    BY <1>1, <2>1 DEF ReadInv, OnceInv
<1>3. CASE call[t].at = "ensure"
  <2>. DEFINE c == [call[t] EXCEPT !.at = "onceDone"]
  <2>1. /\ m_value' = [m_value EXCEPT ![p] = remote[p]] /\ m_once' = m_once
        /\ call' = [call EXCEPT ![t] = c]
    BY <1>3 DEF Prop!OnceEnsure, Prop!At, Prop!Go, ReadInv, PropTypes
  <2>2. c \in Calls /\ c.at = "onceDone" /\ c.p = p
    BY <1>1 DEF Calls, Reading
  <2>3. LockedInv' /\ call' \in [PropertyThreads -> Calls]
        /\ call'[t] = c /\ \A u \in PropertyThreads \ {t} : call'[u] = call[u]
    <3>. HIDE DEF c
    <3> QED
      BY <1>1, <2>1, <2>2, ReaderStays DEF Reading
  <2>4. remote[p] \in PropValues /\ remote[p] # Unset
    BY <1>1 DEF ReadInv, PropTypes, PropValues, Prop!PropertyAssumption
  <2>5. /\ m_value' \in [Properties -> PropValues \cup {Unset}]
        /\ m_value'[p] # Unset /\ \A q \in Properties \ {p} : m_value'[q] = m_value[q]
    BY <1>1, <2>1, <2>4 DEF ReadInv, PropTypes
  <2>6. PropTypes'
    BY <1>1, <2>1, <2>3, <2>5 DEF ReadInv, PropTypes
  <2>. HIDE DEF c
  <2>7. OnceInv'
    BY <1>1, <1>2, <2>1, <2>2, <2>3, <2>5 DEF ReadInv, OnceInv
  <2> QED
    BY <1>1, <2>3, <2>5, <2>6, <2>7 DEF ReadInv
<1>4. CASE call[t].at = "onceDone"
  <2>. DEFINE c == [call[t] EXCEPT !.at = "onceUnlock"]
  <2>1. /\ m_once' = [m_once EXCEPT ![p] = 1] /\ m_value' = m_value
        /\ call' = [call EXCEPT ![t] = c]
    BY <1>4 DEF Prop!OnceEnsure, Prop!At, Prop!Go, ReadInv, PropTypes
  <2>2. c \in Calls /\ c.at = "onceUnlock" /\ c.p = p
    BY <1>1 DEF Calls, Reading
  <2>3. LockedInv' /\ call' \in [PropertyThreads -> Calls]
        /\ call'[t] = c /\ \A u \in PropertyThreads \ {t} : call'[u] = call[u]
    <3>. HIDE DEF c
    <3> QED
      BY <1>1, <2>1, <2>2, ReaderStays DEF Reading
  <2>4. /\ m_once' \in [Properties -> {0, 1}]
        /\ m_once'[p] = 1 /\ \A q \in Properties \ {p} : m_once'[q] = m_once[q]
    BY <1>1, <2>1 DEF ReadInv, PropTypes
  <2>5. PropTypes'
    BY <1>1, <2>1, <2>3, <2>4 DEF ReadInv, PropTypes
  <2>6. m_value[p] # Unset
    BY <1>4 DEF ReadInv, OnceInv
  <2>. HIDE DEF c
  <2>7. OnceInv'
    BY <1>1, <1>2, <2>1, <2>2, <2>3, <2>4, <2>6 DEF ReadInv, OnceInv
  <2> QED
    BY <2>1, <2>3, <2>5, <2>7 DEF ReadInv
<1> QED
  BY <1>1, <1>3, <1>4

LEMMA LeaveOnceReads ==
  ASSUME Prop!PropertyAssumption, ReadInv, NEW t \in PropertyThreads, Prop!LeaveOnce(t)
  PROVE  ReadInv'
<1>. DEFINE p == call[t].p
            c == [call[t] EXCEPT !.at = "readUnlock", !.got = m_value[p]]
<1>1. /\ call[t].at = "onceUnlock" /\ p \in Properties /\ onceMutex[p] = t /\ m_once[p] = 1
      /\ call[t] \in [at : Reading, p : Properties, got : PropValues \cup {Unset}]
      /\ onceMutex' = [onceMutex EXCEPT ![p] = Nobody]
      /\ call' = [call EXCEPT ![t] = c]
      /\ UNCHANGED << readers, writer, m_value, remote, m_once, propertyQueue, log, history >>
  BY CallFields DEF Prop!LeaveOnce, Prop!At, Prop!Go, Prop!eventVars, ReadInv, Reading, PropTypes, OnceInv
<1>2. m_value[p] \in PropValues /\ m_value[p] # Unset
  BY <1>1 DEF ReadInv, PropTypes, OnceInv
<1>3. c \in Calls /\ c.at = "readUnlock" /\ c.p = p /\ c.got = m_value[p]
  BY <1>1, <1>2 DEF Calls, Reading
<1>4. LockedInv' /\ call' \in [PropertyThreads -> Calls]
      /\ call'[t] = c /\ \A u \in PropertyThreads \ {t} : call'[u] = call[u]
  <2>. HIDE DEF c
  <2> QED
    BY <1>1, <1>3, ReaderStays DEF Reading
<1>5. PropTypes'
  BY <1>1, <1>4 DEF ReadInv, PropTypes
<1>6. \A u \in PropertyThreads \ {t} :
        call[u].at \in {"ensure", "onceDone", "onceUnlock"} => call[u].p # p /\ call[u].p \in Properties
  <2>1. \A u \in PropertyThreads : call[u].at \in {"ensure", "onceDone", "onceUnlock"} => call[u].p \in Properties
    BY CallFields DEF ReadInv, Reading
  <2> QED
    BY <1>1, <2>1 DEF ReadInv, OnceInv
<1>7. \A q \in Properties \ {p} : onceMutex'[q] = onceMutex[q]
  BY <1>1 DEF ReadInv, PropTypes
<1>. HIDE DEF c
<1>8. OnceInv'
  BY <1>1, <1>2, <1>3, <1>4, <1>6, <1>7 DEF ReadInv, OnceInv
<1> QED
  BY <1>4, <1>5, <1>8 DEF ReadInv

LEMMA EndGetReads ==
  ASSUME Prop!PropertyAssumption, ReadInv, NEW t \in PropertyThreads, Prop!EndGet(t)
  PROVE  ReadInv'
<1>1. /\ call[t].at = "readUnlock" /\ readers' = readers \ {t}
      /\ call' = [call EXCEPT ![t] = Prop!Idle]
      /\ UNCHANGED << writer, m_value, remote, m_once, onceMutex, propertyQueue, log, history >>
  BY DEF Prop!EndGet, Prop!At, Prop!onceVars, Prop!eventVars
<1>2. call'[t].at = "idle" /\ (\A u \in PropertyThreads \ {t} : call'[u] = call[u])
      /\ call' \in [PropertyThreads -> Calls]
  BY <1>1 DEF ReadInv, PropTypes, Calls, Prop!Idle
<1>3. PropTypes' /\ LockedInv'
  BY <1>1, <1>2 DEF ReadInv, PropTypes, LockedInv, Reading, Writing
<1>4. OnceInv'
  BY <1>1, <1>2 DEF ReadInv, OnceInv
<1> QED
  BY <1>3, <1>4 DEF ReadInv

LEMMA BeginSetReads ==
  ASSUME Prop!PropertyAssumption, ReadInv,
         NEW t \in PropertyThreads, NEW p \in Properties, NEW v \in Values, Prop!BeginSet(t, p, v)
  PROVE  ReadInv'
<1>. DEFINE c == [at |-> "compare", p |-> p, value |-> v]
<1>1. /\ call[t].at = "idle" /\ writer = Nobody /\ readers = {} /\ writer' = t
      /\ call' = [call EXCEPT ![t] = c]
      /\ UNCHANGED << readers, m_value, remote, m_once, onceMutex, propertyQueue, log, history >>
  BY DEF Prop!BeginSet, Prop!At, Prop!onceVars
<1>2. call'[t] = c /\ (\A u \in PropertyThreads \ {t} : call'[u] = call[u])
      /\ call' \in [PropertyThreads -> Calls]
  BY <1>1 DEF ReadInv, PropTypes, Calls
<1>3. PropTypes'
  BY <1>1, <1>2 DEF ReadInv, PropTypes
<1>4. LockedInv'
  BY <1>1, <1>2 DEF ReadInv, LockedInv, Reading, Writing, Prop!PropertyAssumption
<1>5. OnceInv'
  BY <1>1, <1>2 DEF ReadInv, OnceInv
<1> QED
  BY <1>3, <1>4, <1>5 DEF ReadInv

\* A writer is alone: nobody else is in the storage or emits.
LEMMA WriterIsAlone ==
  ASSUME Prop!PropertyAssumption, LockedInv, NEW t \in PropertyThreads, call[t].at \in Writing
  PROVE  \A u \in PropertyThreads \ {t} : call[u].at \notin Reading /\ call[u].at \notin Writing
<1>1. writer = t /\ writer # Nobody
  BY DEF LockedInv, Prop!PropertyAssumption
<1>2. readers = {}
  BY <1>1 DEF LockedInv
<1> QED
  BY <1>1, <1>2 DEF LockedInv

LEMMA AppendIsSequence ==
  ASSUME NEW S, NEW s \in Seq(S), NEW x \in S
  PROVE  Append(s, x) \in Seq(S)
OBVIOUS

LEMMA SetStorageReads ==
  ASSUME Prop!PropertyAssumption, ReadInv, NEW t \in PropertyThreads, Prop!SetStorage(t)
  PROVE  /\ ReadInv'
         /\ call[t].at = "compare" /\ call[t].p \in Properties /\ call[t].value \in Values
         /\ \A p \in Properties \ {call[t].p} : m_value'[p] = m_value[p]
         /\ \A u \in PropertyThreads \ {t} : call'[u] = call[u]
         /\ \/ call'[t].at = "writeUnlock" /\ history' = history
            \/ /\ call'[t] = [at |-> "emit", p |-> call[t].p, value |-> call[t].value,
                              to |-> Listening[call[t].p]]
               /\ history' = Append(history, << call[t].p, call[t].value, t >>)
<1>. DEFINE p == call[t].p
            v == call[t].value
            unlocked == [call[t] EXCEPT !.at = "writeUnlock"]
            emitting == [at |-> "emit", p |-> p, value |-> v, to |-> Listening[p]]
<1>1. /\ call[t].at = "compare" /\ p \in Properties /\ v \in Values
      /\ call[t] \in [at : {"compare", "writeUnlock"}, p : Properties, value : Values]
      /\ m_once' = [m_once EXCEPT ![p] = IF Storage[p] = "DynamicCached" THEN 1 ELSE @]
      /\ UNCHANGED << readers, writer, onceMutex, propertyQueue, log >>
  BY CallFields DEF Prop!SetStorage, Prop!At, ReadInv
<1>2. unlocked \in Calls /\ unlocked.at = "writeUnlock" /\ emitting \in Calls /\ emitting.at = "emit"
  BY <1>1 DEF Calls, Prop!PropertyAssumption
<1>3. v # Unset /\ v \in PropValues
  BY <1>1 DEF Prop!PropertyAssumption, PropValues
<1>4. \/ /\ Prop!Current(p) = v
         /\ m_value' = [m_value EXCEPT ![p] = IF Storage[p] = "DynamicCached" THEN v ELSE @]
         /\ remote' = remote /\ history' = history
         /\ call' = [call EXCEPT ![t] = unlocked]
      \/ /\ m_value' = [m_value EXCEPT ![p] = IF Storage[p] = "Dynamic" THEN @ ELSE v]
         /\ remote' = [remote EXCEPT ![p] = IF Storage[p] = "Cached" THEN @ ELSE v]
         /\ history' = Append(history, << p, v, t >>)
         /\ call' = [call EXCEPT ![t] = emitting]
  BY DEF Prop!SetStorage, Prop!Go, ReadInv, PropTypes
<1>. HIDE DEF unlocked, emitting
<1>5. /\ call' \in [PropertyThreads -> Calls] /\ call'[t] \in {unlocked, emitting}
      /\ \A u \in PropertyThreads \ {t} : call'[u] = call[u]
  <2>1. call \in [PropertyThreads -> Calls]
    BY DEF ReadInv, PropTypes
  <2>2. call' = [call EXCEPT ![t] = unlocked] \/ call' = [call EXCEPT ![t] = emitting]
    BY <1>4
  <2> QED
    BY <1>2, <2>1, <2>2
<1>6. \/ call'[t] = unlocked /\ history' = history
      \/ call'[t] = emitting /\ history' = Append(history, << p, v, t >>)
  BY <1>4 DEF ReadInv, PropTypes
<1>7. history' \in Seq(Changed)
  <2>1. << p, v, t >> \in Changed
    BY <1>1 DEF Changed
  <2>2. history \in Seq(Changed)
    BY DEF ReadInv, PropTypes
  <2> QED
    BY <1>6, <2>1, <2>2, AppendIsSequence
<1>8. /\ m_value' \in [Properties -> PropValues \cup {Unset}]
      /\ m_once' \in [Properties -> {0, 1}]
      /\ remote' \in [Properties -> PropValues]
      /\ \A q \in Properties \ {p} : m_value'[q] = m_value[q] /\ m_once'[q] = m_once[q]
  BY <1>1, <1>3, <1>4 DEF ReadInv, PropTypes
<1>9. PropTypes'
  BY <1>1, <1>5, <1>7, <1>8 DEF ReadInv, PropTypes
<1>10. LockedInv'
  BY <1>1, <1>2, <1>5 DEF ReadInv, LockedInv, Reading, Writing
<1>11. m_once'[p] = 1 \/ Storage[p] = "Cached" => m_value'[p] # Unset
  <2>1. Storage[p] \in {"Cached", "Dynamic", "DynamicCached"}
    BY <1>1 DEF Prop!PropertyAssumption
  <2>2. m_once[p] = 1 \/ Storage[p] = "Cached" => m_value[p] # Unset
    BY <1>1 DEF ReadInv, OnceInv
  <2> QED
    BY <1>1, <1>3, <1>4, <2>1, <2>2 DEF ReadInv, PropTypes
<1>12. OnceInv'
  <2>1. \A u \in PropertyThreads : call'[u].at \notin Reading
    BY <1>1, <1>2, <1>5, WriterIsAlone DEF ReadInv, Reading, Writing
  <2>2. \A q \in Properties : m_once'[q] = 1 \/ Storage[q] = "Cached" => m_value'[q] # Unset
    BY <1>8, <1>11 DEF ReadInv, OnceInv
  <2> QED
    BY <2>1, <2>2 DEF OnceInv, Reading
<1> QED
  BY <1>1, <1>2, <1>5, <1>6, <1>8, <1>9, <1>10, <1>12 DEF ReadInv, emitting

LEMMA EmitEventReads ==
  ASSUME Prop!PropertyAssumption, ReadInv, NEW t \in PropertyThreads, NEW l \in PropertyThreads,
         Prop!EmitEvent(t, l)
  PROVE  /\ ReadInv'
         /\ call[t].at = "emit" /\ l \in call[t].to /\ call'[t] = [call[t] EXCEPT !.to = @ \ {l}]
         /\ << call[t].p, call[t].value, t >> \in Changed
         /\ \A u \in PropertyThreads \ {t} : call'[u] = call[u]
<1>. DEFINE c == [call[t] EXCEPT !.to = @ \ {l}]
            e == << Len(history), << call[t].p, call[t].value, t >> >>
<1>1. /\ call[t].at = "emit" /\ l \in call[t].to
      /\ call[t] \in [at : {"emit"}, p : Properties, value : Values, to : SUBSET PropertyThreads]
      /\ call' = [call EXCEPT ![t] = c]
      /\ IF l = t
         THEN log' = [log EXCEPT ![t] = Append(@, e)] /\ propertyQueue' = propertyQueue
         ELSE propertyQueue' = [propertyQueue EXCEPT ![l] = Append(@, e)] /\ log' = log
      /\ UNCHANGED << readers, writer, m_value, remote, m_once, onceMutex, history >>
  BY CallFields DEF Prop!EmitEvent, Prop!At, Prop!onceVars, ReadInv, PropTypes
<1>2. c \in Calls /\ c.at = "emit"
  BY <1>1 DEF Calls
<1>3. call'[t] = c /\ (\A u \in PropertyThreads \ {t} : call'[u] = call[u])
      /\ call' \in [PropertyThreads -> Calls]
  BY <1>1, <1>2 DEF ReadInv, PropTypes
<1>4. << call[t].p, call[t].value, t >> \in Changed /\ e \in Nat \X Changed
  <2>1. << call[t].p, call[t].value, t >> \in Changed
    BY <1>1 DEF Changed
  <2>2. Len(history) \in Nat
    BY DEF ReadInv, PropTypes
  <2> QED
    BY <2>1, <2>2
<1>. HIDE DEF e, c
<1>5. /\ log' \in [PropertyThreads -> Seq(Nat \X Changed)]
      /\ propertyQueue' \in [PropertyThreads -> Seq(Nat \X Changed)]
  <2>1. /\ log \in [PropertyThreads -> Seq(Nat \X Changed)]
        /\ propertyQueue \in [PropertyThreads -> Seq(Nat \X Changed)]
    BY DEF ReadInv, PropTypes
  <2>2. \A s \in Seq(Nat \X Changed) : Append(s, e) \in Seq(Nat \X Changed)
    BY <1>4, AppendIsSequence
  <2>3. Append(log[t], e) \in Seq(Nat \X Changed) /\ Append(propertyQueue[l], e) \in Seq(Nat \X Changed)
    BY <2>1, <2>2
  <2> QED
    BY <1>1, <2>1, <2>3
<1>6. PropTypes'
  BY <1>1, <1>3, <1>5 DEF ReadInv, PropTypes
<1>7. LockedInv' /\ OnceInv'
  BY <1>1, <1>2, <1>3 DEF ReadInv, LockedInv, OnceInv
<1> QED
  BY <1>1, <1>3, <1>4, <1>6, <1>7 DEF ReadInv, c

LEMMA EndSetReads ==
  ASSUME Prop!PropertyAssumption, ReadInv, NEW t \in PropertyThreads, Prop!EndSet(t)
  PROVE  ReadInv'
<1>1. /\ call[t].at \in {"writeUnlock", "emit"} /\ writer' = Nobody
      /\ call' = [call EXCEPT ![t] = Prop!Idle]
      /\ UNCHANGED << readers, m_value, remote, m_once, onceMutex, propertyQueue, log, history >>
  BY DEF Prop!EndSet, Prop!At, Prop!onceVars, Prop!eventVars
<1>2. call'[t].at = "idle" /\ (\A u \in PropertyThreads \ {t} : call'[u] = call[u])
      /\ call' \in [PropertyThreads -> Calls]
  BY <1>1 DEF ReadInv, PropTypes, Calls, Prop!Idle
<1>3. PropTypes'
  BY <1>1, <1>2 DEF ReadInv, PropTypes
<1>4. LockedInv'
  BY <1>1, <1>2, WriterIsAlone DEF ReadInv, LockedInv, Reading, Writing, Prop!PropertyAssumption
<1>5. OnceInv'
  BY <1>1, <1>2 DEF ReadInv, OnceInv
<1> QED
  BY <1>3, <1>4, <1>5 DEF ReadInv

LEMMA HandleEventReads ==
  ASSUME Prop!PropertyAssumption, ReadInv, NEW t \in PropertyThreads, Prop!HandleEvent(t)
  PROVE  ReadInv'
<1>1. /\ propertyQueue[t] # <<>>
      /\ log' = [log EXCEPT ![t] = Append(@, Head(propertyQueue[t]))]
      /\ propertyQueue' = [propertyQueue EXCEPT ![t] = Tail(@)]
      /\ UNCHANGED << readers, writer, m_value, remote, m_once, onceMutex, call, history >>
  BY DEF Prop!HandleEvent, Prop!onceVars
<1>2. propertyQueue[t] \in Seq(Nat \X Changed) /\ log[t] \in Seq(Nat \X Changed)
  BY DEF ReadInv, PropTypes
<1>3. Head(propertyQueue[t]) \in Nat \X Changed /\ Tail(propertyQueue[t]) \in Seq(Nat \X Changed)
  BY <1>1, <1>2
<1>4. Append(log[t], Head(propertyQueue[t])) \in Seq(Nat \X Changed)
  BY <1>2, <1>3
<1>5. PropTypes'
  BY <1>1, <1>3, <1>4 DEF ReadInv, PropTypes
<1> QED
  BY <1>1, <1>5 DEF ReadInv, LockedInv, OnceInv

LEMMA RemoteChangeReads ==
  ASSUME Prop!PropertyAssumption, ReadInv, NEW p \in Properties, NEW v \in Values, Prop!RemoteChange(p, v)
  PROVE  ReadInv' /\ m_value' = m_value
BY DEF Prop!RemoteChange, Prop!onceVars, ReadInv, PropTypes, LockedInv, OnceInv, PropValues

LEMMA PropertyStepReads ==
  ASSUME Prop!PropertyAssumption, ReadInv, [Prop!Next]_(Prop!vars)
  PROVE  ReadInv' /\ Prop!OnlySetChanges
<1>1. CASE UNCHANGED Prop!vars
  BY <1>1 DEF Prop!vars, ReadInv, PropTypes, LockedInv, OnceInv, Prop!OnlySetChanges
<1>2. ASSUME m_value' = m_value PROVE Prop!OnlySetChanges
  BY <1>2 DEF Prop!OnlySetChanges
<1>3. ASSUME NEW t \in PropertyThreads, Prop!Step(t) PROVE ReadInv' /\ Prop!OnlySetChanges
  <2>1. CASE Prop!ReadStorage(t)
    BY <1>2, <2>1, ReadStorageReads DEF Prop!ReadStorage
  <2>2. CASE Prop!EnterOnce(t)
    BY <1>2, <2>2, EnterOnceReads DEF Prop!EnterOnce
  <2>3. CASE Prop!OnceEnsure(t)
    BY <2>3, OnceEnsureReads DEF Prop!OnlySetChanges
  <2>4. CASE Prop!LeaveOnce(t)
    BY <1>2, <2>4, LeaveOnceReads DEF Prop!LeaveOnce
  <2>5. CASE Prop!EndGet(t)
    BY <1>2, <2>5, EndGetReads DEF Prop!EndGet
  <2>6. CASE Prop!SetStorage(t)
    BY <2>6, SetStorageReads DEF Prop!OnlySetChanges, Prop!At
  <2>7. ASSUME NEW l \in PropertyThreads, Prop!EmitEvent(t, l) PROVE ReadInv' /\ Prop!OnlySetChanges
    BY <1>2, <2>7, EmitEventReads DEF Prop!EmitEvent
  <2>8. CASE Prop!EndSet(t)
    BY <1>2, <2>8, EndSetReads DEF Prop!EndSet
  <2>9. CASE Prop!HandleEvent(t)
    BY <1>2, <2>9, HandleEventReads DEF Prop!HandleEvent
  <2> QED
    BY <1>3, <2>1, <2>2, <2>3, <2>4, <2>5, <2>6, <2>7, <2>8, <2>9 DEF Prop!Step
<1>4. ASSUME NEW t \in PropertyThreads, NEW p \in Properties, Prop!BeginGet(t, p)
      PROVE  ReadInv' /\ Prop!OnlySetChanges
  BY <1>2, <1>4, BeginGetReads DEF Prop!BeginGet
<1>5. ASSUME NEW t \in PropertyThreads, NEW p \in Properties, NEW v \in Values, Prop!BeginSet(t, p, v)
      PROVE  ReadInv' /\ Prop!OnlySetChanges
  BY <1>2, <1>5, BeginSetReads DEF Prop!BeginSet
<1>6. ASSUME NEW p \in Properties, NEW v \in Values, Prop!RemoteChange(p, v)
      PROVE  ReadInv' /\ Prop!OnlySetChanges
  BY <1>2, <1>6, RemoteChangeReads
<1> QED
  BY <1>1, <1>3, <1>4, <1>5, <1>6 DEF Prop!Next

LEMMA PropMoves == [Next]_vars => [Prop!Next]_(Prop!vars)
BY DEF Next, Only, Is, vars, propertyVars, Prop!vars

LEMMA PropInit == Init => Prop!Init
BY DEF Init

\* "After the value has been received from external source, it will never be
\* updated externally" (property.h): only Set changes a cached value that is
\* there, because the first reading is made once, under the mutex of the Once,
\* and no Set is in the storage meanwhile.
THEOREM CachedStays == SafetySpec => CachedForGood
<1>. USE ComponentsAssumption
<1>1. Init => ReadInv
  <2>. SUFFICES ASSUME Prop!Init PROVE ReadInv
    BY PropInit
  <2>1. PropTypes
    BY DEF Prop!Init, PropTypes, Calls, PropValues, Changed
  <2>2. LockedInv /\ OnceInv
    BY DEF Prop!Init, Prop!Idle, LockedInv, OnceInv, Reading, Writing, ComponentsAssumption,
           Prop!PropertyAssumption
  <2> QED
    BY <2>1, <2>2 DEF ReadInv
<1>2. ReadInv /\ [Next]_vars => ReadInv' /\ Prop!OnlySetChanges
  BY PropMoves, PropertyStepReads DEF ComponentsAssumption
<1>3. SafetySpec => [][Prop!OnlySetChanges]_(Prop!vars)
  BY <1>1, <1>2, PTL DEF SafetySpec
<1> QED
  BY <1>3, PTL DEF CachedForGood, Prop!CachedForGood

\* The listener of thread l is called directly for the changes made in l.
Alike(l, e, f) == (e[2][3] = l) <=> (f[2][3] = l)

InTurn(l, s) == \A i, j \in DOMAIN s : i < j /\ Alike(l, s[i], s[j]) => s[i][1] < s[j][1]

ToldOf(l, n) ==
  \/ \E i \in DOMAIN log[l] : log[l][i][1] = n
  \/ \E i \in DOMAIN propertyQueue[l] : propertyQueue[l][i][1] = n

\* Of what is in the log and in the queue of a thread, own changes are only in
\* the log; each list is in turn, and the log before the queue.
ListsOf(l) ==
  /\ \A i \in DOMAIN log[l] : Prop!Follows(l, log[l][i])
  /\ \A i \in DOMAIN propertyQueue[l] :
       Prop!Follows(l, propertyQueue[l][i]) /\ propertyQueue[l][i][2][3] # l
  /\ InTurn(l, log[l]) /\ InTurn(l, propertyQueue[l])
  /\ \A i \in DOMAIN log[l], j \in DOMAIN propertyQueue[l] :
       Alike(l, log[l][i], propertyQueue[l][j]) => log[l][i][1] < propertyQueue[l][j][1]

ListsInv == \A l \in PropertyThreads : ListsOf(l)

\* Only of the last change can a listener still have to be told.
ToldInv ==
  \A l \in PropertyThreads, n \in DOMAIN history :
    l \in Listening[history[n][1]] => ToldOf(l, n) \/ (n = Len(history) /\ Prop!MissesLast(l))

EmittingInv ==
  \A t \in PropertyThreads :
    call[t].at = "emit" =>
      /\ Len(history) > 0 /\ history[Len(history)] = << call[t].p, call[t].value, t >>
      /\ call[t].to \subseteq Listening[call[t].p]
      /\ \A l \in call[t].to : ~ ToldOf(l, Len(history))

FollowInv == ListsInv /\ ToldInv /\ EmittingInv

\* A listener that nothing is posted to or handled by, and one that something is.
LEMMA ListsStay ==
  ASSUME NEW l, ListsOf(l), history' = history,
         log'[l] = log[l], propertyQueue'[l] = propertyQueue[l]
  PROVE  ListsOf(l)'
BY SMTT(30) DEF ListsOf, Prop!Follows, InTurn, Alike

LEMMA ListsMade ==
  ASSUME NEW l, NEW told, NEW due, history' = history, log'[l] = told, propertyQueue'[l] = due,
         \A i \in DOMAIN told : Prop!Follows(l, told[i]),
         \A i \in DOMAIN due : Prop!Follows(l, due[i]) /\ due[i][2][3] # l,
         InTurn(l, told), InTurn(l, due),
         \A i \in DOMAIN told, j \in DOMAIN due : Alike(l, told[i], due[j]) => told[i][1] < due[j][1]
  PROVE  ListsOf(l)'
BY SMTT(30) DEF ListsOf, Prop!Follows, InTurn, Alike

\* Events at the end of a list, and before another.
LEMMA AppendedEvents ==
  ASSUME NEW S, NEW s \in Seq(S), NEW e \in S
  PROVE  /\ DOMAIN Append(s, e) = DOMAIN s \cup {Len(s) + 1}
         /\ Append(s, e)[Len(s) + 1] = e /\ Len(s) + 1 \notin DOMAIN s
         /\ \A i \in DOMAIN s : Append(s, e)[i] = s[i] /\ i < Len(s) + 1
OBVIOUS

LEMMA AppendedInTurn ==
  ASSUME NEW S, NEW s \in Seq(S), NEW e \in S, NEW l, InTurn(l, s),
         \A i \in DOMAIN s : Alike(l, s[i], e) => s[i][1] < e[1]
  PROVE  InTurn(l, Append(s, e))
<1>. SUFFICES ASSUME NEW i \in DOMAIN Append(s, e), NEW j \in DOMAIN Append(s, e), i < j,
                     Alike(l, Append(s, e)[i], Append(s, e)[j])
              PROVE  Append(s, e)[i][1] < Append(s, e)[j][1]
  BY DEF InTurn
<1>1. i \in DOMAIN s /\ Append(s, e)[i] = s[i]
  <2>1. j \in DOMAIN s \cup {Len(s) + 1} /\ Len(s) \in Nat /\ DOMAIN s = 1 .. Len(s)
    BY AppendedEvents
  <2> QED
    BY <2>1, AppendedEvents
<1>2. CASE j = Len(s) + 1
  BY <1>1, <1>2, AppendedEvents
<1>3. CASE j \in DOMAIN s
  <2>1. Append(s, e)[j] = s[j]
    BY <1>3, AppendedEvents
  <2> QED
    BY <1>1, <1>3, <2>1 DEF InTurn
<1> QED
  BY <1>2, <1>3, AppendedEvents

\* What is told was changed: its number is one of the history.
LEMMA ToldIsPast ==
  ASSUME PropTypes, ListsInv, NEW l \in PropertyThreads, NEW n, ToldOf(l, n)
  PROVE  n \in 1 .. Len(history)
<1>1. DOMAIN history = 1 .. Len(history)
  BY DEF PropTypes
<1> QED
  BY <1>1 DEF ListsInv, ListsOf, ToldOf, Prop!Follows

\* The history only grows, and nothing that was told changes by that.
LEMMA HistoryGrows ==
  ASSUME PropTypes, ListsInv, UNCHANGED << log, propertyQueue >>, NEW x \in Changed,
         history' = history \/ history' = Append(history, x)
  PROVE  ListsInv' /\ \A l \in PropertyThreads : \A n : ToldOf(l, n)' <=> ToldOf(l, n)
<1>1. \A n \in DOMAIN history : n \in DOMAIN history' /\ history'[n] = history[n]
  <2>1. history \in Seq(Changed)
    BY DEF PropTypes
  <2> QED
    BY <2>1, AppendedEvents
<1>2. ASSUME NEW l, NEW e, Prop!Follows(l, e) PROVE Prop!Follows(l, e)'
  BY <1>1, <1>2 DEF Prop!Follows
<1> QED
  BY <1>2 DEF ListsInv, ListsOf, ToldOf

LEMMA SetStorageFollows ==
  ASSUME Prop!PropertyAssumption, ReadInv, FollowInv, NEW t \in PropertyThreads, Prop!SetStorage(t)
  PROVE  FollowInv'
<1>. DEFINE x == << call[t].p, call[t].value, t >>
<1>1. /\ UNCHANGED << log, propertyQueue >>
      /\ call[t].at = "compare" /\ call[t].p \in Properties /\ call[t].value \in Values
      /\ \A u \in PropertyThreads \ {t} : call'[u] = call[u]
      /\ \/ call'[t].at = "writeUnlock" /\ history' = history
         \/ /\ call'[t] = [at |-> "emit", p |-> call[t].p, value |-> call[t].value,
                           to |-> Listening[call[t].p]]
            /\ history' = Append(history, x)
  BY SetStorageReads DEF Prop!SetStorage
<1>2. x \in Changed /\ history \in Seq(Changed)
  BY <1>1 DEF Changed, ReadInv, PropTypes
<1>3. ListsInv' /\ \A l \in PropertyThreads : \A n : ToldOf(l, n)' <=> ToldOf(l, n)
  <2>. HIDE DEF x
  <2> QED
    BY <1>1, <1>2, HistoryGrows DEF ReadInv, FollowInv
<1>4. \A u \in PropertyThreads : call[u].at # "emit" /\ (u # t => call'[u].at # "emit")
  BY <1>1, WriterIsAlone DEF ReadInv, Writing
<1>5. \A l \in PropertyThreads, n \in DOMAIN history : l \in Listening[history[n][1]] => ToldOf(l, n)
  BY <1>4 DEF FollowInv, ToldInv, Prop!MissesLast, Prop!At
<1>6. CASE call'[t].at = "writeUnlock" /\ history' = history
  BY <1>3, <1>4, <1>5, <1>6 DEF FollowInv, ToldInv, EmittingInv
<1>7. CASE /\ call'[t] = [at |-> "emit", p |-> call[t].p, value |-> call[t].value,
                          to |-> Listening[call[t].p]]
           /\ history' = Append(history, x)
  <2>1. /\ Len(history') = Len(history) + 1 /\ history'[Len(history) + 1] = x
        /\ DOMAIN history' = DOMAIN history \cup {Len(history) + 1}
        /\ \A n \in DOMAIN history : history'[n] = history[n]
        /\ Len(history) \in Nat
    <3>. HIDE DEF x
    <3> QED
      BY <1>2, <1>7
  <2>2. \A l \in PropertyThreads : l \in Listening[call[t].p] => Prop!MissesLast(l)'
    BY <1>7 DEF Prop!MissesLast, Prop!At
  <2>3. ToldInv'
    BY <1>3, <1>5, <2>1, <2>2 DEF ToldInv
  <2>4. \A l \in PropertyThreads : ~ ToldOf(l, Len(history) + 1)
    BY <2>1, ToldIsPast DEF ReadInv, FollowInv
  <2>5. Listening[call[t].p] \subseteq PropertyThreads
    BY <1>1 DEF Prop!PropertyAssumption
  <2>6. EmittingInv'
    BY <1>3, <1>4, <1>7, <2>1, <2>4, <2>5 DEF EmittingInv
  <2> QED
    BY <1>3, <2>3, <2>6 DEF FollowInv
<1> QED
  BY <1>1, <1>6, <1>7

LEMMA EmitEventFollows ==
  ASSUME Prop!PropertyAssumption, ReadInv, FollowInv,
         NEW t \in PropertyThreads, NEW l \in PropertyThreads, Prop!EmitEvent(t, l)
  PROVE  FollowInv'
<1>. DEFINE x == << call[t].p, call[t].value, t >>
            N == Len(history)
            e == << N, x >>
<1>1. /\ call[t].at = "emit" /\ l \in call[t].to
      /\ call'[t].at = "emit" /\ call'[t].p = call[t].p /\ call'[t].value = call[t].value
      /\ call'[t].to = call[t].to \ {l}
      /\ \A u \in PropertyThreads \ {t} : call'[u] = call[u]
      /\ x \in Changed /\ history' = history
      /\ IF l = t
         THEN log' = [log EXCEPT ![t] = Append(@, e)] /\ propertyQueue' = propertyQueue
         ELSE propertyQueue' = [propertyQueue EXCEPT ![l] = Append(@, e)] /\ log' = log
  <2>1. call[t].at = "emit" /\ call[t] \in [at : {"emit"}, p : Properties, value : Values, to : SUBSET PropertyThreads]
    BY CallFields, EmitEventReads DEF ReadInv
  <2>2. /\ call'[t] = [call[t] EXCEPT !.to = @ \ {l}] /\ l \in call[t].to
        /\ x \in Changed /\ \A u \in PropertyThreads \ {t} : call'[u] = call[u]
    BY EmitEventReads
  <2>3. /\ history' = history
        /\ IF l = t
           THEN log' = [log EXCEPT ![t] = Append(@, e)] /\ propertyQueue' = propertyQueue
           ELSE propertyQueue' = [propertyQueue EXCEPT ![l] = Append(@, e)] /\ log' = log
    BY DEF Prop!EmitEvent
  <2>. HIDE DEF x, e
  <2> QED
    BY <2>1, <2>2, <2>3
<1>2. /\ N \in Nat /\ N > 0 /\ history[N] = x /\ l \in Listening[call[t].p]
      /\ ~ ToldOf(l, N) /\ history \in Seq(Changed) /\ N \in DOMAIN history
  BY <1>1 DEF FollowInv, EmittingInv, ReadInv, PropTypes
<1>3. /\ e \in Nat \X Changed /\ e[1] = N /\ e[2] = x /\ e[2][3] = t /\ Prop!Follows(l, e)
  BY <1>1, <1>2 DEF Prop!Follows
<1>4. /\ log \in [PropertyThreads -> Seq(Nat \X Changed)]
      /\ propertyQueue \in [PropertyThreads -> Seq(Nat \X Changed)]
  BY DEF ReadInv, PropTypes
<1>5. \A u \in PropertyThreads \ {t} : call[u].at # "emit" /\ call'[u].at # "emit"
  BY <1>1, WriterIsAlone DEF ReadInv, Writing
<1>. HIDE DEF e, x
<1>6. /\ \A i \in DOMAIN log[l] : log[l][i][1] < N
      /\ \A i \in DOMAIN propertyQueue[l] : propertyQueue[l][i][1] < N
  <2>1. \A n : ToldOf(l, n) => n \in 1 .. N /\ n # N
    BY <1>2, ToldIsPast DEF ReadInv, FollowInv
  <2>2. \A n : ToldOf(l, n) => n < N
    BY <1>2, <2>1
  <2> QED
    BY <2>2 DEF ToldOf
<1>7. /\ ListsInv' /\ ToldOf(l, N)'
      /\ \A m \in PropertyThreads : \A n : ToldOf(m, n) => ToldOf(m, n)'
      /\ \A m \in PropertyThreads \ {l} : \A n : ToldOf(m, n)' => ToldOf(m, n)
  <2>1. CASE l = t
    <3>1. log'[l] = Append(log[l], e) /\ (\A m \in PropertyThreads \ {l} : log'[m] = log[m])
          /\ propertyQueue' = propertyQueue
      BY <1>1, <1>4, <2>1
    <3>2. InTurn(l, log'[l])
      <4>1. log[l] \in Seq(Nat \X Changed) /\ InTurn(l, log[l])
        BY <1>4 DEF FollowInv, ListsInv, ListsOf
      <4> QED
        BY <1>3, <1>6, <3>1, <4>1, AppendedInTurn
    <3>3. /\ DOMAIN log'[l] = DOMAIN log[l] \cup {Len(log[l]) + 1}
          /\ log'[l][Len(log[l]) + 1] = e
          /\ \A i \in DOMAIN log[l] : log'[l][i] = log[l][i]
      BY <1>3, <1>4, <3>1, AppendedEvents
    <3>4. \A j \in DOMAIN propertyQueue[l] : ~ Alike(l, e, propertyQueue[l][j])
      BY <1>3, <2>1 DEF Alike, FollowInv, ListsInv, ListsOf
    <3>5. ListsInv'
      <4>1. ASSUME NEW m \in PropertyThreads, m # l
            PROVE  log'[m] = log[m] /\ propertyQueue'[m] = propertyQueue[m]
        BY <3>1, <4>1
      <4>2. /\ \A i \in DOMAIN log'[l] : Prop!Follows(l, log'[l][i])
            /\ \A i \in DOMAIN log'[l], j \in DOMAIN propertyQueue[l] :
                 Alike(l, log'[l][i], propertyQueue[l][j]) => log'[l][i][1] < propertyQueue[l][j][1]
        BY <1>3, <3>3, <3>4 DEF FollowInv, ListsInv, ListsOf
      <4>3. history' = history
        BY <1>1 DEF Prop!EmitEvent
      <4>4. ListsOf(l)'
        <5>1. /\ \A i \in DOMAIN propertyQueue[l] :
                   Prop!Follows(l, propertyQueue[l][i]) /\ propertyQueue[l][i][2][3] # l
              /\ InTurn(l, propertyQueue[l])
          BY DEF FollowInv, ListsInv, ListsOf
        <5>2. propertyQueue'[l] = propertyQueue[l]
          BY <3>1
        <5> QED
          BY <3>2, <4>2, <4>3, <5>1, <5>2, ListsMade
      <4> QED
        BY <3>1, <4>1, <4>3, <4>4, ListsStay DEF FollowInv, ListsInv
    <3> QED
      BY <1>1, <1>3, <3>1, <3>3, <3>5, SMTT(30) DEF ToldOf
  <2>2. CASE l # t
    <3>1. propertyQueue'[l] = Append(propertyQueue[l], e)
          /\ (\A m \in PropertyThreads \ {l} : propertyQueue'[m] = propertyQueue[m])
          /\ log' = log
      BY <1>1, <1>4, <2>2
    <3>2. InTurn(l, propertyQueue'[l])
      <4>1. propertyQueue[l] \in Seq(Nat \X Changed) /\ InTurn(l, propertyQueue[l])
        BY <1>4 DEF FollowInv, ListsInv, ListsOf
      <4> QED
        BY <1>3, <1>6, <3>1, <4>1, AppendedInTurn
    <3>3. /\ DOMAIN propertyQueue'[l] = DOMAIN propertyQueue[l] \cup {Len(propertyQueue[l]) + 1}
          /\ propertyQueue'[l][Len(propertyQueue[l]) + 1] = e
          /\ \A i \in DOMAIN propertyQueue[l] : propertyQueue'[l][i] = propertyQueue[l][i]
      BY <1>3, <1>4, <3>1, AppendedEvents
    <3>4. e[2][3] # l
      BY <1>3, <2>2
    <3>5. ListsInv'
      <4>1. ASSUME NEW m \in PropertyThreads, m # l
            PROVE  log'[m] = log[m] /\ propertyQueue'[m] = propertyQueue[m]
        BY <3>1, <4>1
      <4>2. /\ \A i \in DOMAIN propertyQueue'[l] :
                 Prop!Follows(l, propertyQueue'[l][i]) /\ propertyQueue'[l][i][2][3] # l
            /\ \A i \in DOMAIN log[l], j \in DOMAIN propertyQueue'[l] :
                 Alike(l, log[l][i], propertyQueue'[l][j]) => log[l][i][1] < propertyQueue'[l][j][1]
        BY <1>3, <1>6, <3>3, <3>4 DEF FollowInv, ListsInv, ListsOf
      <4>3. history' = history
        BY <1>1 DEF Prop!EmitEvent
      <4>4. ListsOf(l)'
        <5>1. /\ \A i \in DOMAIN log[l] : Prop!Follows(l, log[l][i])
              /\ InTurn(l, log[l])
          BY DEF FollowInv, ListsInv, ListsOf
        <5>2. log'[l] = log[l]
          BY <3>1
        <5> QED
          BY <3>2, <4>2, <4>3, <5>1, <5>2, ListsMade
      <4> QED
        BY <3>1, <4>1, <4>3, <4>4, ListsStay DEF FollowInv, ListsInv
    <3> QED
      BY <1>1, <1>3, <3>1, <3>3, <3>5, SMTT(30) DEF ToldOf
  <2> QED
    BY <2>1, <2>2
<1>8. ToldInv'
  <2>. SUFFICES ASSUME NEW m \in PropertyThreads, NEW n \in DOMAIN history, m \in Listening[history[n][1]]
                PROVE  ToldOf(m, n)' \/ (n = N /\ Prop!MissesLast(m)')
    BY <1>1 DEF ToldInv
  <2>1. CASE ToldOf(m, n)
    BY <1>7, <2>1
  <2>2. CASE n = N /\ m = l
    BY <1>1, <1>7, <2>2
  <2>3. CASE n = N /\ m # l /\ Prop!MissesLast(m)
    <3>1. m \in call[t].to
      BY <1>5, <2>3 DEF Prop!MissesLast, Prop!At
    <3>2. call'[t].at = "emit" /\ m \in call'[t].to
      BY <1>1, <2>3, <3>1
    <3> QED
      BY <2>3, <3>2 DEF Prop!MissesLast, Prop!At
  <2> QED
    BY <2>1, <2>2, <2>3 DEF FollowInv, ToldInv
<1>9. EmittingInv'
  <2>1. \A m \in call'[t].to : m \in PropertyThreads \ {l} /\ m \in call[t].to
    <3>1. call[t].p \in Properties
      BY <1>1, CallFields DEF ReadInv
    <3>2. Listening[call[t].p] \subseteq PropertyThreads
      BY <3>1 DEF Prop!PropertyAssumption
    <3> QED
      BY <1>1, <3>2 DEF FollowInv, EmittingInv
  <2>2. \A m \in call'[t].to : ~ ToldOf(m, N)'
    <3>1. \A m \in call[t].to : ~ ToldOf(m, N)
      BY <1>1 DEF FollowInv, EmittingInv
    <3>2. \A m \in PropertyThreads \ {l} : \A n : ToldOf(m, n)' => ToldOf(m, n)
      BY <1>7
    <3>3. N' = N
      BY <1>1
    <3> QED
      BY <2>1, <3>1, <3>2, <3>3
  <2> QED
    BY <1>1, <1>2, <1>5, <2>1, <2>2 DEF FollowInv, EmittingInv, x
<1> QED
  BY <1>7, <1>8, <1>9 DEF FollowInv

LEMMA HandleEventFollows ==
  ASSUME Prop!PropertyAssumption, ReadInv, FollowInv, NEW t \in PropertyThreads, Prop!HandleEvent(t)
  PROVE  FollowInv'
<1>. DEFINE e == Head(propertyQueue[t])
            q == propertyQueue[t]
<1>1. /\ q # <<>> /\ log' = [log EXCEPT ![t] = Append(@, e)]
      /\ propertyQueue' = [propertyQueue EXCEPT ![t] = Tail(@)]
      /\ UNCHANGED << call, history >>
  BY DEF Prop!HandleEvent
<1>2. /\ log \in [PropertyThreads -> Seq(Nat \X Changed)]
      /\ propertyQueue \in [PropertyThreads -> Seq(Nat \X Changed)]
  BY DEF ReadInv, PropTypes
<1>3. /\ log'[t] = Append(log[t], e) /\ propertyQueue'[t] = Tail(q)
      /\ \A m \in PropertyThreads \ {t} : log'[m] = log[m] /\ propertyQueue'[m] = propertyQueue[m]
  BY <1>1, <1>2
<1>4. /\ q \in Seq(Nat \X Changed) /\ e = q[1] /\ e \in Nat \X Changed
      /\ 1 \in DOMAIN q /\ \A i \in DOMAIN q : i = 1 \/ i - 1 \in DOMAIN Tail(q)
      /\ \A i \in DOMAIN Tail(q) : i + 1 \in DOMAIN q /\ Tail(q)[i] = q[i + 1] /\ i \in Nat /\ i > 0
      /\ \A i \in DOMAIN q : i \in Nat
  BY <1>1, <1>2, SMTT(30)
<1>5. /\ DOMAIN log'[t] = DOMAIN log[t] \cup {Len(log[t]) + 1}
      /\ log'[t][Len(log[t]) + 1] = e
      /\ \A i \in DOMAIN log[t] : log'[t][i] = log[t][i]
  BY <1>2, <1>3, <1>4, AppendedEvents
<1>. HIDE DEF e, q
<1>7. InTurn(t, log'[t])
  <2>1. \A i \in DOMAIN log[t] : Alike(t, log[t][i], e) => log[t][i][1] < e[1]
    BY <1>4 DEF FollowInv, ListsInv, ListsOf, q
  <2> QED
    BY <1>2, <1>3, <1>4, <2>1, AppendedInTurn DEF FollowInv, ListsInv, ListsOf
<1>8. InTurn(t, Tail(q))
  <2>. SUFFICES ASSUME NEW i \in DOMAIN Tail(q), NEW j \in DOMAIN Tail(q), i < j,
                       Alike(t, Tail(q)[i], Tail(q)[j])
                PROVE  Tail(q)[i][1] < Tail(q)[j][1]
    BY DEF InTurn
  <2>1. i + 1 \in DOMAIN q /\ j + 1 \in DOMAIN q /\ i + 1 < j + 1
        /\ Tail(q)[i] = q[i + 1] /\ Tail(q)[j] = q[j + 1]
    BY <1>4
  <2>2. InTurn(t, q)
    BY DEF FollowInv, ListsInv, ListsOf, q
  <2> QED
    BY <2>1, <2>2 DEF InTurn
<1>9. ListsInv'
  <2>1. /\ \A i \in DOMAIN log'[t] : Prop!Follows(t, log'[t][i])
        /\ \A i \in DOMAIN Tail(q) : Prop!Follows(t, Tail(q)[i]) /\ Tail(q)[i][2][3] # t
    BY <1>4, <1>5 DEF FollowInv, ListsInv, ListsOf, q
  <2>2. ASSUME NEW i \in DOMAIN log'[t], NEW j \in DOMAIN Tail(q), Alike(t, log'[t][i], Tail(q)[j])
        PROVE  log'[t][i][1] < Tail(q)[j][1]
    <3>1. j + 1 \in DOMAIN q /\ Tail(q)[j] = q[j + 1] /\ 1 < j + 1
      BY <1>4
    <3>2. CASE i \in DOMAIN log[t]
      BY <1>5, <2>2, <3>1, <3>2 DEF FollowInv, ListsInv, ListsOf, q
    <3>3. CASE i = Len(log[t]) + 1
      <4>1. InTurn(t, q)
        BY DEF FollowInv, ListsInv, ListsOf, q
      <4> QED
        BY <1>4, <1>5, <2>2, <3>1, <3>3, <4>1 DEF InTurn
    <3> QED
      BY <1>5, <3>2, <3>3
  <2>3. ASSUME NEW m \in PropertyThreads, m # t
        PROVE  log'[m] = log[m] /\ propertyQueue'[m] = propertyQueue[m]
    BY <1>3, <2>3
  <2>4. history' = history
    BY <1>1
  <2>5. ListsOf(t)'
    BY <1>3, <1>7, <1>8, <2>1, <2>2, <2>4, ListsMade
  <2> QED
    BY <2>3, <2>4, <2>5, ListsStay DEF FollowInv, ListsInv
<1>10. \A m \in PropertyThreads : \A n : ToldOf(m, n)' <=> ToldOf(m, n)
  <2>1. ASSUME NEW n PROVE ToldOf(t, n)' <=>
          (\E i \in DOMAIN log[t] : log[t][i][1] = n) \/ e[1] = n \/ (\E i \in DOMAIN Tail(q) : Tail(q)[i][1] = n)
    BY <1>3, <1>5 DEF ToldOf, q
  <2>2. ASSUME NEW n PROVE (\E i \in DOMAIN q : q[i][1] = n) <=> e[1] = n \/ (\E i \in DOMAIN Tail(q) : Tail(q)[i][1] = n)
    <3>1. \A i \in DOMAIN q : i = 1 \/ (i - 1 \in DOMAIN Tail(q) /\ Tail(q)[i - 1] = q[i])
      BY <1>4
    <3> QED
      BY <1>4, <3>1
  <2>3. \A n : ToldOf(t, n)' <=> ToldOf(t, n)
    BY <2>1, <2>2 DEF ToldOf, q
  <2>4. ASSUME NEW m \in PropertyThreads, m # t, NEW n PROVE ToldOf(m, n)' <=> ToldOf(m, n)
    <3>1. log'[m] = log[m] /\ propertyQueue'[m] = propertyQueue[m]
      BY <1>3, <2>4
    <3> QED
      BY <3>1 DEF ToldOf
  <2> QED
    BY <2>3, <2>4
<1>11. ToldInv'
  BY <1>1, <1>10 DEF FollowInv, ToldInv, Prop!MissesLast, Prop!At
<1>12. EmittingInv'
  <2>1. \A u \in PropertyThreads : call[u].at = "emit" => call[u].to \subseteq PropertyThreads
    BY CallFields DEF ReadInv
  <2> QED
    BY <1>1, <1>10, <2>1 DEF FollowInv, EmittingInv
<1> QED
  BY <1>9, <1>11, <1>12 DEF FollowInv

\* Steps of threads that neither emit nor have emitted.
LEMMA OthersFollow ==
  ASSUME FollowInv, UNCHANGED << log, propertyQueue, history >>,
         NEW t \in PropertyThreads, call[t].at # "emit", call'[t].at # "emit",
         \A u \in PropertyThreads \ {t} : call'[u] = call[u]
  PROVE  FollowInv'
<1>1. ListsInv' /\ \A l \in PropertyThreads : \A n : ToldOf(l, n)' <=> ToldOf(l, n)
  BY DEF FollowInv, ListsInv, ListsOf, ToldOf, Prop!Follows
<1>2. \A l : Prop!MissesLast(l) => Prop!MissesLast(l)'
  BY DEF Prop!MissesLast, Prop!At
<1>3. ToldInv'
  BY <1>1, <1>2 DEF FollowInv, ToldInv
<1>4. ASSUME NEW u \in PropertyThreads, NEW l, call[u].at = "emit", l \in call[u].to
      PROVE  ToldOf(l, Len(history))' <=> ToldOf(l, Len(history))
  BY DEF ToldOf
<1>5. EmittingInv'
  BY <1>4 DEF FollowInv, EmittingInv
<1> QED
  BY <1>1, <1>3, <1>5 DEF FollowInv

LEMMA EndSetFollows ==
  ASSUME Prop!PropertyAssumption, ReadInv, FollowInv, NEW t \in PropertyThreads, Prop!EndSet(t)
  PROVE  FollowInv'
<1>1. /\ call[t].at = "writeUnlock" \/ (call[t].at = "emit" /\ call[t].to = {})
      /\ call' = [call EXCEPT ![t] = Prop!Idle]
      /\ UNCHANGED << propertyQueue, log, history >>
  BY DEF Prop!EndSet, Prop!At, Prop!eventVars
<1>2. call'[t].at = "idle" /\ (\A u \in PropertyThreads \ {t} : call'[u] = call[u])
  BY <1>1 DEF ReadInv, PropTypes, Prop!Idle
<1>3. CASE call[t].at = "writeUnlock"
  BY <1>1, <1>2, <1>3, OthersFollow
<1>4. CASE call[t].at = "emit" /\ call[t].to = {}
  <2>1. \A u \in PropertyThreads : call'[u].at # "emit" /\ (u # t => call[u].at # "emit")
    BY <1>2, <1>4, WriterIsAlone DEF ReadInv, Writing
  <2>2. ListsInv' /\ \A l \in PropertyThreads : \A n : ToldOf(l, n)' <=> ToldOf(l, n)
    BY <1>1 DEF FollowInv, ListsInv, ListsOf, ToldOf, Prop!Follows
  <2>3. \A l : ~ Prop!MissesLast(l)
    BY <1>4, <2>1 DEF Prop!MissesLast, Prop!At
  <2>4. ToldInv'
    BY <1>1, <2>2, <2>3 DEF FollowInv, ToldInv
  <2> QED
    BY <2>1, <2>2, <2>4 DEF FollowInv, EmittingInv
<1> QED
  BY <1>1, <1>3, <1>4

LEMMA PropertyStepFollows ==
  ASSUME Prop!PropertyAssumption, ReadInv, FollowInv, [Prop!Next]_(Prop!vars)
  PROVE  FollowInv'
<1>. USE DEF Prop!At, Prop!eventVars
<1>1. CASE UNCHANGED << call, log, propertyQueue, history >>
  BY <1>1 DEF FollowInv, ListsInv, ListsOf, ToldInv, EmittingInv, ToldOf, Prop!Follows, Prop!MissesLast
<1>2. ASSUME NEW t \in PropertyThreads, NEW c, call[t].at # "emit", c.at # "emit",
             UNCHANGED << log, propertyQueue, history >>, call' = [call EXCEPT ![t] = c]
      PROVE  FollowInv'
  <2>1. call'[t] = c /\ \A u \in PropertyThreads \ {t} : call'[u] = call[u]
    BY <1>2 DEF ReadInv, PropTypes
  <2> QED
    BY <1>2, <2>1, OthersFollow
<1>3. ASSUME NEW t \in PropertyThreads, call[t].at \in Reading PROVE DOMAIN call[t] = {"at", "p", "got"}
  BY <1>3, CallFields DEF ReadInv
<1>4. ASSUME NEW t \in PropertyThreads, Prop!Step(t) PROVE FollowInv'
  <2>1. CASE Prop!ReadStorage(t)
    <3>1. call[t].at = "read" /\ UNCHANGED << log, propertyQueue, history >>
      BY <2>1 DEF Prop!ReadStorage
    <3>2. PICK v : \/ call' = [call EXCEPT ![t] = [call[t] EXCEPT !.at = "readUnlock", !.got = v]]
                   \/ call' = [call EXCEPT ![t] = [call[t] EXCEPT !.at = "once"]]
      BY <2>1, <3>1 DEF Prop!ReadStorage, Prop!Go, ReadInv, PropTypes
    <3>3. /\ [call[t] EXCEPT !.at = "readUnlock", !.got = v].at # "emit"
          /\ [call[t] EXCEPT !.at = "once"].at # "emit"
      BY <1>3, <3>1 DEF Reading
    <3> QED
      BY <1>2, <3>1, <3>2, <3>3
  <2>2. CASE Prop!EnterOnce(t)
    <3>. DEFINE place == IF m_once[call[t].p] = 1 THEN "onceUnlock" ELSE "ensure"
    <3>1. call[t].at = "once" /\ UNCHANGED << log, propertyQueue, history >>
      BY <2>2 DEF Prop!EnterOnce
    <3>2. call' = [call EXCEPT ![t] = [call[t] EXCEPT !.at = place]]
      BY <2>2, <3>1 DEF Prop!EnterOnce, Prop!Go, ReadInv, PropTypes
    <3>3. [call[t] EXCEPT !.at = place].at # "emit"
      BY <1>3, <3>1 DEF Reading
    <3> QED
      BY <1>2, <3>1, <3>2, <3>3
  <2>3. CASE Prop!OnceEnsure(t)
    <3>1. call[t].at \in {"ensure", "onceDone"} /\ UNCHANGED << log, propertyQueue, history >>
      BY <2>3 DEF Prop!OnceEnsure
    <3>2. \/ call' = [call EXCEPT ![t] = [call[t] EXCEPT !.at = "onceDone"]]
          \/ call' = [call EXCEPT ![t] = [call[t] EXCEPT !.at = "onceUnlock"]]
      BY <2>3, <3>1 DEF Prop!OnceEnsure, Prop!Go, ReadInv, PropTypes
    <3>3. /\ [call[t] EXCEPT !.at = "onceDone"].at # "emit"
          /\ [call[t] EXCEPT !.at = "onceUnlock"].at # "emit"
      BY <1>3, <3>1 DEF Reading
    <3> QED
      BY <1>2, <3>1, <3>2, <3>3
  <2>4. CASE Prop!LeaveOnce(t)
    <3>. DEFINE c == [call[t] EXCEPT !.at = "readUnlock", !.got = m_value[call[t].p]]
    <3>1. call[t].at = "onceUnlock" /\ UNCHANGED << log, propertyQueue, history >>
      BY <2>4 DEF Prop!LeaveOnce
    <3>2. call' = [call EXCEPT ![t] = c]
      BY <2>4, <3>1 DEF Prop!LeaveOnce, ReadInv, PropTypes
    <3>3. c.at # "emit"
      BY <1>3, <3>1 DEF Reading
    <3> QED
      BY <1>2, <3>1, <3>2, <3>3
  <2>5. CASE Prop!EndGet(t)
    <3>1. /\ call[t].at = "readUnlock" /\ UNCHANGED << log, propertyQueue, history >>
          /\ call' = [call EXCEPT ![t] = Prop!Idle]
      BY <2>5 DEF Prop!EndGet
    <3> QED
      BY <1>2, <3>1 DEF Prop!Idle
  <2>6. ASSUME NEW l \in PropertyThreads, Prop!EmitEvent(t, l) PROVE FollowInv'
    BY <2>6, EmitEventFollows
  <2> QED
    BY <1>4, <2>1, <2>2, <2>3, <2>4, <2>5, <2>6, SetStorageFollows, EndSetFollows, HandleEventFollows
       DEF Prop!Step
<1>5. ASSUME NEW t \in PropertyThreads, NEW p \in Properties, Prop!BeginGet(t, p) PROVE FollowInv'
  <2>1. /\ call[t].at = "idle" /\ UNCHANGED << log, propertyQueue, history >>
        /\ call' = [call EXCEPT ![t] = [at |-> "read", p |-> p, got |-> Unset]]
    BY <1>5 DEF Prop!BeginGet
  <2> QED
    BY <1>2, <2>1
<1>6. ASSUME NEW t \in PropertyThreads, NEW p \in Properties, NEW v \in Values, Prop!BeginSet(t, p, v)
      PROVE  FollowInv'
  <2>1. /\ call[t].at = "idle" /\ UNCHANGED << log, propertyQueue, history >>
        /\ call' = [call EXCEPT ![t] = [at |-> "compare", p |-> p, value |-> v]]
    BY <1>6 DEF Prop!BeginSet
  <2> QED
    BY <1>2, <2>1
<1>7. ASSUME NEW p \in Properties, NEW v \in Values, Prop!RemoteChange(p, v) PROVE FollowInv'
  BY <1>1, <1>7 DEF Prop!RemoteChange
<1>8. CASE UNCHANGED Prop!vars
  BY <1>1, <1>8 DEF Prop!vars
<1> QED
  BY <1>4, <1>5, <1>6, <1>7, <1>8 DEF Prop!Next

\* What is in a list behind another one.
LEMMA BehindAnother ==
  ASSUME NEW S, NEW a \in Seq(S), NEW b \in Seq(S), NEW i \in DOMAIN (a \o b)
  PROVE  /\ i \in Nat
         /\ \/ i \in DOMAIN a /\ (a \o b)[i] = a[i] /\ i <= Len(a)
            \/ i - Len(a) \in DOMAIN b /\ (a \o b)[i] = b[i - Len(a)] /\ i > Len(a)
OBVIOUS

LEMMA BothListed ==
  ASSUME NEW S, NEW a \in Seq(S), NEW b \in Seq(S)
  PROVE  /\ \A i \in DOMAIN a : i \in DOMAIN (a \o b) /\ (a \o b)[i] = a[i]
         /\ \A i \in DOMAIN b : Len(a) + i \in DOMAIN (a \o b) /\ (a \o b)[Len(a) + i] = b[i]
OBVIOUS

LEMMA FollowersAreTold ==
  ASSUME PropTypes, FollowInv
  PROVE  Prop!ListenersFollow
<1>. SUFFICES ASSUME NEW l \in PropertyThreads
              PROVE  LET told == Prop!Told(l)
                     IN  /\ \A i \in DOMAIN told : Prop!Follows(l, told[i])
                         /\ \A i, j \in DOMAIN told :
                              i < j /\ (told[i][2][3] = l <=> told[j][2][3] = l) => told[i][1] < told[j][1]
                         /\ \A n \in DOMAIN history :
                              \/ l \in Listening[history[n][1]] => \E i \in DOMAIN told : told[i][1] = n
                              \/ n = Len(history) /\ Prop!MissesLast(l)
  BY DEF Prop!ListenersFollow
<1>. DEFINE a == log[l]
            b == propertyQueue[l]
            told == a \o b
<1>1. a \in Seq(Nat \X Changed) /\ b \in Seq(Nat \X Changed)
  BY DEF PropTypes
<1>2. \A i \in DOMAIN told :
        /\ i \in Nat
        /\ \/ i \in DOMAIN a /\ told[i] = a[i] /\ i <= Len(a)
           \/ i - Len(a) \in DOMAIN b /\ told[i] = b[i - Len(a)] /\ i > Len(a)
  <2>. HIDE DEF a, b
  <2> QED
    BY <1>1, BehindAnother
<1>3. /\ \A i \in DOMAIN a : i \in DOMAIN told /\ told[i] = a[i]
      /\ \A i \in DOMAIN b : Len(a) + i \in DOMAIN told /\ told[Len(a) + i] = b[i]
  <2>. HIDE DEF a, b
  <2> QED
    BY <1>1, BothListed
<1>4. /\ \A i \in DOMAIN a : Prop!Follows(l, a[i])
      /\ \A i \in DOMAIN b : Prop!Follows(l, b[i])
      /\ InTurn(l, a) /\ InTurn(l, b)
      /\ \A i \in DOMAIN a, j \in DOMAIN b : Alike(l, a[i], b[j]) => a[i][1] < b[j][1]
  BY DEF FollowInv, ListsInv, ListsOf
<1>5. \A n \in DOMAIN history :
        \/ l \in Listening[history[n][1]] =>
             (\E i \in DOMAIN a : a[i][1] = n) \/ (\E i \in DOMAIN b : b[i][1] = n)
        \/ n = Len(history) /\ Prop!MissesLast(l)
  BY DEF FollowInv, ToldInv, ToldOf
<1>6. Len(a) \in Nat
  BY <1>1
<1>7. Prop!Told(l) = told
  BY DEF Prop!Told
<1>. HIDE DEF a, b, told
<1>8. \A i \in DOMAIN told : Prop!Follows(l, told[i])
  BY <1>2, <1>4
<1>9. ASSUME NEW i \in DOMAIN told, NEW j \in DOMAIN told, i < j, told[i][2][3] = l <=> told[j][2][3] = l
      PROVE  told[i][1] < told[j][1]
  <2>1. Alike(l, told[i], told[j])
    BY <1>9 DEF Alike
  <2>2. CASE i \in DOMAIN a /\ told[i] = a[i] /\ j \in DOMAIN a /\ told[j] = a[j]
    BY <1>4, <1>9, <2>1, <2>2 DEF InTurn
  <2>3. CASE i \in DOMAIN a /\ told[i] = a[i] /\ j - Len(a) \in DOMAIN b /\ told[j] = b[j - Len(a)]
    BY <1>4, <2>1, <2>3
  <2>4. CASE i > Len(a) /\ i - Len(a) \in DOMAIN b /\ told[i] = b[i - Len(a)]
             /\ j - Len(a) \in DOMAIN b /\ told[j] = b[j - Len(a)]
    <3>1. i - Len(a) < j - Len(a)
      BY <1>2, <1>6, <1>9
    <3> QED
      BY <1>4, <2>1, <2>4, <3>1 DEF InTurn
  <2>5. ~ (i > Len(a) /\ j <= Len(a))
    BY <1>2, <1>6, <1>9
  <2> QED
    BY <1>2, <2>2, <2>3, <2>4, <2>5
<1>10. \A n \in DOMAIN history :
         \/ l \in Listening[history[n][1]] => \E i \in DOMAIN told : told[i][1] = n
         \/ n = Len(history) /\ Prop!MissesLast(l)
  BY <1>3, <1>5
<1> QED
  BY <1>7, <1>8, <1>9, <1>10

\* Listeners are told of every change of the properties they listen to once and
\* in the order of the changes, except that own ones overtake (property.h: Set
\* emits under the lock that it changes the value under), and a reader gets the
\* value that was ensured for it (Once), for any number of threads, properties,
\* listeners and changes.
THEOREM EveryListenerFollows == SafetySpec => []ListenersFollow
<1>. USE ComponentsAssumption
<1>1. Init => ReadInv /\ FollowInv
  <2>. SUFFICES ASSUME Prop!Init PROVE ReadInv /\ FollowInv
    BY PropInit
  <2>1. PropTypes
    BY DEF Prop!Init, PropTypes, Calls, PropValues, Changed
  <2>2. LockedInv /\ OnceInv
    BY DEF Prop!Init, Prop!Idle, LockedInv, OnceInv, Reading, Writing, ComponentsAssumption,
           Prop!PropertyAssumption
  <2>3. FollowInv
    BY DEF Prop!Init, Prop!Idle, FollowInv, ListsInv, ListsOf, InTurn, ToldInv, EmittingInv
  <2> QED
    BY <2>1, <2>2, <2>3 DEF ReadInv
<1>2. ReadInv /\ FollowInv /\ [Next]_vars => ReadInv' /\ FollowInv'
  BY PropMoves, PropertyStepReads, PropertyStepFollows DEF ComponentsAssumption
<1>3. ReadInv /\ FollowInv => ListenersFollow
  <2>1. ReadInv => Prop!ReadsAreEnsured
    BY DEF ReadInv, OnceInv, Prop!ReadsAreEnsured, Prop!At
  <2> QED
    BY <2>1, FollowersAreTold DEF ListenersFollow, ReadInv
<1> QED
  BY <1>1, <1>2, <1>3, PTL DEF SafetySpec
=============================================================================
