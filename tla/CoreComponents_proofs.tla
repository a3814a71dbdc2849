----------------------- MODULE CoreComponents_proofs ------------------------
(***************************************************************************)
(* Theorems about the components of src/modules/core in Components, the    *)
(* connector of src/modules/rpc and the wrapper of toolkit objects of      *)
(* src/modules/popup, for every value of their constants.  A step of the   *)
(* composition is one of a single component (the lemmas ...Moves), so an   *)
(* invariant of a component is one of the composition.                     *)
(***************************************************************************)
EXTENDS Components, FiniteSetTheorems, TLAPS

-----------------------------------------------------------------------------
(* A step of the composition is a step of one component, or of none, and   *)
(* leaves the variables of the others alone.                               *)

LEMMA ConnMoves == [Next]_vars => [Conn!Next]_(Conn!vars)
BY DEF Next, Only, Is, vars, connectorVars, Conn!vars, Conn!objectVars, Conn!connectorVars,
       Conn!kernelVars

LEMMA PtrMoves == [Next]_vars => [Ptr!Next]_(Ptr!vars)
BY DEF Next, Only, Is, vars, ptrVars, Ptr!vars

LEMMA SemMoves == [Next]_vars => [Sem!Next]_(Sem!vars)
BY DEF Next, Only, Is, vars, semaphoreVars, Sem!vars

LEMMA SingleMoves == [Next]_vars => [Single!Next]_(Single!vars)
BY DEF Next, Only, Is, vars, lockVars, Single!vars

-----------------------------------------------------------------------------
(* SharedPtr. *)

\* A thread between the two halves of a detach and an attach.
Detaching ==
  [at : {"delete", "attach"}, o : 1 .. objectsMade, slot : Slots, then : 0 .. objectsMade]

PtrTypes ==
  /\ objectsMade \in 0 .. MaxObjects
  /\ ptr \in [PtrThreads -> [Slots -> 0 .. objectsMade]]
  /\ ref \in [Ptr!Objects -> Nat]
  /\ objectsAlive \subseteq 1 .. objectsMade
  /\ deletions \in [Ptr!Objects -> Nat]
  /\ ptrPc \in [PtrThreads -> {Ptr!Idle} \cup Detaching]

Deleting(t, o) == ptrPc[t].at = "delete" /\ ptrPc[t].o = o

\* The slot that is assigned to is empty, and what it is going to hold is held
\* by the slot that it is assigned from.
Assigning ==
  \A t \in PtrThreads : ptrPc[t] # Ptr!Idle =>
    /\ ptr[t][ptrPc[t].slot] = 0
    /\ ptrPc[t].then # 0 => \E from \in Slots : ptr[t][from] = ptrPc[t].then

Counted == \A o \in 1 .. objectsMade : ref[o] = Cardinality(Ptr!Holders(o))

\* An object that is made is held, or somebody is deleting it, or it was deleted.
Living(o) ==
  /\ o \in objectsAlive <=> (Ptr!Holders(o) # {} \/ \E t \in PtrThreads : Deleting(t, o))
  /\ deletions[o] = IF o \in objectsAlive THEN 0 ELSE 1
  /\ \A t \in PtrThreads : Deleting(t, o) =>
       Ptr!Holders(o) = {} /\ \A u \in PtrThreads : Deleting(u, o) => u = t

PtrInv == PtrTypes /\ Assigning /\ Counted /\ \A o \in 1 .. objectsMade : Living(o)

\* Objects that are not made yet are untouched.
Fresh == \A o \in Ptr!Objects : o > objectsMade => deletions[o] = 0

\* What holds an object is a finite set of slots (SharedPtr.tla, Holders).
LEMMA HoldersAreFinite ==
  ASSUME Ptr!SharedPtrAssumption, NEW o
  PROVE  IsFiniteSet(Ptr!Holders(o)) /\ Cardinality(Ptr!Holders(o)) \in Nat
<1>1. IsFiniteSet(PtrThreads) /\ IsFiniteSet(Slots)
  BY DEF Ptr!SharedPtrAssumption, Ptr!IsFiniteSet, IsFiniteSet
<1>2. IsFiniteSet(PtrThreads \X Slots)
  BY <1>1, FS_Product
<1>3. Ptr!Holders(o) \subseteq PtrThreads \X Slots
  BY DEF Ptr!Holders
<1> QED
  BY <1>2, <1>3, FS_Subset, FS_CardinalityType

Sets(t, s, n) == ptr' = [ptr EXCEPT ![t][s] = n]

\* A slot that gets an object that is made leaves the slots as they are typed.
LEMMA StaysTyped ==
  ASSUME PtrTypes, NEW t \in PtrThreads, NEW s \in Slots, NEW n \in 0 .. objectsMade, Sets(t, s, n)
  PROVE  ptr' \in [PtrThreads -> [Slots -> 0 .. objectsMade]]
BY DEF PtrTypes, Sets

\* A slot that is empty and gets an object adds itself to its holders only.
LEMMA HolderComes ==
  ASSUME Ptr!SharedPtrAssumption, PtrTypes, NEW t \in PtrThreads, NEW s \in Slots, ptr[t][s] = 0,
         NEW n, n # 0, Sets(t, s, n), NEW o, o # 0
  PROVE  /\ Ptr!Holders(o)' = IF o = n THEN Ptr!Holders(o) \cup {<< t, s >>} ELSE Ptr!Holders(o)
         /\ Cardinality(Ptr!Holders(o)') = Cardinality(Ptr!Holders(o)) + (IF o = n THEN 1 ELSE 0)
<1>1. Ptr!Holders(o)' = IF o = n THEN Ptr!Holders(o) \cup {<< t, s >>} ELSE Ptr!Holders(o)
  BY DEF Ptr!Holders, PtrTypes, Sets
<1>2. << t, s >> \notin Ptr!Holders(o)
  BY DEF Ptr!Holders
<1>3. IsFiniteSet(Ptr!Holders(o)) /\ Cardinality(Ptr!Holders(o)) \in Nat
  BY HoldersAreFinite
<1>4. Cardinality(Ptr!Holders(o) \cup {<< t, s >>}) = Cardinality(Ptr!Holders(o)) + 1
  BY <1>2, <1>3, FS_AddElement
<1>5. CASE o = n
  BY <1>1, <1>4, <1>5
<1>6. CASE o # n
  BY <1>1, <1>3, <1>6
<1> QED
  BY <1>5, <1>6

\* A slot that lets its object go takes itself from its holders only.
LEMMA HolderGoes ==
  ASSUME Ptr!SharedPtrAssumption, PtrTypes, NEW t \in PtrThreads, NEW s \in Slots, ptr[t][s] # 0,
         Sets(t, s, 0), NEW o, o # 0
  PROVE  LET n == ptr[t][s]
         IN  /\ << t, s >> \in Ptr!Holders(n)
             /\ Ptr!Holders(o)' = IF o = n THEN Ptr!Holders(o) \ {<< t, s >>} ELSE Ptr!Holders(o)
             /\ Cardinality(Ptr!Holders(o)') = Cardinality(Ptr!Holders(o)) - (IF o = n THEN 1 ELSE 0)
<1>. DEFINE n == ptr[t][s]
<1>1. Ptr!Holders(o)' = IF o = n THEN Ptr!Holders(o) \ {<< t, s >>} ELSE Ptr!Holders(o)
  BY DEF Ptr!Holders, PtrTypes, Sets
<1>2. << t, s >> \in Ptr!Holders(n)
  BY DEF Ptr!Holders, PtrTypes
<1>3. IsFiniteSet(Ptr!Holders(o)) /\ Cardinality(Ptr!Holders(o)) \in Nat
  BY HoldersAreFinite
<1>4. CASE o = n
  <2>1. Cardinality(Ptr!Holders(o) \ {<< t, s >>}) = Cardinality(Ptr!Holders(o)) - 1
    BY <1>2, <1>3, <1>4, FS_RemoveElement
  <2> QED
    BY <1>1, <1>2, <1>4, <2>1
<1>5. CASE o # n
  BY <1>1, <1>2, <1>3, <1>5
<1> QED
  BY <1>4, <1>5

\* What is held is made and alive, and nobody is deleting it.
LEMMA HeldIsAlive ==
  ASSUME Ptr!SharedPtrAssumption, PtrInv, NEW t \in PtrThreads, NEW s \in Slots, ptr[t][s] # 0
  PROVE  LET o == ptr[t][s]
         IN  /\ o \in 1 .. objectsMade /\ o \in Ptr!Objects /\ o \in objectsAlive /\ deletions[o] = 0
             /\ \A u \in PtrThreads : ~ Deleting(u, o)
<1>. DEFINE o == ptr[t][s]
<1>1. o \in 1 .. objectsMade /\ o \in Ptr!Objects
  BY DEF PtrInv, PtrTypes, Ptr!Objects, Ptr!SharedPtrAssumption
<1>2. << t, s >> \in Ptr!Holders(o)
  BY DEF Ptr!Holders
<1>3. Living(o)
  BY <1>1 DEF PtrInv
<1> QED
  BY <1>1, <1>2, <1>3 DEF Living

\* A copy, of any kind: an empty slot of an idle thread gets a living object.
LEMMA PtrCopyKeeps ==
  ASSUME Ptr!SharedPtrAssumption, PtrInv, NEW t \in PtrThreads, NEW s \in Slots,
         ptrPc[t] = Ptr!Idle, ptr[t][s] = 0,
         NEW u \in PtrThreads, NEW from \in Slots, ptr[u][from] # 0,
         ptr' = [ptr EXCEPT ![t][s] = ptr[u][from]],
         ref' = [ref EXCEPT ![ptr[u][from]] = @ + 1],
         UNCHANGED << objectsAlive, deletions, objectsMade, ptrPc >>
  PROVE  PtrInv'
<1>. DEFINE n == ptr[u][from]
<1>1. n \in 1 .. objectsMade /\ n \in Ptr!Objects /\ n \in objectsAlive /\ \A v \in PtrThreads : ~ Deleting(v, n)
  BY HeldIsAlive
<1>2. PtrTypes'
  BY <1>1 DEF PtrInv, PtrTypes, Detaching, Ptr!Objects
<1>3. Assigning'
  <2>. SUFFICES ASSUME NEW v \in PtrThreads, ptrPc[v] # Ptr!Idle
                PROVE  /\ ptr'[v][ptrPc[v].slot] = 0
                       /\ ptrPc[v].then # 0 => \E f \in Slots : ptr'[v][f] = ptrPc[v].then
    BY DEF Assigning
  <2>1. v # t /\ ptr'[v] = ptr[v]
    BY DEF PtrInv, PtrTypes
  <2> QED
    BY <2>1 DEF PtrInv, Assigning
<1>4. ASSUME NEW o \in 1 .. objectsMade'
      PROVE  ref'[o] = Cardinality(Ptr!Holders(o)') /\ Living(o)'
  <2>1. o # 0 /\ o \in Ptr!Objects /\ ref[o] \in Nat
    BY DEF PtrInv, PtrTypes, Ptr!Objects, Ptr!SharedPtrAssumption
  <2>2. /\ Ptr!Holders(o)' = IF o = n THEN Ptr!Holders(o) \cup {<< t, s >>} ELSE Ptr!Holders(o)
        /\ Cardinality(Ptr!Holders(o)') = Cardinality(Ptr!Holders(o)) + (IF o = n THEN 1 ELSE 0)
    <3>1. PtrTypes /\ Sets(t, s, n) /\ n # 0
      BY <1>1 DEF PtrInv, Sets
    <3> QED
      BY <1>1, <2>1, <3>1, HolderComes
  <2>3. ref'[o] = ref[o] + (IF o = n THEN 1 ELSE 0)
    BY <1>1, <2>1 DEF PtrInv, PtrTypes
  <2>4. ref[o] = Cardinality(Ptr!Holders(o)) /\ Living(o)
    BY DEF PtrInv, Counted
  <2>5. \A v \in PtrThreads : Deleting(v, o)' = Deleting(v, o)
    BY DEF Deleting
  <2>6. Living(o)'
    BY <1>1, <2>2, <2>4, <2>5 DEF Living
  <2> QED
    BY <2>2, <2>3, <2>4, <2>6
<1> QED
  BY <1>2, <1>3, <1>4 DEF PtrInv, Counted

LEMMA CreateKeeps ==
  ASSUME Ptr!SharedPtrAssumption, PtrInv, Fresh, NEW t \in PtrThreads, NEW s \in Slots, Ptr!Create(t, s)
  PROVE  PtrInv'
<1>. DEFINE n == objectsMade + 1
<1>1. /\ objectsMade' = n /\ n \in 1 .. MaxObjects /\ n \in Ptr!Objects /\ n # 0 /\ objectsMade \in Nat
      /\ ptrPc[t] = Ptr!Idle /\ ptr[t][s] = 0
      /\ ref' = [ref EXCEPT ![n] = 1] /\ objectsAlive' = objectsAlive \cup {n}
      /\ ptr' = [ptr EXCEPT ![t][s] = n] /\ deletions' = deletions /\ ptrPc' = ptrPc
  BY DEF Ptr!Create, PtrInv, PtrTypes, Ptr!Objects, Ptr!SharedPtrAssumption
<1>2. PtrTypes'
  <2>1. ptr' \in [PtrThreads -> [Slots -> 0 .. objectsMade']]
    BY <1>1 DEF PtrInv, PtrTypes
  <2>2. ptrPc' \in [PtrThreads -> {Ptr!Idle} \cup Detaching']
    BY <1>1 DEF PtrInv, PtrTypes, Detaching
  <2>3. objectsAlive' \subseteq 1 .. objectsMade' /\ objectsMade' \in 0 .. MaxObjects
    BY <1>1 DEF PtrInv, PtrTypes
  <2> QED
    BY <1>1, <2>1, <2>2, <2>3 DEF PtrInv, PtrTypes, Ptr!Objects
<1>3. Assigning'
  <2>. SUFFICES ASSUME NEW v \in PtrThreads, ptrPc[v] # Ptr!Idle
                PROVE  /\ ptr'[v][ptrPc[v].slot] = 0
                       /\ ptrPc[v].then # 0 => \E f \in Slots : ptr'[v][f] = ptrPc[v].then
    BY <1>1 DEF Assigning
  <2>1. v # t /\ ptr'[v] = ptr[v]
    BY <1>1 DEF PtrInv, PtrTypes
  <2> QED
    BY <2>1 DEF PtrInv, Assigning
<1>4. ASSUME NEW o \in 1 .. objectsMade'
      PROVE  ref'[o] = Cardinality(Ptr!Holders(o)') /\ Living(o)'
  <2>1. o # 0 /\ o \in Ptr!Objects
    BY <1>1 DEF Ptr!Objects, Ptr!SharedPtrAssumption
  <2>2. /\ Ptr!Holders(o)' = IF o = n THEN Ptr!Holders(o) \cup {<< t, s >>} ELSE Ptr!Holders(o)
        /\ Cardinality(Ptr!Holders(o)') = Cardinality(Ptr!Holders(o)) + (IF o = n THEN 1 ELSE 0)
    <3>1. PtrTypes /\ Sets(t, s, n) /\ n # 0
      BY <1>1 DEF PtrInv, Sets
    <3> QED
      BY <1>1, <2>1, <3>1, HolderComes
  <2>3. \A v \in PtrThreads : Deleting(v, o)' = Deleting(v, o)
    BY <1>1 DEF Deleting
  <2>4. CASE o = n
    <3>1. Ptr!Holders(o) = {}
      BY <1>1, <2>4 DEF PtrInv, PtrTypes, Ptr!Holders
    <3>2. \A v \in PtrThreads : ~ Deleting(v, o)
      <4>. SUFFICES ASSUME NEW v \in PtrThreads, Deleting(v, o) PROVE FALSE
        OBVIOUS
      <4>1. ptrPc[v] \in Detaching
        BY DEF PtrInv, PtrTypes, Deleting, Ptr!Idle
      <4> QED
        BY <1>1, <2>4, <4>1 DEF Deleting, Detaching
    <3>3. ref'[o] = 1 /\ deletions'[o] = 0
      BY <1>1, <2>1, <2>4 DEF PtrInv, PtrTypes, Fresh
    <3>4. Cardinality(Ptr!Holders(o)') = 1 /\ Ptr!Holders(o)' # {}
      <4>1. Ptr!Holders(o)' = Ptr!Holders(o) \cup {<< t, s >>} /\ Cardinality(Ptr!Holders(o)') = Cardinality(Ptr!Holders(o)) + 1
        BY <2>2, <2>4
      <4>2. Cardinality(Ptr!Holders(o)) = 0
        BY <3>1, FS_EmptySet
      <4> QED
        BY <4>1, <4>2
    <3> QED
      BY <1>1, <2>3, <2>4, <3>2, <3>3, <3>4 DEF Living
  <2>5. CASE o # n
    <3>1. o \in 1 .. objectsMade
      BY <1>1, <2>5
    <3>2. ref[o] = Cardinality(Ptr!Holders(o)) /\ Living(o) /\ ref[o] \in Nat
      BY <2>1, <3>1 DEF PtrInv, Counted, PtrTypes
    <3>3. ref'[o] = ref[o]
      BY <1>1, <2>1, <2>5 DEF PtrInv, PtrTypes
    <3> QED
      BY <1>1, <2>2, <2>3, <2>5, <3>2, <3>3 DEF Living
  <2> QED
    BY <2>4, <2>5
<1> QED
  BY <1>2, <1>3, <1>4 DEF PtrInv, Counted

LEMMA PtrDetachKeeps ==
  ASSUME Ptr!SharedPtrAssumption, PtrInv, NEW t \in PtrThreads, NEW s \in Slots, NEW then \in 0 .. objectsMade,
         then # 0 => \E from \in Slots \ {s} : ptr[t][from] = then,
         Ptr!DetachCounter(t, s, then)
  PROVE  PtrInv'
<1>. DEFINE n == ptr[t][s]
            new == [at |-> IF ref[n] = 1 THEN "delete" ELSE "attach", o |-> n, slot |-> s, then |-> then]
<1>1. /\ ptrPc[t] = Ptr!Idle /\ n # 0
      /\ ref' = [ref EXCEPT ![n] = @ - 1]
      /\ ptrPc' = [ptrPc EXCEPT ![t] = new]
      /\ ptr' = [ptr EXCEPT ![t][s] = 0]
      /\ objectsAlive' = objectsAlive /\ deletions' = deletions /\ objectsMade' = objectsMade
  BY DEF Ptr!DetachCounter
<1>2. n \in 1 .. objectsMade /\ n \in Ptr!Objects /\ n \in objectsAlive /\ \A v \in PtrThreads : ~ Deleting(v, n)
  BY <1>1, HeldIsAlive
<1>3. << t, s >> \in Ptr!Holders(n) /\ ref[n] = Cardinality(Ptr!Holders(n)) /\ ref[n] \in Nat
  BY <1>2 DEF PtrInv, Counted, Ptr!Holders, PtrTypes
<1>4. Ptr!Holders(n) \ {<< t, s >>} = {} <=> ref[n] = 1
  <2>1. IsFiniteSet(Ptr!Holders(n)) /\ IsFiniteSet(Ptr!Holders(n) \ {<< t, s >>})
    BY HoldersAreFinite, FS_RemoveElement
  <2>2. Cardinality(Ptr!Holders(n) \ {<< t, s >>}) = ref[n] - 1
    BY <1>3, <2>1, FS_RemoveElement
  <2> QED
    BY <1>3, <2>1, <2>2, FS_EmptySet
<1>5. ref[n] # 0
  BY <1>3, HoldersAreFinite, FS_EmptySet
<1>6. new \in Detaching /\ new # Ptr!Idle
  BY <1>2 DEF Detaching, Ptr!Idle
<1>7. PtrTypes'
  <2>1. ptr' \in [PtrThreads -> [Slots -> 0 .. objectsMade']]
    BY <1>1 DEF PtrInv, PtrTypes
  <2>2. ptrPc' \in [PtrThreads -> {Ptr!Idle} \cup Detaching']
    BY <1>1, <1>6 DEF PtrInv, PtrTypes, Detaching
  <2>3. ref' \in [Ptr!Objects -> Nat]
    <3>1. ref[n] - 1 \in Nat
      BY <1>3, <1>5
    <3> QED
      BY <1>1, <3>1 DEF PtrInv, PtrTypes
  <2> QED
    BY <1>1, <2>1, <2>2, <2>3 DEF PtrInv, PtrTypes
<1>8. Assigning'
  <2>. SUFFICES ASSUME NEW v \in PtrThreads, ptrPc'[v] # Ptr!Idle
                PROVE  /\ ptr'[v][ptrPc'[v].slot] = 0
                       /\ ptrPc'[v].then # 0 => \E f \in Slots : ptr'[v][f] = ptrPc'[v].then
    BY DEF Assigning
  <2>1. CASE v = t
    <3>1. ptrPc'[v] = new /\ ptr'[v] = [ptr[t] EXCEPT ![s] = 0] /\ ptr[t] \in [Slots -> 0 .. objectsMade]
      BY <1>1, <2>1 DEF PtrInv, PtrTypes
    <3>2. ptrPc'[v].slot = s /\ ptrPc'[v].then = then
      BY <3>1
    <3> QED
      BY <3>1, <3>2
  <2>2. CASE v # t
    <3>1. ptrPc'[v] = ptrPc[v] /\ ptr'[v] = ptr[v]
      BY <1>1, <2>2 DEF PtrInv, PtrTypes
    <3> QED
      BY <3>1 DEF PtrInv, Assigning
  <2> QED
    BY <2>1, <2>2
<1>9. ASSUME NEW o \in 1 .. objectsMade'
      PROVE  ref'[o] = Cardinality(Ptr!Holders(o)') /\ Living(o)'
  <2>1. o # 0 /\ o \in Ptr!Objects /\ o \in 1 .. objectsMade
    BY <1>1 DEF PtrInv, PtrTypes, Ptr!Objects, Ptr!SharedPtrAssumption
  <2>2. /\ Ptr!Holders(o)' = IF o = n THEN Ptr!Holders(o) \ {<< t, s >>} ELSE Ptr!Holders(o)
        /\ Cardinality(Ptr!Holders(o)') = Cardinality(Ptr!Holders(o)) - (IF o = n THEN 1 ELSE 0)
    BY <1>1, <2>1, HolderGoes DEF PtrInv, Sets
  <2>3. ref[o] = Cardinality(Ptr!Holders(o)) /\ Living(o) /\ ref[o] \in Nat
    BY <2>1 DEF PtrInv, Counted, PtrTypes
  <2>4. ref'[o] = ref[o] - (IF o = n THEN 1 ELSE 0)
    BY <1>1, <2>1, <2>3 DEF PtrInv, PtrTypes
  <2>5. ptrPc'[t] = new /\ new.at = (IF ref[n] = 1 THEN "delete" ELSE "attach") /\ new.o = n
    BY <1>1 DEF PtrInv, PtrTypes
  <2>6. Deleting(t, o)' <=> (ref[n] = 1 /\ o = n)
    BY <2>5 DEF Deleting
  <2>7. ~ Deleting(t, o)
    BY <1>1 DEF Deleting, Ptr!Idle
  <2>8. \A v \in PtrThreads \ {t} : Deleting(v, o)' <=> Deleting(v, o)
    BY <1>1 DEF Deleting, PtrInv, PtrTypes
  <2>9. CASE o = n
    <3>1. \A v \in PtrThreads : Deleting(v, o)' <=> (v = t /\ ref[n] = 1)
      BY <1>2, <2>6, <2>8, <2>9
    <3>2. Ptr!Holders(o)' = {} <=> ref[n] = 1
      BY <1>4, <2>2, <2>9
    <3>3. Living(o)'
      BY <1>1, <1>2, <2>3, <2>9, <3>1, <3>2 DEF Living
    <3> QED
      BY <2>2, <2>3, <2>4, <3>3
  <2>10. CASE o # n
    <3>1. \A v \in PtrThreads : Deleting(v, o)' <=> Deleting(v, o)
      BY <2>6, <2>7, <2>8, <2>10
    <3>2. Living(o)'
      BY <1>1, <2>2, <2>3, <2>10, <3>1 DEF Living
    <3> QED
      BY <2>2, <2>3, <2>4, <2>10, <3>2
  <2> QED
    BY <2>9, <2>10
<1> QED
  BY <1>7, <1>8, <1>9 DEF PtrInv, Counted

LEMMA DeleteKeeps ==
  ASSUME Ptr!SharedPtrAssumption, PtrInv, NEW t \in PtrThreads, Ptr!Delete(t)
  PROVE  PtrInv'
<1>. DEFINE n == ptrPc[t].o
<1>1. ptrPc[t] \in Detaching /\ ptrPc[t].at = "delete" /\ ptrPc[t] # Ptr!Idle
  BY DEF Ptr!Delete, PtrInv, PtrTypes, Ptr!Idle
<1>2. /\ objectsAlive' = objectsAlive \ {n} /\ deletions' = [deletions EXCEPT ![n] = @ + 1]
      /\ ptrPc' = [ptrPc EXCEPT ![t] = [ptrPc[t] EXCEPT !.at = "attach"]]
      /\ ptr' = ptr /\ ref' = ref /\ objectsMade' = objectsMade
  BY DEF Ptr!Delete
<1>3. n \in 1 .. objectsMade /\ n \in Ptr!Objects /\ Living(n) /\ Deleting(t, n)
  BY <1>1 DEF PtrInv, PtrTypes, Detaching, Ptr!Objects, Deleting, Ptr!SharedPtrAssumption
<1>4. /\ [ptrPc[t] EXCEPT !.at = "attach"] \in Detaching
      /\ [ptrPc[t] EXCEPT !.at = "attach"].at = "attach"
      /\ [ptrPc[t] EXCEPT !.at = "attach"].slot = ptrPc[t].slot
      /\ [ptrPc[t] EXCEPT !.at = "attach"].then = ptrPc[t].then
  BY <1>1 DEF Detaching
<1>5. PtrTypes'
  BY <1>2, <1>3, <1>4 DEF PtrInv, PtrTypes, Detaching
<1>6. Assigning'
  <2>. SUFFICES ASSUME NEW v \in PtrThreads, ptrPc'[v] # Ptr!Idle
                PROVE  /\ ptr'[v][ptrPc'[v].slot] = 0
                       /\ ptrPc'[v].then # 0 => \E f \in Slots : ptr'[v][f] = ptrPc'[v].then
    BY DEF Assigning
  <2>1. ptrPc[v] # Ptr!Idle /\ ptrPc'[v].slot = ptrPc[v].slot /\ ptrPc'[v].then = ptrPc[v].then
    BY <1>1, <1>2, <1>4 DEF PtrInv, PtrTypes
  <2> QED
    BY <1>2, <2>1 DEF PtrInv, Assigning
<1>7. ASSUME NEW o \in 1 .. objectsMade'
      PROVE  ref'[o] = Cardinality(Ptr!Holders(o)') /\ Living(o)'
  <2>1. o \in 1 .. objectsMade /\ Ptr!Holders(o)' = Ptr!Holders(o) /\ ref'[o] = ref[o] /\ o \in Ptr!Objects
    BY <1>2 DEF Ptr!Holders, Ptr!Objects, PtrInv, PtrTypes, Ptr!SharedPtrAssumption
  <2>2. ref[o] = Cardinality(Ptr!Holders(o)) /\ Living(o)
    BY <2>1 DEF PtrInv, Counted
  <2>3. ~ Deleting(t, o)'
    BY <1>2, <1>4 DEF Deleting, PtrInv, PtrTypes
  <2>4. \A v \in PtrThreads \ {t} : Deleting(v, o)' <=> Deleting(v, o)
    BY <1>2 DEF Deleting, PtrInv, PtrTypes
  <2>5. CASE o = n
    <3>1. \A v \in PtrThreads : ~ Deleting(v, o)'
      BY <1>3, <2>3, <2>4, <2>5 DEF Living
    <3>2. deletions[o] = 0 /\ o \in objectsAlive /\ Ptr!Holders(o) = {}
      BY <1>3, <2>5 DEF Living
    <3>3. deletions'[o] = 1 /\ o \notin objectsAlive'
      BY <1>2, <1>3, <2>5, <3>2 DEF PtrInv, PtrTypes
    <3> QED
      BY <2>1, <2>2, <3>1, <3>2, <3>3 DEF Living
  <2>6. CASE o # n
    <3>1. ~ Deleting(t, o)
      BY <2>6 DEF Deleting
    <3>2. \A v \in PtrThreads : Deleting(v, o)' <=> Deleting(v, o)
      BY <2>3, <2>4, <3>1
    <3>3. deletions'[o] = deletions[o] /\ (o \in objectsAlive' <=> o \in objectsAlive)
      BY <1>2, <2>1, <2>6 DEF PtrInv, PtrTypes
    <3> QED
      BY <2>1, <2>2, <3>2, <3>3 DEF Living
  <2> QED
    BY <2>5, <2>6
<1> QED
  BY <1>5, <1>6, <1>7 DEF PtrInv, Counted

LEMMA AttachKeeps ==
  ASSUME Ptr!SharedPtrAssumption, PtrInv, NEW t \in PtrThreads, Ptr!AttachCounter(t)
  PROVE  PtrInv'
<1>. DEFINE n == ptrPc[t].then
            s == ptrPc[t].slot
<1>1. ptrPc[t] \in Detaching /\ ptrPc[t].at = "attach" /\ ptrPc[t] # Ptr!Idle
  BY DEF Ptr!AttachCounter, PtrInv, PtrTypes, Ptr!Idle
<1>2. ptrPc' = [ptrPc EXCEPT ![t] = Ptr!Idle] /\ objectsAlive' = objectsAlive /\ deletions' = deletions /\ objectsMade' = objectsMade
  BY DEF Ptr!AttachCounter
<1>3. s \in Slots /\ ptr[t][s] = 0
  BY <1>1 DEF PtrInv, Assigning, Detaching
<1>4. \A o : \A v \in PtrThreads : Deleting(v, o)' <=> Deleting(v, o)
  BY <1>1, <1>2 DEF Deleting, Ptr!Idle, PtrInv, PtrTypes
<1>5. CASE n = 0
  <2>1. ptr' = ptr /\ ref' = ref
    BY <1>5 DEF Ptr!AttachCounter
  <2>2. PtrTypes'
    BY <1>2, <2>1 DEF PtrInv, PtrTypes, Detaching
  <2>3. Assigning'
    BY <1>2, <2>1 DEF PtrInv, Assigning, PtrTypes
  <2>4. \A o : Ptr!Holders(o)' = Ptr!Holders(o)
    BY <2>1 DEF Ptr!Holders
  <2>5. Counted'
    BY <1>2, <2>1, <2>4 DEF PtrInv, Counted
  <2>6. \A o \in 1 .. objectsMade' : Living(o)'
    BY <1>2, <1>4, <2>4 DEF PtrInv, Living
  <2> QED
    BY <2>2, <2>3, <2>5, <2>6 DEF PtrInv
<1>6. CASE n # 0
  <2>1. ptr' = [ptr EXCEPT ![t][s] = n] /\ ref' = [ref EXCEPT ![n] = @ + 1]
    BY <1>6 DEF Ptr!AttachCounter
  <2>2. PICK from \in Slots : ptr[t][from] = n
    BY <1>1, <1>6 DEF PtrInv, Assigning
  <2>3. n \in 1 .. objectsMade /\ n \in Ptr!Objects /\ n \in objectsAlive /\ \A v \in PtrThreads : ~ Deleting(v, n)
    BY <1>6, <2>2, HeldIsAlive
  <2>4. PtrTypes'
    <3>1. ptr' \in [PtrThreads -> [Slots -> 0 .. objectsMade']]
      <4>1. n \in 0 .. objectsMade /\ PtrTypes /\ Sets(t, s, n)
        BY <2>1, <2>3 DEF PtrInv, Sets
      <4> QED
        BY <1>2, <1>3, <4>1, StaysTyped
    <3>2. ref' \in [Ptr!Objects -> Nat]
      BY <2>1, <2>3 DEF PtrInv, PtrTypes
    <3>3. ptrPc' \in [PtrThreads -> {Ptr!Idle} \cup Detaching']
      BY <1>2 DEF PtrInv, PtrTypes, Detaching
    <3> QED
      BY <1>2, <3>1, <3>2, <3>3 DEF PtrInv, PtrTypes
  <2>5. Assigning'
    <3>. SUFFICES ASSUME NEW v \in PtrThreads, ptrPc'[v] # Ptr!Idle
                  PROVE  /\ ptr'[v][ptrPc'[v].slot] = 0
                         /\ ptrPc'[v].then # 0 => \E f \in Slots : ptr'[v][f] = ptrPc'[v].then
      BY DEF Assigning
    <3>1. v # t /\ ptrPc'[v] = ptrPc[v] /\ ptr'[v] = ptr[v]
      BY <1>2, <2>1 DEF PtrInv, PtrTypes
    <3> QED
      BY <3>1 DEF PtrInv, Assigning
  <2>6. ASSUME NEW o \in 1 .. objectsMade'
        PROVE  ref'[o] = Cardinality(Ptr!Holders(o)') /\ Living(o)'
    <3>1. o # 0 /\ o \in Ptr!Objects /\ o \in 1 .. objectsMade
      BY <1>2 DEF PtrInv, PtrTypes, Ptr!Objects, Ptr!SharedPtrAssumption
    <3>2. /\ Ptr!Holders(o)' = IF o = n THEN Ptr!Holders(o) \cup {<< t, s >>} ELSE Ptr!Holders(o)
          /\ Cardinality(Ptr!Holders(o)') = Cardinality(Ptr!Holders(o)) + (IF o = n THEN 1 ELSE 0)
      <4>1. PtrTypes /\ Sets(t, s, n)
        BY <2>1 DEF PtrInv, Sets
      <4> QED
        BY <1>3, <1>6, <3>1, <4>1, HolderComes
    <3>3. ref[o] = Cardinality(Ptr!Holders(o)) /\ Living(o) /\ ref[o] \in Nat
      BY <3>1 DEF PtrInv, Counted, PtrTypes
    <3>4. ref'[o] = ref[o] + (IF o = n THEN 1 ELSE 0)
      BY <2>1, <3>1, <3>3 DEF PtrInv, PtrTypes
    <3>5. Living(o)'
      BY <1>2, <1>4, <2>3, <3>2, <3>3 DEF Living
    <3> QED
      BY <3>2, <3>3, <3>4, <3>5
  <2> QED
    BY <2>4, <2>5, <2>6 DEF PtrInv, Counted
<1> QED
  BY <1>5, <1>6

\* No step touches the deletions of an object that is not made yet.
LEMMA FreshKeeps ==
  ASSUME Ptr!SharedPtrAssumption, PtrInv, Fresh, [Ptr!Next]_(Ptr!vars)
  PROVE  Fresh'
<1>1. ASSUME NEW t \in PtrThreads, Ptr!Delete(t) PROVE Fresh'
  <2>1. ptrPc[t] \in Detaching
    BY <1>1 DEF Ptr!Delete, PtrInv, PtrTypes, Ptr!Idle
  <2>2. ptrPc[t].o \in 1 .. objectsMade
    BY <2>1 DEF Detaching
  <2>3. \A o \in Ptr!Objects : o > objectsMade => deletions'[o] = deletions[o]
    BY <1>1, <2>2 DEF Ptr!Delete, PtrInv, PtrTypes, Ptr!Objects
  <2>4. objectsMade' = objectsMade
    BY <1>1 DEF Ptr!Delete
  <2> QED
    BY <2>3, <2>4 DEF Fresh
<1>2. ASSUME deletions' = deletions, objectsMade' \in {objectsMade, objectsMade + 1} PROVE Fresh'
  BY <1>2 DEF Fresh, Ptr!Objects, PtrInv, PtrTypes
<1>3. ASSUME NEW t \in PtrThreads, NEW s \in Slots, Ptr!Detach(t, s) PROVE Fresh'
  BY <1>2, <1>3 DEF Ptr!Detach, Ptr!DetachCounter
<1>4. ASSUME NEW t \in PtrThreads, NEW s \in Slots, Ptr!Create(t, s) PROVE Fresh'
  BY <1>2, <1>4 DEF Ptr!Create
<1>5. ASSUME NEW t \in PtrThreads, Ptr!AttachCounter(t) PROVE Fresh'
  BY <1>2, <1>5 DEF Ptr!AttachCounter
<1>6. ASSUME NEW t \in PtrThreads, NEW s \in Slots, NEW from \in Slots,
             \/ Ptr!SharedFromThis(t, s, from)
             \/ \E owner \in PtrThreads : Ptr!BeginCopy(t, s, owner, from)
      PROVE Fresh'
  BY <1>2, <1>6 DEF Ptr!SharedFromThis, Ptr!BeginCopy
<1>7. CASE UNCHANGED Ptr!vars
  BY <1>2, <1>7 DEF Ptr!vars
<1> QED
  BY <1>1, <1>3, <1>4, <1>5, <1>6, <1>7 DEF Ptr!Next

LEMMA PtrStepKeeps ==
  ASSUME Ptr!SharedPtrAssumption, PtrInv, Fresh, Ptr!Next
  PROVE  PtrInv'
<1>1. ASSUME NEW t \in PtrThreads, NEW s \in Slots, Ptr!Detach(t, s) PROVE PtrInv'
  <2>1. CASE Ptr!DetachCounter(t, s, 0)
    BY <2>1, PtrDetachKeeps DEF PtrInv, PtrTypes
  <2>2. ASSUME NEW from \in Slots \ {s}, Ptr!DetachCounter(t, s, ptr[t][from]) PROVE PtrInv'
    <3>1. ptr[t][from] \in 0 .. objectsMade
      BY DEF PtrInv, PtrTypes
    <3> QED
      BY <2>2, <3>1, PtrDetachKeeps
  <2> QED
    BY <1>1, <2>1, <2>2 DEF Ptr!Detach
<1>2. ASSUME NEW t \in PtrThreads, NEW s \in Slots, NEW from \in Slots, Ptr!SharedFromThis(t, s, from)
      PROVE  PtrInv'
  BY <1>2, PtrCopyKeeps DEF Ptr!SharedFromThis
<1>3. ASSUME NEW t \in PtrThreads, NEW s \in Slots, NEW from \in Slots, NEW owner \in PtrThreads,
             Ptr!BeginCopy(t, s, owner, from)
      PROVE  PtrInv'
  BY <1>3, PtrCopyKeeps DEF Ptr!BeginCopy
<1> QED
  BY <1>1, <1>2, <1>3, CreateKeeps, DeleteKeeps, AttachKeeps DEF Ptr!Next

LEMMA PtrStartsWith == Ptr!SharedPtrAssumption /\ Ptr!Init => PtrInv /\ Fresh
<1>. SUFFICES ASSUME Ptr!SharedPtrAssumption, Ptr!Init PROVE PtrInv /\ Fresh
  OBVIOUS
<1>1. PtrTypes /\ Fresh
  BY DEF Ptr!Init, PtrTypes, Fresh, Ptr!Objects, Ptr!SharedPtrAssumption
<1>2. Assigning /\ 1 .. objectsMade = {}
  BY DEF Ptr!Init, Assigning
<1> QED
  BY <1>1, <1>2 DEF PtrInv, Counted

LEMMA PtrKeeps ==
  ASSUME Ptr!SharedPtrAssumption, PtrInv, Fresh, [Ptr!Next]_(Ptr!vars)
  PROVE  PtrInv' /\ Fresh'
<1>1. Fresh'
  BY FreshKeeps
<1>2. CASE Ptr!Next
  BY <1>1, <1>2, PtrStepKeeps
<1>3. CASE UNCHANGED Ptr!vars
  <2>1. PtrTypes' /\ Assigning'
    BY <1>3 DEF Ptr!vars, PtrInv, PtrTypes, Assigning, Detaching
  <2>2. \A o : Ptr!Holders(o)' = Ptr!Holders(o) /\ \A t : Deleting(t, o)' = Deleting(t, o)
    BY <1>3 DEF Ptr!vars, Ptr!Holders, Deleting
  <2>3. Counted' /\ \A o \in 1 .. objectsMade' : Living(o)'
    BY <1>3, <2>2 DEF Ptr!vars, PtrInv, Counted, Living
  <2> QED
    BY <1>1, <2>1, <2>3 DEF PtrInv
<1> QED
  BY <1>2, <1>3

\* The counter is atomic and everything else about a pointer belongs to its
\* thread; that is enough: an object is deleted once, by the thread whose
\* decrement was the last, when nobody holds it (shared_ptr.h, DetachCounter,
\* AttachCounter, the copies and SharedFromThis).
THEOREM SharedObjectsAreDeletedOnce == SafetySpec => []DeletedOnceUnheld
<1>1. Init => PtrInv /\ Fresh
  BY ComponentsAssumption, PtrStartsWith DEF Init, ComponentsAssumption
<1>2. (PtrInv /\ Fresh) /\ [Next]_vars => (PtrInv /\ Fresh)'
  BY ComponentsAssumption, PtrMoves, PtrKeeps DEF ComponentsAssumption
<1>3. PtrInv /\ Fresh => DeletedOnceUnheld
  BY DEF PtrInv, Living, Deleting, DeletedOnceUnheld, Ptr!DeletedOnceUnheld
<1> QED
  BY <1>1, <1>2, <1>3, PTL DEF SafetySpec

-----------------------------------------------------------------------------
(* Semaphore. *)

SemUsers(k) == {p \in inside : semaphoreHandle[p] = k}

SemTypes ==
  /\ opened \in 0 .. MaxOpened
  /\ name \in 0 .. opened
  /\ value \in [Sem!Kernel -> Nat]
  /\ semaphoreHandle \in [Processes -> 0 .. opened]
  /\ inside \subseteq Processes
  /\ \A p \in inside : semaphoreHandle[p] # 0

SemBounded == \A k \in 1 .. opened : value[k] + Cardinality(SemUsers(k)) <= MaxLockCount

SemaphoreInv == SemTypes /\ SemBounded

\* The operators of FiniteSets that Semaphore takes are those taken here.
LEMMA SemProcessesAreFinite == Sem!SemaphoreAssumption => IsFiniteSet(Processes)
BY DEF Sem!SemaphoreAssumption, Sem!IsFiniteSet, IsFiniteSet

LEMMA SemCounts == \A S : Sem!Cardinality(S) = Cardinality(S)
BY DEF Sem!Cardinality, Cardinality

\* What the users of a semaphore are is a finite set (Semaphore.tla, Sem!Lock).
LEMMA SemUsersAreFinite ==
  ASSUME Sem!SemaphoreAssumption, SemTypes, NEW k
  PROVE  IsFiniteSet(SemUsers(k)) /\ Cardinality(SemUsers(k)) \in Nat
<1>1. SemUsers(k) \subseteq Processes
  BY DEF SemUsers, SemTypes
<1>2. IsFiniteSet(SemUsers(k))
  BY <1>1, SemProcessesAreFinite, FS_Subset
<1> QED
  BY <1>2, FS_CardinalityType

\* A step that changes neither who is inside nor which semaphores they use
\* keeps the users of each.
LEMMA SameSemUsers ==
  ASSUME inside' = inside, \A p \in inside : semaphoreHandle'[p] = semaphoreHandle[p], NEW k
  PROVE  SemUsers(k)' = SemUsers(k)
BY DEF SemUsers

LEMMA SemOpenKeeps ==
  ASSUME Sem!SemaphoreAssumption, SemaphoreInv, NEW p \in Processes,
         NEW allowCreate \in BOOLEAN, NEW exclusiveCreate \in BOOLEAN,
         Sem!Open(p, allowCreate, exclusiveCreate)
  PROVE  SemaphoreInv'
<1>1. p \notin inside /\ inside' = inside
  BY DEF Sem!Open, SemaphoreInv, SemTypes
<1>2. CASE name # 0
  <2>1. semaphoreHandle' = [semaphoreHandle EXCEPT ![p] = name] /\ name' = name /\ value' = value /\ opened' = opened
    BY <1>2 DEF Sem!Open
  <2>2. SemTypes'
    BY <1>1, <2>1 DEF SemaphoreInv, SemTypes
  <2>3. \A q \in inside : semaphoreHandle'[q] = semaphoreHandle[q]
    BY <1>1, <2>1 DEF SemaphoreInv, SemTypes
  <2>4. SemBounded'
    BY <1>1, <2>1, <2>3, SameSemUsers DEF SemaphoreInv, SemBounded
  <2> QED
    BY <2>2, <2>4 DEF SemaphoreInv
<1>3. CASE name = 0
  <2>1. /\ opened' = opened + 1 /\ opened < MaxOpened
        /\ name' = opened'
        /\ value' = [value EXCEPT ![opened'] = MaxLockCount]
        /\ semaphoreHandle' = [semaphoreHandle EXCEPT ![p] = opened']
    BY <1>3 DEF Sem!Open
  <2>2. opened' \in Sem!Kernel
    BY <2>1 DEF SemaphoreInv, SemTypes, Sem!Kernel, Sem!SemaphoreAssumption
  <2>3. SemTypes'
    <3>1. opened' \in 0 .. MaxOpened /\ name' \in 0 .. opened'
      BY <2>1 DEF SemaphoreInv, SemTypes, Sem!SemaphoreAssumption
    <3>2. value' \in [Sem!Kernel -> Nat]
      BY <2>1 DEF SemaphoreInv, SemTypes, Sem!SemaphoreAssumption
    <3>3. semaphoreHandle' \in [Processes -> 0 .. opened']
      BY <2>1, <3>1 DEF SemaphoreInv, SemTypes, Sem!SemaphoreAssumption
    <3>4. \A q \in inside : semaphoreHandle'[q] # 0
      BY <1>1, <2>1 DEF SemaphoreInv, SemTypes
    <3> QED
      BY <1>1, <3>1, <3>2, <3>3, <3>4 DEF SemaphoreInv, SemTypes
  <2>4. \A q \in inside : semaphoreHandle'[q] = semaphoreHandle[q]
    BY <1>1, <2>1 DEF SemaphoreInv, SemTypes
  <2>5. ASSUME NEW k \in 1 .. opened'
        PROVE  value'[k] + Cardinality(SemUsers(k)') <= MaxLockCount
    <3>1. SemUsers(k)' = SemUsers(k)
      BY <1>1, <2>4, SameSemUsers
    <3>2. CASE k = opened'
      <4>1. SemUsers(k) = {}
        BY <2>1, <3>2 DEF SemUsers, SemaphoreInv, SemTypes
      <4>2. value'[k] = MaxLockCount
        BY <2>1, <2>2, <3>2 DEF SemaphoreInv, SemTypes
      <4> QED
        BY <3>1, <4>1, <4>2, FS_EmptySet DEF Sem!SemaphoreAssumption
    <3>3. CASE k # opened'
      <4>1. k \in 1 .. opened /\ k \in Sem!Kernel
        BY <2>1, <3>3 DEF SemaphoreInv, SemTypes, Sem!Kernel, Sem!SemaphoreAssumption
      <4>2. value'[k] = value[k]
        BY <2>1, <3>3, <4>1 DEF SemaphoreInv, SemTypes
      <4> QED
        BY <3>1, <4>1, <4>2 DEF SemaphoreInv, SemBounded
    <3> QED
      BY <3>2, <3>3
  <2> QED
    BY <2>3, <2>5 DEF SemaphoreInv, SemBounded
<1> QED
  BY <1>2, <1>3

LEMMA SemLockKeeps ==
  ASSUME Sem!SemaphoreAssumption, SemaphoreInv, NEW p \in Processes, Sem!Lock(p)
  PROVE  SemaphoreInv'
<1>. DEFINE h == semaphoreHandle[p]
<1>1. h \in 1 .. opened /\ h \in Sem!Kernel /\ value[h] \in Nat /\ value[h] > 0
  BY DEF Sem!Lock, SemaphoreInv, SemTypes, Sem!Kernel, Sem!SemaphoreAssumption
<1>2. value' = [value EXCEPT ![h] = @ - 1] /\ inside' = inside \cup {p} /\ p \notin inside
      /\ name' = name /\ opened' = opened /\ semaphoreHandle' = semaphoreHandle
  BY DEF Sem!Lock
<1>3. SemTypes'
  BY <1>1, <1>2 DEF SemaphoreInv, SemTypes
<1>4. ASSUME NEW k \in 1 .. opened'
      PROVE  value'[k] + Cardinality(SemUsers(k)') <= MaxLockCount
  <2>1. k \in Sem!Kernel /\ k \in 1 .. opened
    BY <1>2 DEF SemaphoreInv, SemTypes, Sem!Kernel, Sem!SemaphoreAssumption
  <2>2. /\ value[k] \in Nat /\ IsFiniteSet(SemUsers(k)) /\ Cardinality(SemUsers(k)) \in Nat
        /\ value[k] + Cardinality(SemUsers(k)) <= MaxLockCount
    BY <2>1, SemUsersAreFinite DEF SemaphoreInv, SemTypes, SemBounded
  <2>3. CASE k = h
    <3>1. SemUsers(k)' = SemUsers(k) \cup {p} /\ p \notin SemUsers(k)
      BY <1>2, <2>3 DEF SemUsers
    <3>2. Cardinality(SemUsers(k)') = Cardinality(SemUsers(k)) + 1
      BY <2>2, <3>1, FS_AddElement
    <3>3. value'[k] = value[k] - 1
      BY <1>2, <2>1, <2>3 DEF SemaphoreInv, SemTypes
    <3> QED
      BY <2>2, <3>2, <3>3 DEF Sem!SemaphoreAssumption
  <2>4. CASE k # h
    <3>1. SemUsers(k)' = SemUsers(k)
      BY <1>2, <2>4 DEF SemUsers
    <3>2. value'[k] = value[k]
      BY <1>2, <2>1, <2>4 DEF SemaphoreInv, SemTypes
    <3> QED
      BY <2>2, <3>1, <3>2
  <2> QED
    BY <2>3, <2>4
<1> QED
  BY <1>3, <1>4 DEF SemaphoreInv, SemBounded

\* A process that goes out of its semaphore makes its users one fewer, and
\* leaves those of the others alone.
LEMMA SemUserGoes ==
  ASSUME Sem!SemaphoreAssumption, SemTypes, NEW p \in inside, NEW k,
         inside' = inside \ {p}, \A q \in inside \ {p} : semaphoreHandle'[q] = semaphoreHandle[q]
  PROVE  Cardinality(SemUsers(k)') = Cardinality(SemUsers(k)) - (IF k = semaphoreHandle[p] THEN 1 ELSE 0)
<1>1. IsFiniteSet(SemUsers(k)) /\ Cardinality(SemUsers(k)) \in Nat
  BY SemUsersAreFinite
<1>2. CASE k = semaphoreHandle[p]
  <2>1. SemUsers(k)' = SemUsers(k) \ {p} /\ p \in SemUsers(k)
    BY <1>2 DEF SemUsers
  <2> QED
    BY <1>1, <1>2, <2>1, FS_RemoveElement
<1>3. CASE k # semaphoreHandle[p]
  <2>1. SemUsers(k)' = SemUsers(k)
    BY <1>3 DEF SemUsers
  <2> QED
    BY <1>1, <1>3, <2>1
<1> QED
  BY <1>2, <1>3

LEMMA SemUnlockKeeps ==
  ASSUME Sem!SemaphoreAssumption, SemaphoreInv, NEW p \in Processes, Sem!Unlock(p)
  PROVE  SemaphoreInv'
<1>. DEFINE h == semaphoreHandle[p]
<1>1. p \in inside /\ h \in 1 .. opened /\ h \in Sem!Kernel /\ value[h] \in Nat
  BY DEF Sem!Unlock, SemaphoreInv, SemTypes, Sem!Kernel, Sem!SemaphoreAssumption
<1>2. value' = [value EXCEPT ![h] = @ + 1] /\ inside' = inside \ {p}
      /\ name' = name /\ opened' = opened /\ semaphoreHandle' = semaphoreHandle
  BY DEF Sem!Unlock
<1>3. SemTypes'
  BY <1>1, <1>2 DEF SemaphoreInv, SemTypes
<1>4. ASSUME NEW k \in 1 .. opened'
      PROVE  value'[k] + Cardinality(SemUsers(k)') <= MaxLockCount
  <2>1. k \in Sem!Kernel /\ k \in 1 .. opened
    BY <1>2 DEF SemaphoreInv, SemTypes, Sem!Kernel, Sem!SemaphoreAssumption
  <2>2. /\ value[k] \in Nat /\ Cardinality(SemUsers(k)) \in Nat
        /\ value[k] + Cardinality(SemUsers(k)) <= MaxLockCount
    BY <2>1, SemUsersAreFinite DEF SemaphoreInv, SemTypes, SemBounded
  <2>3. Cardinality(SemUsers(k)') = Cardinality(SemUsers(k)) - (IF k = h THEN 1 ELSE 0)
    BY <1>1, <1>2, SemUserGoes DEF SemaphoreInv
  <2>4. value'[k] = value[k] + (IF k = h THEN 1 ELSE 0)
    BY <1>2, <2>1 DEF SemaphoreInv, SemTypes
  <2> QED
    BY <2>2, <2>3, <2>4 DEF Sem!SemaphoreAssumption
<1> QED
  BY <1>3, <1>4 DEF SemaphoreInv, SemBounded

LEMMA SemDestroyKeeps ==
  ASSUME Sem!SemaphoreAssumption, SemaphoreInv, NEW p \in Processes, Sem!Destroy(p)
  PROVE  SemaphoreInv'
<1>1. SemTypes'
  BY DEF Sem!Destroy, SemaphoreInv, SemTypes, Sem!SemaphoreAssumption
<1>2. inside' = inside /\ \A q \in inside : semaphoreHandle'[q] = semaphoreHandle[q]
  BY DEF Sem!Destroy, SemaphoreInv, SemTypes
<1>3. SemBounded'
  BY <1>2, SameSemUsers DEF Sem!Destroy, SemaphoreInv, SemBounded
<1> QED
  BY <1>1, <1>3 DEF SemaphoreInv

LEMMA SemKilledKeeps ==
  ASSUME Sem!SemaphoreAssumption, SemaphoreInv, NEW p \in Processes, Sem!Killed(p)
  PROVE  SemaphoreInv'
<1>1. SemTypes'
  BY DEF Sem!Killed, SemaphoreInv, SemTypes, Sem!SemaphoreAssumption
<1>2. \A q \in inside \ {p} : semaphoreHandle'[q] = semaphoreHandle[q]
  BY DEF Sem!Killed, SemaphoreInv, SemTypes
<1>3. ASSUME NEW k \in 1 .. opened'
      PROVE  value'[k] + Cardinality(SemUsers(k)') <= MaxLockCount
  <2>1. k \in 1 .. opened /\ k \in Sem!Kernel /\ value' = value
    BY DEF Sem!Killed, SemaphoreInv, SemTypes, Sem!Kernel, Sem!SemaphoreAssumption
  <2>2. /\ value[k] \in Nat /\ Cardinality(SemUsers(k)) \in Nat
        /\ value[k] + Cardinality(SemUsers(k)) <= MaxLockCount
    BY <2>1, SemUsersAreFinite DEF SemaphoreInv, SemTypes, SemBounded
  <2>3. CASE p \in inside
    <3>1. Cardinality(SemUsers(k)') = Cardinality(SemUsers(k)) - (IF k = semaphoreHandle[p] THEN 1 ELSE 0)
      BY <1>2, <2>3, SemUserGoes DEF Sem!Killed, SemaphoreInv
    <3> QED
      BY <2>1, <2>2, <3>1 DEF Sem!SemaphoreAssumption
  <2>4. CASE p \notin inside
    <3>1. SemUsers(k)' = SemUsers(k)
      BY <1>2, <2>4, SameSemUsers DEF Sem!Killed
    <3> QED
      BY <2>1, <2>2, <3>1
  <2> QED
    BY <2>3, <2>4
<1> QED
  BY <1>1, <1>3 DEF SemaphoreInv, SemBounded

LEMMA SemStepKeeps ==
  ASSUME Sem!SemaphoreAssumption, SemaphoreInv, [Sem!Next]_(Sem!vars)
  PROVE  SemaphoreInv'
<1>1. CASE UNCHANGED Sem!vars
  <2>1. SemTypes' /\ \A k : SemUsers(k)' = SemUsers(k)
    BY <1>1 DEF Sem!vars, SemaphoreInv, SemTypes, SemUsers
  <2> QED
    BY <1>1, <2>1 DEF Sem!vars, SemaphoreInv, SemBounded
<1>2. CASE Sem!Next
  BY <1>2, SemOpenKeeps, SemLockKeeps, SemUnlockKeeps, SemDestroyKeeps, SemKilledKeeps DEF Sem!Next
<1> QED
  BY <1>1, <1>2

\* Whatever processes open, enter, leave, destroy and are killed, the posts of
\* each semaphore never exceed its waits (semaphore.cpp: each Unlock posts to
\* the semaphore that its own object has locked, although the name may stand
\* for another one by then).
THEOREM CountIsKept == SafetySpec => []CountKept
<1>. USE ComponentsAssumption
<1>1. Init => SemaphoreInv
  BY DEF Init, Sem!Init, SemaphoreInv, SemTypes, SemBounded, ComponentsAssumption,
         Sem!SemaphoreAssumption, Sem!Kernel
<1>2. SemaphoreInv /\ [Next]_vars => SemaphoreInv'
  BY SemMoves, SemStepKeeps DEF ComponentsAssumption
<1>3. SemaphoreInv => CountKept
  BY SemCounts DEF SemaphoreInv, SemBounded, CountKept, Sem!CountKept, SemUsers
<1> QED
  BY <1>1, <1>2, <1>3, PTL DEF SafetySpec

-----------------------------------------------------------------------------
(* SingleInstance. *)

SingleTypes ==
  /\ m_locked \in [Processes -> BOOLEAN]
  /\ m_fdLock \in [Processes -> Names \cup {Nobody}]
  /\ DOMAIN lockOwner = Names
  /\ \A p \in Processes : m_locked[p] => m_fdLock[p] \in Names

SingleInv == SingleTypes /\ Single!OneInstance

LEMMA TryLockKeeps ==
  ASSUME Single!SingleInstanceAssumption, SingleInv,
         NEW p \in Processes, NEW n \in Names, Single!TryLock(p, n)
  PROVE  SingleInv'
<1>1. /\ ~ m_locked[p] /\ m_fdLock' = [m_fdLock EXCEPT ![p] = n]
      /\ IF lockOwner[n] \in {Nobody, p}
         THEN lockOwner' = [lockOwner EXCEPT ![n] = p] /\ m_locked' = [m_locked EXCEPT ![p] = TRUE]
         ELSE UNCHANGED << m_locked, lockOwner >>
  BY DEF Single!TryLock
<1>2. SingleTypes'
  BY <1>1 DEF SingleInv, SingleTypes
<1>3. ASSUME NEW q \in Processes, m_locked'[q] PROVE lockOwner'[m_fdLock'[q]] = q
  <2>1. CASE q = p
    BY <1>1, <1>3, <2>1 DEF SingleInv, SingleTypes
  <2>2. CASE q # p
    <3>1. m_locked[q] /\ m_fdLock'[q] = m_fdLock[q]
      BY <1>1, <1>3, <2>2 DEF SingleInv, SingleTypes
    <3>2. m_fdLock[q] \in Names /\ lockOwner[m_fdLock[q]] = q
      BY <3>1 DEF SingleInv, SingleTypes, Single!OneInstance
    <3>3. q # Nobody
      BY DEF Single!SingleInstanceAssumption
    <3> QED
      BY <1>1, <2>2, <3>1, <3>2, <3>3 DEF SingleInv, SingleTypes
  <2> QED
    BY <2>1, <2>2
<1> QED
  BY <1>2, <1>3 DEF SingleInv, Single!OneInstance

LEMMA ReleaseKeeps ==
  ASSUME Single!SingleInstanceAssumption, SingleInv, NEW p \in Processes, Single!Release(p)
  PROVE  SingleInv'
<1>1. /\ m_locked[p] /\ m_fdLock' = [m_fdLock EXCEPT ![p] = Nobody]
      /\ m_locked' = [m_locked EXCEPT ![p] = FALSE]
      /\ lockOwner' = [lockOwner EXCEPT ![m_fdLock[p]] = IF @ = p THEN Nobody ELSE @]
  BY DEF Single!Release
<1>2. SingleTypes'
  BY <1>1 DEF SingleInv, SingleTypes
<1>3. ASSUME NEW q \in Processes, m_locked'[q] PROVE lockOwner'[m_fdLock'[q]] = q
  <2>1. q # p /\ m_locked[q] /\ m_fdLock'[q] = m_fdLock[q]
    BY <1>1, <1>3 DEF SingleInv, SingleTypes
  <2>2. m_fdLock[q] \in Names /\ lockOwner[m_fdLock[q]] = q
    BY <2>1 DEF SingleInv, SingleTypes, Single!OneInstance
  <2> QED
    BY <1>1, <2>1, <2>2 DEF SingleInv, SingleTypes
<1> QED
  BY <1>2, <1>3 DEF SingleInv, Single!OneInstance

LEMMA InstanceKilledKeeps ==
  ASSUME Single!SingleInstanceAssumption, SingleInv, NEW p \in Processes, Single!Killed(p)
  PROVE  SingleInv'
<1>1. /\ m_fdLock' = [m_fdLock EXCEPT ![p] = Nobody]
      /\ m_locked' = [m_locked EXCEPT ![p] = FALSE]
      /\ lockOwner' = [n \in Names |-> IF lockOwner[n] = p THEN Nobody ELSE lockOwner[n]]
  BY DEF Single!Killed
<1>2. SingleTypes'
  BY <1>1 DEF SingleInv, SingleTypes
<1>3. ASSUME NEW q \in Processes, m_locked'[q] PROVE lockOwner'[m_fdLock'[q]] = q
  <2>1. q # p /\ m_locked[q] /\ m_fdLock'[q] = m_fdLock[q]
    BY <1>1, <1>3 DEF SingleInv, SingleTypes
  <2>2. m_fdLock[q] \in Names /\ lockOwner[m_fdLock[q]] = q
    BY <2>1 DEF SingleInv, SingleTypes, Single!OneInstance
  <2> QED
    BY <1>1, <2>1, <2>2 DEF SingleInv, SingleTypes
<1> QED
  BY <1>2, <1>3 DEF SingleInv, Single!OneInstance

\* Of the processes that try the lock of a name at most one believes it has it,
\* the one that the kernel keeps it for (single_instance.cpp: TryLock, Release,
\* and the kernel, which cleans up after a process that is killed).
THEOREM OneInstanceRuns == SafetySpec => []OneInstance
<1>1. Init => SingleInv
  BY DEF Init, Single!Init, SingleInv, SingleTypes, Single!OneInstance
<1>2. SingleInv /\ [Next]_vars => SingleInv'
  <2>. SUFFICES ASSUME SingleInv, [Single!Next]_(Single!vars) PROVE SingleInv'
    BY SingleMoves
  <2>1. CASE UNCHANGED Single!vars
    BY <2>1 DEF Single!vars, SingleInv, SingleTypes, Single!OneInstance
  <2>2. CASE Single!Next
    BY <2>2, ComponentsAssumption, TryLockKeeps, ReleaseKeeps, InstanceKilledKeeps
       DEF Single!Next, ComponentsAssumption
  <2> QED
    BY <2>1, <2>2
<1>3. SingleInv => OneInstance
  BY DEF SingleInv, OneInstance
<1> QED
  BY <1>1, <1>2, <1>3, PTL DEF SafetySpec

-----------------------------------------------------------------------------
(* Natural numbers: a set of them has a least one, and one that holds 0    *)
(* and, with each, the next, holds them all.                               *)

LEMMA LeastNumber ==
  ASSUME NEW T, T \subseteq Nat, T # {}
  PROVE  \E x \in T : \A y \in T : x =< y
<1>. DEFINE Less == OpToRel(<, Nat)
<1>1. IsWellFoundedOn(Less, Nat)
  BY NatLessThanWellFounded
<1>2. \A x, y \in Nat : <<x, y>> \in Less <=> x < y
  BY DEF OpToRel
<1>. HIDE DEF Less
<1>3. PICK x \in T : \A y \in T : ~ (<<y, x>> \in Less)
  BY <1>1, WFMin
<1>4. \A y \in T : ~ (y < x)
  BY <1>2, <1>3
<1>5. \A y \in T : x =< y
  <2>. TAKE y \in T
  <2>1. x \in Nat /\ y \in Nat /\ ~ (y < x)
    BY <1>4
  <2> QED
    BY <2>1
<1> QED
  BY <1>5

-----------------------------------------------------------------------------
(* WatchSupport. *)

WatchTypes ==
  /\ m_watchersInvoker \in Nat
  /\ handleSlots \in Seq({handleSlots[i] : i \in 1 .. Len(handleSlots)})
  /\ waitableHandleIndexList \subseteq Nat
  /\ DOMAIN watchPc = WatchClients \cup {Loop}

\* The index of the invoker is in a batch, or handled, for a byte of its pipe.
InvokerSeen ==
  /\ watchPc[Loop] = "batch" => waitableHandleIndexList # {}
  /\ Watch!InvokerIndex \in waitableHandleIndexList \/ watchPc[Loop] = "invoker" => m_watchersInvoker > 0
  /\ watchPc[Loop] = "invoker" => Watch!InvokerIndex \notin waitableHandleIndexList

\* What the loop changed itself it takes up before it selects again.
DirectIsDue == m_directInvoke => watchPc[Loop] \in {"handler", "callback", "listeners", "direct"}

ListIsCurrent ==
  watchPc[Loop] # "start" /\ ~ m_directInvoke /\ m_watchersInvoker = 0 =>
    SubSeq(handleSlots, 1, handleCount) = Watch!WaitableWatcherHandles

WatchInv == WatchTypes /\ InvokerSeen /\ DirectIsDue /\ ListIsCurrent

LEMMA ListedAreFinite ==
  ASSUME Watch!WatchAssumption
  PROVE  IsFiniteSet(Watch!Listened) /\ Cardinality(Watch!Listened) \in Nat
<1>1. IsFiniteSet(Watch!Handles)
  BY FS_Interval DEF Watch!WatchAssumption, Watch!Handles
<1>2. IsFiniteSet({"Read", "Write"})
  <2>1. IsFiniteSet({"Read"})
    BY FS_Singleton
  <2>2. {"Read", "Write"} = {"Read"} \cup {"Write"}
    OBVIOUS
  <2> QED
    BY <2>1, <2>2, FS_AddElement
<1>3. IsFiniteSet(Modes)
  BY <1>2, FS_Subset DEF Watch!WatchAssumption
<1>4. IsFiniteSet(Watch!Pairs)
  BY <1>1, <1>3, FS_Product DEF Watch!Pairs
<1>5. Watch!Listened \subseteq Watch!Pairs
  BY DEF Watch!Listened
<1> QED
  BY <1>4, <1>5, FS_Subset, FS_CardinalityType

\* The list is a sequence, whatever the map is.
LEMMA HandlesAreListed ==
  ASSUME Watch!WatchAssumption
  PROVE  Watch!WaitableWatcherHandles \in
           Seq({Watch!WaitableWatcherHandles[i] : i \in 1 .. Len(Watch!WaitableWatcherHandles)})
<1>. DEFINE n == Cardinality(Watch!Listened)
            W == Watch!WaitableWatcherHandles
            F(i) == CHOOSE p \in Watch!Listened :
                      Watch!Cardinality({q \in Watch!Listened : Watch!Before(q, p)}) = i - 1
<1>1. n \in Nat /\ Watch!Cardinality(Watch!Listened) = n
  BY ListedAreFinite DEF Watch!Cardinality, Cardinality
<1>2. DOMAIN W = 1 .. n /\ W = [i \in 1 .. n |-> W[i]]
  <2>1. W = [i \in 1 .. n |-> F(i)]
    BY <1>1 DEF Watch!WaitableWatcherHandles
  <2>. HIDE DEF F, W, n
  <2> QED
    BY <2>1
<1>3. Len(W) = n
  BY <1>1, <1>2
<1>. HIDE DEF W, n
<1>4. W \in [1 .. n -> {W[i] : i \in 1 .. n}]
  BY <1>2
<1> QED
  BY <1>1, <1>3, <1>4 DEF W

\* Behind the end of the shorter list nothing of it is read.
LEMMA FrontOfConcat ==
  ASSUME NEW S, NEW T, NEW a \in Seq(S), NEW b \in Seq(T)
  PROVE  /\ SubSeq(a \o b, 1, Len(a)) = a
         /\ a \o b \in Seq({(a \o b)[i] : i \in 1 .. Len(a \o b)})
<1>1. a \in Seq(S \cup T) /\ b \in Seq(S \cup T)
  OBVIOUS
<1>2. a \o b \in Seq(S \cup T) /\ Len(a \o b) = Len(a) + Len(b)
  BY <1>1
<1>3. \A i \in 1 .. Len(a) : (a \o b)[i] = a[i]
  BY <1>1
<1>4. SubSeq(a \o b, 1, Len(a)) = a
  <2>1. /\ SubSeq(a \o b, 1, Len(a)) \in Seq(S \cup T)
        /\ Len(SubSeq(a \o b, 1, Len(a))) = Len(a)
        /\ \A i \in 1 .. Len(a) : SubSeq(a \o b, 1, Len(a))[i] = (a \o b)[i]
    BY <1>2
  <2> QED
    BY <1>1, <1>3, <2>1
<1>5. ASSUME NEW c \in Seq(S \cup T) PROVE c \in Seq({c[i] : i \in 1 .. Len(c)})
  OBVIOUS
<1> QED
  BY <1>2, <1>4, <1>5

LEMMA ListIsRefilled ==
  ASSUME Watch!WatchAssumption, WatchTypes, Watch!Refill, m_watchersMap' = m_watchersMap
  PROVE  /\ SubSeq(handleSlots', 1, handleCount') = Watch!WaitableWatcherHandles'
         /\ handleSlots' \in Seq({handleSlots'[i] : i \in 1 .. Len(handleSlots')})
<1>. DEFINE W == Watch!WaitableWatcherHandles
            S == {W[i] : i \in 1 .. Len(W)}
            T == {handleSlots[i] : i \in 1 .. Len(handleSlots)}
            rest == SubSeq(handleSlots, Len(W) + 1, Len(handleSlots))
<1>1. W' = W
  BY DEF Watch!WaitableWatcherHandles, Watch!Listened
<1>2. handleCount' = Len(W) /\ handleSlots' = W \o rest
  BY DEF Watch!Refill
<1>3. W \in Seq(S) /\ rest \in Seq(T)
  <2>1. W \in Seq(S)
    BY HandlesAreListed
  <2>2. handleSlots \in Seq(T)
    BY DEF WatchTypes
  <2>. HIDE DEF W, S, T
  <2>3. Len(W) + 1 \in 1 .. Len(W) + 1 /\ Len(W) \in Nat
    BY <2>1
  <2>4. rest \in Seq(T)
    BY <2>2, <2>3
  <2> QED
    BY <2>1, <2>4
<1>. HIDE DEF W, S, T, rest
<1>4. SubSeq(W \o rest, 1, Len(W)) = W /\ W \o rest \in Seq({(W \o rest)[i] : i \in 1 .. Len(W \o rest)})
  BY <1>3, FrontOfConcat
<1> QED
  BY <1>1, <1>2, <1>4 DEF W

LEMMA ListKeeps ==
  ASSUME Watch!WatchAssumption, WatchInv,
         UNCHANGED << m_watchersMap, m_watchersInvoker, m_directInvoke, handleSlots, handleCount >>,
         watchPc'[Loop] # "start" => watchPc[Loop] # "start"
  PROVE  ListIsCurrent'
<1>1. Watch!WaitableWatcherHandles' = Watch!WaitableWatcherHandles
  BY DEF Watch!WaitableWatcherHandles, Watch!Listened
<1> QED
  BY <1>1 DEF WatchInv, ListIsCurrent

\* The place the loop goes to leaves the others where they are.
LEMMA LoopGoes ==
  ASSUME WatchTypes, NEW place, Watch!Goto(Loop, place)
  PROVE  watchPc'[Loop] = place /\ DOMAIN watchPc' = WatchClients \cup {Loop}
BY DEF WatchTypes, Watch!Goto

LEMMA LoopChangeKeeps ==
  ASSUME Watch!WatchAssumption, WatchInv, Watch!LoopChange
  PROVE  WatchInv'
<1>1. m_directInvoke' = TRUE /\ watchPc[Loop] \in {"handler", "callback"}
      /\ UNCHANGED << watchPc, m_watchersInvoker, handleSlots, handleCount, waitableHandleIndexList >>
  BY DEF Watch!LoopChange, Watch!syncVars, Watch!listVars
<1> QED
  BY <1>1 DEF WatchInv, WatchTypes, InvokerSeen, DirectIsDue, ListIsCurrent

LEMMA ClientChangeKeeps ==
  ASSUME Watch!WatchAssumption, WatchInv, NEW c \in WatchClients, Watch!ClientChange(c)
  PROVE  WatchInv'
<1>1. UNCHANGED << m_directInvoke, handleSlots, handleCount, waitableHandleIndexList >>
  BY DEF Watch!ClientChange, Watch!listVars
<1>2. watchPc'[Loop] = watchPc[Loop] /\ DOMAIN watchPc' = DOMAIN watchPc
  BY DEF Watch!ClientChange, Watch!Goto, WatchInv, WatchTypes, Watch!WatchAssumption
<1>3. CASE m_watchersInvoker' = m_watchersInvoker + 1
  BY <1>1, <1>2, <1>3 DEF WatchInv, WatchTypes, InvokerSeen, DirectIsDue, ListIsCurrent
<1>4. CASE UNCHANGED << m_watchersInvoker, m_watchersMap >>
  <2>1. ListIsCurrent'
    BY <1>1, <1>2, <1>4, ListKeeps
  <2> QED
    BY <1>1, <1>2, <1>4, <2>1 DEF WatchInv, WatchTypes, InvokerSeen, DirectIsDue
<1> QED
  BY <1>3, <1>4 DEF Watch!ClientChange, Watch!mapVars

LEMMA StartExecKeeps ==
  ASSUME Watch!WatchAssumption, WatchInv, Watch!StartExec
  PROVE  WatchInv'
<1>1. /\ watchPc[Loop] = "start" /\ Watch!Refill
      /\ UNCHANGED << m_watchersMap, m_watchersInvoker, m_directInvoke, waitableHandleIndexList >>
      /\ watchPc'[Loop] = "select" /\ DOMAIN watchPc' = WatchClients \cup {Loop}
  BY LoopGoes DEF Watch!StartExec, Watch!mapVars, Watch!syncVars, WatchInv
<1>2. ListIsCurrent' /\ handleSlots' \in Seq({handleSlots'[i] : i \in 1 .. Len(handleSlots')})
  BY <1>1, ListIsRefilled DEF ListIsCurrent, WatchInv
<1> QED
  BY <1>1, <1>2 DEF WatchInv, WatchTypes, InvokerSeen, DirectIsDue

LEMMA SelectKeeps ==
  ASSUME Watch!WatchAssumption, WatchInv, Watch!Select
  PROVE  WatchInv'
<1>1. /\ watchPc[Loop] = "select"
      /\ UNCHANGED << m_watchersMap, m_watchersInvoker, m_directInvoke, handleSlots, handleCount >>
      /\ watchPc'[Loop] = "batch" /\ DOMAIN watchPc' = WatchClients \cup {Loop}
  BY LoopGoes DEF Watch!Select, Watch!mapVars, Watch!syncVars, Watch!listVars, WatchInv
<1>2. /\ waitableHandleIndexList' # {}
      /\ waitableHandleIndexList' \subseteq Nat
      /\ Watch!InvokerIndex \in waitableHandleIndexList' => m_watchersInvoker > 0
  BY DEF Watch!Select, Watch!WatchIndex, Watch!FirstWatch, Watch!InvokerIndex, Watch!EventIndex
<1>3. ListIsCurrent'
  BY <1>1, ListKeeps
<1> QED
  BY <1>1, <1>2, <1>3 DEF WatchInv, WatchTypes, InvokerSeen, DirectIsDue

\* The index that is taken is one of the batch, which keeps its others.
LEMMA IndexIsTaken ==
  ASSUME WatchTypes, InvokerSeen, NEW i, Watch!TakeIndex(i)
  PROVE  /\ watchPc[Loop] = "batch" /\ i \in waitableHandleIndexList
         /\ waitableHandleIndexList' = waitableHandleIndexList \ {i}
<1>1. watchPc[Loop] = "batch" /\ i = Watch!Min(waitableHandleIndexList)
      /\ waitableHandleIndexList' = waitableHandleIndexList \ {i}
  BY DEF Watch!TakeIndex
<1>2. \E x \in waitableHandleIndexList : \A y \in waitableHandleIndexList : x =< y
  BY <1>1, LeastNumber DEF WatchTypes, InvokerSeen
<1> QED
  BY <1>1, <1>2 DEF Watch!Min

LEMMA HandleInvokerKeeps ==
  ASSUME Watch!WatchAssumption, WatchInv, Watch!HandleInvoker
  PROVE  WatchInv'
<1>1. /\ UNCHANGED << m_watchersMap, m_watchersInvoker, m_directInvoke, handleSlots, handleCount >>
      /\ watchPc'[Loop] = "invoker" /\ DOMAIN watchPc' = WatchClients \cup {Loop}
  BY LoopGoes DEF Watch!HandleInvoker, Watch!mapVars, Watch!syncVars, Watch!listVars, WatchInv
<1>2. /\ watchPc[Loop] = "batch" /\ Watch!InvokerIndex \in waitableHandleIndexList
      /\ waitableHandleIndexList' = waitableHandleIndexList \ {Watch!InvokerIndex}
  BY IndexIsTaken DEF Watch!HandleInvoker, WatchInv
<1>3. ListIsCurrent'
  BY <1>1, <1>2, ListKeeps
<1> QED
  BY <1>1, <1>2, <1>3 DEF WatchInv, WatchTypes, InvokerSeen, DirectIsDue

LEMMA UpdateListKeeps ==
  ASSUME Watch!WatchAssumption, WatchInv, Watch!UpdateList
  PROVE  WatchInv'
<1>. DEFINE committed == IF watchPc[Loop] = "invoker" THEN 1 ELSE 0
<1>1. /\ watchPc[Loop] = "invoker" \/ (watchPc[Loop] = "direct" /\ m_directInvoke)
      /\ Watch!Refill
      /\ m_directInvoke' = (watchPc[Loop] = "invoker" /\ m_directInvoke)
      /\ m_watchersInvoker' = m_watchersInvoker - committed
      /\ UNCHANGED << m_watchersMap, waitableHandleIndexList >>
      /\ watchPc'[Loop] = Watch!AfterIndex /\ DOMAIN watchPc' = WatchClients \cup {Loop}
  BY LoopGoes DEF Watch!UpdateList, Watch!mapVars, WatchInv
<1>2. m_watchersInvoker' \in Nat
      /\ (Watch!InvokerIndex \in waitableHandleIndexList => m_watchersInvoker' > 0)
  BY <1>1 DEF WatchInv, WatchTypes, InvokerSeen
<1>3. ~ m_directInvoke'
  BY <1>1 DEF WatchInv, DirectIsDue
<1>4. ListIsCurrent' /\ handleSlots' \in Seq({handleSlots'[i] : i \in 1 .. Len(handleSlots')})
  BY <1>1, ListIsRefilled DEF ListIsCurrent, WatchInv
<1> QED
  BY <1>1, <1>2, <1>3, <1>4 DEF WatchInv, WatchTypes, InvokerSeen, DirectIsDue, Watch!AfterIndex

\* Steps that leave the list and the invoker alone, on the way from one place
\* of the loop to another.
LEMMA PlaceKeeps ==
  ASSUME Watch!WatchAssumption, WatchInv, NEW place,
         Watch!Goto(Loop, place),
         UNCHANGED << m_watchersMap, m_watchersInvoker, m_directInvoke, handleSlots, handleCount >>,
         watchPc[Loop] # "start" /\ place # "invoker",
         waitableHandleIndexList' \subseteq waitableHandleIndexList,
         place = "batch" => waitableHandleIndexList' # {},
         m_directInvoke => place \in {"handler", "callback", "listeners", "direct"}
  PROVE  WatchInv'
<1>1. watchPc'[Loop] = place /\ DOMAIN watchPc' = WatchClients \cup {Loop}
  BY LoopGoes DEF WatchInv
<1>2. ListIsCurrent'
  BY <1>1, ListKeeps
<1> QED
  BY <1>1, <1>2 DEF WatchInv, WatchTypes, InvokerSeen, DirectIsDue

LEMMA LoopStepKeeps ==
  ASSUME Watch!WatchAssumption, WatchInv, Watch!LoopStep
  PROVE  WatchInv'
<1>1. CASE Watch!HandleEvent
  <2>1. watchPc[Loop] = "batch" /\ waitableHandleIndexList' = waitableHandleIndexList \ {Watch!EventIndex}
    BY <1>1, IndexIsTaken DEF Watch!HandleEvent, WatchInv
  <2> QED
    BY <1>1, <2>1, PlaceKeeps DEF Watch!HandleEvent, Watch!mapVars, Watch!syncVars, Watch!listVars
<1>2. CASE Watch!EndHandler
  BY <1>2, PlaceKeeps DEF Watch!EndHandler, Watch!mapVars, Watch!syncVars, Watch!listVars
<1>3. CASE Watch!NoDirectInvoker
  BY <1>3, PlaceKeeps DEF Watch!NoDirectInvoker, Watch!AfterIndex, Watch!mapVars, Watch!syncVars, Watch!listVars
<1>4. CASE Watch!HandleWatcher
  <2>1. PICK k : Watch!TakeIndex(Watch!WatchIndex(k))
    BY <1>4 DEF Watch!HandleWatcher
  <2>2. watchPc[Loop] = "batch" /\ waitableHandleIndexList' \subseteq waitableHandleIndexList
    BY <2>1, IndexIsTaken DEF WatchInv
  <2> QED
    BY <1>4, <2>2, PlaceKeeps DEF Watch!HandleWatcher, Watch!mapVars, Watch!syncVars, Watch!listVars
<1>5. CASE Watch!NextListener
  <2>1. CASE watchPc' = watchPc
    <3>1. UNCHANGED << m_watchersMap, m_watchersInvoker, m_directInvoke, handleSlots, handleCount,
                       waitableHandleIndexList >>
      BY <1>5 DEF Watch!NextListener, Watch!mapVars, Watch!syncVars, Watch!listVars
    <3>2. ListIsCurrent'
      BY <2>1, <3>1, ListKeeps
    <3> QED
      BY <2>1, <3>1, <3>2 DEF WatchInv, WatchTypes, InvokerSeen, DirectIsDue
  <2>2. CASE Watch!Goto(Loop, "callback")
    BY <1>5, <2>2, PlaceKeeps DEF Watch!NextListener, Watch!mapVars, Watch!syncVars, Watch!listVars
  <2> QED
    BY <1>5, <2>1, <2>2 DEF Watch!NextListener
<1>6. CASE Watch!EndCallback
  BY <1>6, PlaceKeeps DEF Watch!EndCallback, Watch!mapVars, Watch!syncVars, Watch!listVars
<1>7. CASE Watch!EndHandleWatcher
  BY <1>7, PlaceKeeps DEF Watch!EndHandleWatcher, Watch!mapVars, Watch!listVars
<1> QED
  BY <1>1, <1>2, <1>3, <1>4, <1>5, <1>6, <1>7, StartExecKeeps, SelectKeeps, HandleInvokerKeeps,
     UpdateListKeeps, LoopChangeKeeps DEF Watch!LoopStep

LEMMA WatchStepKeeps ==
  ASSUME Watch!WatchAssumption, WatchInv, [Watch!Next]_(Watch!vars)
  PROVE  WatchInv'
<1>1. CASE Watch!Signal \/ Watch!PostEvent \/ UNCHANGED Watch!vars
  <2>1. UNCHANGED << m_watchersMap, m_watchersInvoker, m_directInvoke, handleSlots, handleCount,
                     waitableHandleIndexList, watchPc >>
    BY <1>1 DEF Watch!Signal, Watch!PostEvent, Watch!vars, Watch!mapVars, Watch!syncVars, Watch!listVars
  <2>2. ListIsCurrent'
    BY <2>1, ListKeeps
  <2> QED
    BY <2>1, <2>2 DEF WatchInv, WatchTypes, InvokerSeen, DirectIsDue
<1> QED
  BY <1>1, LoopStepKeeps, ClientChangeKeeps DEF Watch!Next

LEMMA WatchMoves == [Next]_vars => [Watch!Next]_(Watch!vars)
BY DEF Next, Only, Is, vars, watchVars, Watch!vars, Watch!mapVars, Watch!syncVars, Watch!listVars,
       Watch!callVars, Watch!envVars

\* The loop never selects on an outdated list without a byte in the invoker's
\* pipe: what it changed itself it takes up at the end of the same index of the
\* batch, and what a client changes is announced (thread.cpp: Exec,
\* waitable_handle_watch_support.cpp: CommitInvoker), whatever the indices, the
\* handlers and the clients do meanwhile.
THEOREM CurrentListIsSelected == SafetySpec => []SelectsCurrentList
<1>. USE ComponentsAssumption
<1>1. Init => WatchInv
  BY DEF Init, Watch!Init, WatchInv, WatchTypes, InvokerSeen, DirectIsDue, ListIsCurrent,
         ComponentsAssumption, Watch!InvokerIndex
<1>2. WatchInv /\ [Next]_vars => WatchInv'
  BY WatchMoves, WatchStepKeeps DEF ComponentsAssumption
<1>3. WatchInv => SelectsCurrentList
  BY DEF WatchInv, ListIsCurrent, DirectIsDue, SelectsCurrentList, Watch!SelectsCurrentList
<1> QED
  BY <1>1, <1>2, <1>3, PTL DEF SafetySpec

-----------------------------------------------------------------------------
(* StreamCopy.  The bytes are numbered as they are written, so each of the *)
(* four places they can be in holds a stretch of the numbers.              *)

Stretch(s, from) == \A i \in 1 .. Len(s) : s[i] = from + i

CopyTypes ==
  /\ copyReceived \in Seq(Nat) /\ outPipe \in Seq(Nat) /\ buffer \in Seq(Nat) /\ inPipe \in Seq(Nat)
  /\ written \in Nat /\ copyPc \in {"read", "write", "done", "failed"}

InPlaces ==
  /\ written = Len(copyReceived) + Len(outPipe) + Len(buffer) + Len(inPipe)
  /\ Stretch(copyReceived, 0) /\ Stretch(outPipe, Len(copyReceived))
  /\ Stretch(buffer, Len(copyReceived) + Len(outPipe))
  /\ Stretch(inPipe, Len(copyReceived) + Len(outPipe) + Len(buffer))

\* Where the loops of Copy are, and what is left to copy.
InLoops ==
  /\ copyPc = "read" => buffer = <<>>
  /\ limit = Nobody => bytesLeft = Nobody /\ (copyPc = "done" => inClosed /\ inPipe = <<>> /\ buffer = <<>>)
  /\ limit # Nobody =>
       /\ limit \in Nat /\ bytesLeft \in Nat /\ Len(buffer) <= bytesLeft
       /\ limit = Len(copyReceived) + Len(outPipe) + bytesLeft
       /\ copyPc = "done" => bytesLeft = 0

CopyInv == CopyTypes /\ InPlaces /\ InLoops

\* A sequence is cut into a front and a rest.
LEMMA CutInTwo ==
  ASSUME NEW s \in Seq(Nat), NEW n \in Nat, n <= Len(s)
  PROVE  /\ SubSeq(s, 1, n) \in Seq(Nat) /\ Len(SubSeq(s, 1, n)) = n
         /\ SubSeq(s, n + 1, Len(s)) \in Seq(Nat) /\ Len(SubSeq(s, n + 1, Len(s))) = Len(s) - n
         /\ \A i \in 1 .. n : SubSeq(s, 1, n)[i] = s[i]
         /\ \A i \in 1 .. Len(s) - n : SubSeq(s, n + 1, Len(s))[i] = s[n + i]
<1>1. Len(s) \in Nat /\ Len(s) - n \in Nat
  OBVIOUS
<1>2. /\ SubSeq(s, 1, n) \in Seq(Nat) /\ Len(SubSeq(s, 1, n)) = n
      /\ \A i \in 1 .. n : SubSeq(s, 1, n)[i] = s[i]
  BY <1>1
<1>3. SubSeq(s, n + 1, Len(s)) \in Seq(Nat) /\ Len(SubSeq(s, n + 1, Len(s))) = Len(s) - n
  BY <1>1
<1>4. ASSUME NEW i \in 1 .. Len(s) - n PROVE SubSeq(s, n + 1, Len(s))[i] = s[n + i]
  BY <1>1
<1> QED
  BY <1>2, <1>3, <1>4

LEMMA PutTogether ==
  ASSUME NEW s \in Seq(Nat), NEW t \in Seq(Nat)
  PROVE  /\ s \o t \in Seq(Nat) /\ Len(s \o t) = Len(s) + Len(t)
         /\ \A i \in 1 .. Len(s) : (s \o t)[i] = s[i]
         /\ \A i \in 1 .. Len(t) : (s \o t)[Len(s) + i] = t[i]
OBVIOUS

LEMMA StretchCut ==
  ASSUME NEW s \in Seq(Nat), NEW from \in Nat, Stretch(s, from), NEW n \in Nat, n <= Len(s)
  PROVE  Stretch(SubSeq(s, 1, n), from) /\ Stretch(SubSeq(s, n + 1, Len(s)), from + n)
<1>1. \A i \in 1 .. n : i \in 1 .. Len(s) /\ SubSeq(s, 1, n)[i] = from + i
  BY CutInTwo DEF Stretch
<1>2. ASSUME NEW i \in 1 .. Len(s) - n PROVE SubSeq(s, n + 1, Len(s))[i] = (from + n) + i
  <2>1. SubSeq(s, n + 1, Len(s))[i] = s[n + i]
    BY CutInTwo
  <2>2. Len(s) \in Nat /\ n + i \in 1 .. Len(s)
    OBVIOUS
  <2>3. n + i \in 1 .. Len(s) /\ SubSeq(s, n + 1, Len(s))[i] = s[n + i]
    BY <2>1, <2>2
  <2>4. s[n + i] = from + (n + i)
    BY <2>3 DEF Stretch
  <2> QED
    BY <2>3, <2>4
<1> QED
  BY <1>1, <1>2, CutInTwo DEF Stretch

LEMMA StretchesMeet ==
  ASSUME NEW s \in Seq(Nat), NEW t \in Seq(Nat), NEW from \in Nat,
         Stretch(s, from), Stretch(t, from + Len(s))
  PROVE  Stretch(s \o t, from)
<1>. SUFFICES ASSUME NEW i \in 1 .. Len(s \o t) PROVE (s \o t)[i] = from + i
  BY DEF Stretch
<1>1. Len(s \o t) = Len(s) + Len(t) /\ Len(s) \in Nat /\ Len(t) \in Nat
  BY PutTogether
<1>2. CASE i <= Len(s)
  BY <1>1, <1>2, PutTogether DEF Stretch
<1>3. CASE i > Len(s)
  <2>1. i - Len(s) \in 1 .. Len(t) /\ i = Len(s) + (i - Len(s))
    BY <1>1, <1>3
  <2>2. (s \o t)[i] = t[i - Len(s)]
    BY <2>1, PutTogether
  <2> QED
    BY <1>1, <2>1, <2>2 DEF Stretch
<1> QED
  BY <1>1, <1>2, <1>3

LEMMA CopyTakes ==
  ASSUME Copy!StreamCopyAssumption, CopyInv, NEW count \in Nat, Copy!ReadBytes(count)
  PROVE  CopyInv'
<1>1. /\ copyPc = "read" /\ inPipe # <<>> /\ count \in 1 .. Copy!LeastOf(Copy!Wanted, Len(inPipe))
      /\ buffer' = SubSeq(inPipe, 1, count) /\ inPipe' = SubSeq(inPipe, count + 1, Len(inPipe))
      /\ copyPc' = "write"
      /\ UNCHANGED << kind, limit, bytesLeft, written, inClosed, outPipe, copyReceived, outClosed >>
  BY DEF Copy!ReadBytes, Copy!outVars
<1>2. buffer = <<>> /\ Len(buffer) = 0 /\ inPipe \in Seq(Nat) /\ Len(inPipe) \in Nat
  BY <1>1 DEF CopyInv, CopyTypes, InLoops
<1>3. count > 0 /\ count <= Len(inPipe) /\ (limit # Nobody => count <= bytesLeft)
  <2>1. Copy!Wanted \in Nat /\ (limit # Nobody => bytesLeft \in Nat /\ Copy!Wanted <= bytesLeft)
    BY DEF CopyInv, InLoops, Copy!Wanted, Copy!LeastOf, Copy!StreamCopyAssumption
  <2> QED
    BY <1>1, <1>2, <2>1 DEF Copy!LeastOf
<1>4. /\ buffer' \in Seq(Nat) /\ Len(buffer') = count
      /\ inPipe' \in Seq(Nat) /\ Len(inPipe') = Len(inPipe) - count
  BY <1>1, <1>2, <1>3, CutInTwo
<1>5. Len(copyReceived) \in Nat /\ Len(outPipe) \in Nat /\ Len(copyReceived) + Len(outPipe) \in Nat
  BY DEF CopyInv, CopyTypes
<1>6. /\ Stretch(buffer', Len(copyReceived) + Len(outPipe))
      /\ Stretch(inPipe', Len(copyReceived) + Len(outPipe) + count)
  <2>1. Stretch(inPipe, Len(copyReceived) + Len(outPipe))
    BY <1>2, <1>5 DEF CopyInv, InPlaces
  <2> QED
    BY <1>1, <1>2, <1>3, <1>5, <2>1, StretchCut
<1>7. CopyTypes'
  BY <1>1, <1>4 DEF CopyInv, CopyTypes
<1>8. written' = Len(copyReceived') + Len(outPipe') + Len(buffer') + Len(inPipe')
  <2>1. written = Len(copyReceived) + Len(outPipe) + Len(buffer) + Len(inPipe)
    BY DEF CopyInv, InPlaces
  <2>2. /\ written' = written /\ Len(copyReceived') = Len(copyReceived) /\ Len(outPipe') = Len(outPipe)
        /\ Len(buffer') = count /\ Len(inPipe') = Len(inPipe) - count
    BY <1>1, <1>4
  <2> QED
    BY <1>2, <1>5, <2>1, <2>2
<1>9. /\ Stretch(copyReceived', 0) /\ Stretch(outPipe', Len(copyReceived'))
      /\ Stretch(buffer', Len(copyReceived') + Len(outPipe'))
      /\ Stretch(inPipe', Len(copyReceived') + Len(outPipe') + Len(buffer'))
  BY <1>1, <1>4, <1>6 DEF CopyInv, InPlaces
<1>10. InPlaces'
  BY <1>8, <1>9 DEF InPlaces, Stretch
<1>11. InLoops'
  BY <1>1, <1>3, <1>4 DEF CopyInv, InLoops
<1> QED
  BY <1>7, <1>10, <1>11 DEF CopyInv

LEMMA CopyGives ==
  ASSUME Copy!StreamCopyAssumption, CopyInv, NEW count \in Nat, Copy!WriteBytes(count)
  PROVE  CopyInv'
<1>. DEFINE rest == SubSeq(buffer, count + 1, Len(buffer))
            front == SubSeq(buffer, 1, count)
<1>1. /\ copyPc = "write" /\ count \in 1 .. Copy!LeastOf(Len(buffer), Capacity - Len(outPipe))
      /\ outPipe' = outPipe \o front /\ buffer' = rest
      /\ bytesLeft' = IF limit = Nobody THEN bytesLeft ELSE bytesLeft - count
      /\ copyPc' = Copy!NextPlace(rest, bytesLeft')
      /\ UNCHANGED << kind, limit, inPipe, written, inClosed, copyReceived, outClosed >>
  BY DEF Copy!WriteBytes, Copy!inVars
<1>2. /\ buffer \in Seq(Nat) /\ outPipe \in Seq(Nat) /\ copyReceived \in Seq(Nat) /\ inPipe \in Seq(Nat)
      /\ Len(buffer) \in Nat /\ Len(outPipe) \in Nat /\ Len(copyReceived) \in Nat /\ Len(inPipe) \in Nat
      /\ Len(copyReceived) + Len(outPipe) \in Nat
  BY DEF CopyInv, CopyTypes
<1>3. count <= Len(buffer) /\ count > 0
  BY <1>1, <1>2 DEF Copy!LeastOf, Copy!StreamCopyAssumption
<1>4. /\ front \in Seq(Nat) /\ Len(front) = count /\ rest \in Seq(Nat) /\ Len(rest) = Len(buffer) - count
      /\ Stretch(front, Len(copyReceived) + Len(outPipe))
      /\ Stretch(rest, Len(copyReceived) + Len(outPipe) + count)
  BY <1>2, <1>3, CutInTwo, StretchCut DEF CopyInv, InPlaces
<1>. HIDE DEF rest, front
<1>5. /\ outPipe' \in Seq(Nat) /\ Len(outPipe') = Len(outPipe) + count
      /\ Stretch(outPipe', Len(copyReceived))
  BY <1>1, <1>2, <1>4, PutTogether, StretchesMeet DEF CopyInv, InPlaces
<1>6. copyPc' \in {"read", "write", "done"} /\ (copyPc' = "read" => rest = <<>>)
      /\ (copyPc' = "done" => rest = <<>> /\ bytesLeft' = 0)
  BY <1>1 DEF Copy!NextPlace
<1>7. CopyTypes'
  BY <1>1, <1>2, <1>4, <1>5, <1>6 DEF CopyInv, CopyTypes
<1>8. InPlaces'
  <2>1. /\ Len(copyReceived') = Len(copyReceived) /\ Len(outPipe') = Len(outPipe) + count
        /\ Len(buffer') = Len(buffer) - count /\ Len(inPipe') = Len(inPipe)
    BY <1>1, <1>4, <1>5
  <2>2. /\ Len(copyReceived') + Len(outPipe') = Len(copyReceived) + Len(outPipe) + count
        /\ Len(copyReceived') + Len(outPipe') + Len(buffer') = Len(copyReceived) + Len(outPipe) + Len(buffer)
    BY <1>2, <1>3, <2>1
  <2>3. written' = Len(copyReceived') + Len(outPipe') + Len(buffer') + Len(inPipe')
    BY <1>1, <2>1, <2>2 DEF CopyInv, InPlaces
  <2>4. /\ Stretch(copyReceived', 0) /\ Stretch(outPipe', Len(copyReceived'))
        /\ Stretch(buffer', Len(copyReceived') + Len(outPipe'))
        /\ Stretch(inPipe', Len(copyReceived') + Len(outPipe') + Len(buffer'))
    BY <1>1, <1>4, <1>5, <2>1, <2>2 DEF CopyInv, InPlaces
  <2> QED
    BY <2>3, <2>4 DEF InPlaces, Stretch
<1>9. InLoops'
  <2>1. CASE limit = Nobody
    BY <1>1, <1>4, <1>6, <2>1 DEF CopyInv, InLoops, Copy!StreamCopyAssumption
  <2>2. CASE limit # Nobody
    <3>1. /\ limit \in Nat /\ bytesLeft \in Nat /\ Len(buffer) <= bytesLeft
          /\ limit = Len(copyReceived) + Len(outPipe) + bytesLeft /\ bytesLeft' = bytesLeft - count
      BY <1>1, <2>2 DEF CopyInv, InLoops
    <3>2. bytesLeft' \in Nat /\ Len(buffer') <= bytesLeft'
      BY <1>1, <1>2, <1>3, <1>4, <3>1
    <3>3. limit' = Len(copyReceived') + Len(outPipe') + bytesLeft'
      <4>1. limit' = limit /\ Len(copyReceived') = Len(copyReceived) /\ Len(outPipe') = Len(outPipe) + count
        BY <1>1, <1>5
      <4> QED
        BY <1>2, <1>3, <3>1, <4>1
    <3> QED
      BY <1>1, <1>6, <2>2, <3>1, <3>2, <3>3 DEF InLoops
  <2> QED
    BY <2>1, <2>2
<1> QED
  BY <1>7, <1>8, <1>9 DEF CopyInv

LEMMA CopyStepKeeps ==
  ASSUME Copy!StreamCopyAssumption, CopyInv, [Copy!Next]_(Copy!vars)
  PROVE  CopyInv'
<1>1. CASE Copy!ReadEnd
  BY <1>1 DEF Copy!ReadEnd, Copy!inVars, Copy!outVars, CopyInv, CopyTypes, InPlaces, InLoops, Stretch
<1>2. CASE Copy!ReadBlocked
  BY <1>2 DEF Copy!ReadBlocked, Copy!inVars, Copy!outVars, CopyInv, CopyTypes, InPlaces, InLoops, Stretch
<1>3. CASE Copy!WriteFailed
  BY <1>3 DEF Copy!WriteFailed, Copy!inVars, Copy!outVars, CopyInv, CopyTypes, InPlaces, InLoops, Stretch
<1>4. CASE Copy!WriterWrites
  <2>1. /\ ~ inClosed /\ written' = written + 1 /\ inPipe' = Append(inPipe, written')
        /\ UNCHANGED << kind, limit, copyPc, buffer, bytesLeft, inClosed, outPipe, copyReceived, outClosed >>
    BY <1>4 DEF Copy!WriterWrites, Copy!copyVars, Copy!outVars
  <2>2. /\ written \in Nat /\ inPipe \in Seq(Nat) /\ written + 1 \in Nat /\ Len(inPipe) \in Nat
        /\ Len(copyReceived) \in Nat /\ Len(outPipe) \in Nat /\ Len(buffer) \in Nat
    BY DEF CopyInv, CopyTypes
  <2>3. /\ inPipe' \in Seq(Nat) /\ Len(inPipe') = Len(inPipe) + 1
        /\ inPipe'[Len(inPipe) + 1] = written + 1 /\ \A i \in 1 .. Len(inPipe) : inPipe'[i] = inPipe[i]
    BY <2>1, <2>2
  <2>4. \A i \in 1 .. Len(inPipe') : i \in 1 .. Len(inPipe) \/ i = Len(inPipe) + 1
    BY <2>2, <2>3
  <2>5. CopyTypes'
    BY <2>1, <2>2, <2>3 DEF CopyInv, CopyTypes
  <2>7. InPlaces'
    <3>1. Stretch(inPipe', Len(copyReceived) + Len(outPipe) + Len(buffer))
      <4>1. \A i \in 1 .. Len(inPipe) : inPipe'[i] = Len(copyReceived) + Len(outPipe) + Len(buffer) + i
        BY <2>3 DEF CopyInv, InPlaces, Stretch
      <4>2. inPipe'[Len(inPipe) + 1] = Len(copyReceived) + Len(outPipe) + Len(buffer) + (Len(inPipe) + 1)
        <5>1. written = Len(copyReceived) + Len(outPipe) + Len(buffer) + Len(inPipe)
          BY DEF CopyInv, InPlaces
        <5> QED
          BY <2>2, <2>3, <5>1
      <4> QED
        BY <2>4, <4>1, <4>2 DEF Stretch
    <3>2. /\ Stretch(copyReceived', 0) /\ Stretch(outPipe', Len(copyReceived'))
          /\ Stretch(buffer', Len(copyReceived') + Len(outPipe'))
          /\ Stretch(inPipe', Len(copyReceived') + Len(outPipe') + Len(buffer'))
      BY <2>1, <3>1 DEF CopyInv, InPlaces
    <3>3. written' = Len(copyReceived') + Len(outPipe') + Len(buffer') + Len(inPipe')
      BY <2>1, <2>2, <2>3 DEF CopyInv, InPlaces
    <3> QED
      BY <3>2, <3>3 DEF InPlaces, Stretch
  <2>6. InLoops'
    BY <2>1 DEF CopyInv, InLoops
  <2> QED
    BY <2>5, <2>6, <2>7 DEF CopyInv
<1>5. CASE Copy!WriterCloses
  BY <1>5 DEF Copy!WriterCloses, Copy!copyVars, Copy!outVars, CopyInv, CopyTypes, InPlaces, InLoops, Stretch
<1>6. CASE Copy!ReaderReads
  <2>1. /\ outPipe # <<>> /\ copyReceived' = Append(copyReceived, Head(outPipe)) /\ outPipe' = Tail(outPipe)
        /\ UNCHANGED << kind, limit, copyPc, buffer, bytesLeft, inPipe, written, inClosed, outClosed >>
    BY <1>6 DEF Copy!ReaderReads, Copy!copyVars, Copy!inVars
  <2>2. /\ outPipe \in Seq(Nat) /\ copyReceived \in Seq(Nat) /\ Len(outPipe) \in Nat /\ Len(outPipe) > 0
        /\ Len(copyReceived) \in Nat /\ Len(buffer) \in Nat /\ Len(inPipe) \in Nat /\ Head(outPipe) = outPipe[1]
    BY <2>1 DEF CopyInv, CopyTypes
  <2>3. /\ copyReceived' \in Seq(Nat) /\ Len(copyReceived') = Len(copyReceived) + 1
        /\ copyReceived'[Len(copyReceived) + 1] = outPipe[1]
        /\ \A i \in 1 .. Len(copyReceived) : copyReceived'[i] = copyReceived[i]
        /\ outPipe' \in Seq(Nat) /\ Len(outPipe') = Len(outPipe) - 1
        /\ \A i \in 1 .. Len(outPipe) - 1 : outPipe'[i] = outPipe[i + 1]
    BY <2>1, <2>2
  <2>4. \A i \in 1 .. Len(copyReceived') : i \in 1 .. Len(copyReceived) \/ i = Len(copyReceived) + 1
    BY <2>2, <2>3
  <2>5. CopyTypes' /\ Stretch(copyReceived', 0) /\ Stretch(outPipe', Len(copyReceived'))
    BY <2>1, <2>2, <2>3, <2>4 DEF CopyInv, CopyTypes, InPlaces, Stretch
  <2>6. InPlaces'
    BY <2>1, <2>2, <2>3, <2>5 DEF CopyInv, InPlaces, Stretch
  <2>7. InLoops'
    BY <2>1, <2>2, <2>3 DEF CopyInv, InLoops
  <2> QED
    BY <2>5, <2>6, <2>7 DEF CopyInv
<1>7. CASE Copy!ReaderCloses
  BY <1>7 DEF Copy!ReaderCloses, Copy!copyVars, Copy!inVars, CopyInv, CopyTypes, InPlaces, InLoops, Stretch
<1>8. CASE UNCHANGED Copy!vars
  BY <1>8 DEF Copy!vars, Copy!copyVars, Copy!inVars, Copy!outVars, CopyInv, CopyTypes, InPlaces, InLoops, Stretch
<1>9. ASSUME NEW count \in 1 .. ChunkSize, Copy!ReadBytes(count) \/ Copy!WriteBytes(count)
      PROVE  CopyInv'
  <2>1. count \in Nat
    BY <1>9 DEF Copy!ReadBytes, Copy!WriteBytes
  <2> QED
    BY <1>9, <2>1, CopyTakes, CopyGives
<1> QED
  BY <1>1, <1>2, <1>3, <1>4, <1>5, <1>6, <1>7, <1>8, <1>9 DEF Copy!Next, Copy!CopyStep

LEMMA CopyMoves == [Next]_vars => [Copy!Next]_(Copy!vars)
BY DEF Next, Only, Is, vars, copyVars, Copy!vars, Copy!copyVars, Copy!inVars, Copy!outVars

LEMMA InOrder ==
  ASSUME CopyInv
  PROVE  CopiedInOrder
<1>. DEFINE a == copyReceived \o outPipe
            b == a \o buffer
            c == b \o inPipe
<1>1. /\ copyReceived \in Seq(Nat) /\ outPipe \in Seq(Nat) /\ buffer \in Seq(Nat) /\ inPipe \in Seq(Nat)
      /\ Len(copyReceived) \in Nat /\ Len(outPipe) \in Nat /\ Len(buffer) \in Nat /\ Len(inPipe) \in Nat
      /\ written \in Nat
  BY DEF CopyInv, CopyTypes
<1>2. a \in Seq(Nat) /\ Len(a) = Len(copyReceived) + Len(outPipe) /\ Stretch(a, 0)
  BY <1>1, PutTogether, StretchesMeet DEF CopyInv, InPlaces
<1>3. b \in Seq(Nat) /\ Len(b) = Len(a) + Len(buffer) /\ Stretch(b, 0)
  <2>. HIDE DEF a
  <2>1. Stretch(buffer, 0 + Len(a))
    BY <1>1, <1>2 DEF CopyInv, InPlaces
  <2> QED
    BY <1>1, <1>2, <2>1, PutTogether, StretchesMeet
<1>4. c \in Seq(Nat) /\ Len(c) = written /\ Stretch(c, 0)
  <2>. HIDE DEF a, b
  <2>1. Stretch(inPipe, 0 + Len(b)) /\ written = Len(b) + Len(inPipe)
    BY <1>1, <1>2, <1>3 DEF CopyInv, InPlaces
  <2> QED
    BY <1>1, <1>3, <2>1, PutTogether, StretchesMeet
<1>5. c = [i \in 1 .. written |-> i]
  <2>. HIDE DEF c
  <2>1. \A i \in 1 .. written : c[i] = i
    BY <1>1, <1>4 DEF Stretch
  <2> QED
    BY <1>4, <2>1
<1>6. copyPc = "done" => IF limit = Nobody THEN inClosed /\ Len(a) = written ELSE Len(a) = limit
  <2>. HIDE DEF a
  <2>1. buffer = <<>> => Len(buffer) = 0
    OBVIOUS
  <2>2. inPipe = <<>> => Len(inPipe) = 0
    OBVIOUS
  <2> QED
    BY <1>1, <1>2, <2>1, <2>2 DEF CopyInv, InPlaces, InLoops
<1> QED
  BY <1>5, <1>6 DEF CopiedInOrder, Copy!CopiedInOrder

\* However the pipes cut them, the bytes arrive in order, once and without a
\* gap, and a copy that ends well has copied all there was or was asked for
\* (copy.cpp: Copy and its loops over the buffer and the bytes that are left).
THEOREM BytesAreCopied == SafetySpec => []CopiedInOrder
<1>. USE ComponentsAssumption
<1>1. Init => CopyInv
  BY DEF Init, Copy!Init, CopyInv, CopyTypes, InPlaces, InLoops, Stretch, ComponentsAssumption,
         Copy!StreamCopyAssumption
<1>2. CopyInv /\ [Next]_vars => CopyInv'
  BY CopyMoves, CopyStepKeeps DEF ComponentsAssumption
<1> QED
  BY <1>1, <1>2, InOrder, PTL DEF SafetySpec

-----------------------------------------------------------------------------
(* ZipInput.  What a file has given and what minizip has in its buffer are *)
(* the next bytes of its entry, and its own position is where they end.    *)

OpenFiles ==
  [at : {"idle", "fill", "read"}, entry : DOMAIN Entries, offset : Nat, pos_in_zipfile : Nat,
   rest : Nat, avail_in : Seq(Nat), avail_out : Nat, got : Seq(Nat), ended : BOOLEAN]

ZipTypes ==
  /\ zipFile \in [Readers -> {Zip!NoFile} \cup OpenFiles]
  /\ m_fileInfos \in Seq(Nat) /\ Len(m_fileInfos) <= Len(Entries)

\* The bytes of the archive from an offset on.
BytesFrom(s, from) == \A i \in 1 .. Len(s) : s[i] = from + i - 1

OwnBytes(f) ==
  /\ Len(f.got) + Len(f.avail_in) + f.rest = Entries[f.entry].size
  /\ f.pos_in_zipfile = Entries[f.entry].start + (Len(f.got) + Len(f.avail_in))
  /\ BytesFrom(f.got, Entries[f.entry].start)
  /\ BytesFrom(f.avail_in, Entries[f.entry].start + Len(f.got))
  /\ f.at = "read" => f.offset = f.pos_in_zipfile /\ f.avail_in = <<>>
  /\ f.ended => f.rest = 0 /\ f.avail_in = <<>>

ZipInv == ZipTypes /\ \A r \in Readers : zipFile[r] # Zip!NoFile => OwnBytes(zipFile[r])

LEMMA BytesCut ==
  ASSUME NEW s \in Seq(Nat), NEW from \in Nat, BytesFrom(s, from), NEW n \in Nat, n <= Len(s)
  PROVE  BytesFrom(SubSeq(s, 1, n), from) /\ BytesFrom(SubSeq(s, n + 1, Len(s)), from + n)
<1>1. ASSUME NEW i \in 1 .. n PROVE i \in 1 .. Len(s) /\ SubSeq(s, 1, n)[i] = from + i - 1
  <2>1. SubSeq(s, 1, n)[i] = s[i]
    BY CutInTwo
  <2>2. Len(s) \in Nat /\ i \in 1 .. Len(s)
    OBVIOUS
  <2> QED
    BY <2>1, <2>2 DEF BytesFrom
<1>2. ASSUME NEW i \in 1 .. Len(s) - n PROVE SubSeq(s, n + 1, Len(s))[i] = (from + n) + i - 1
  <2>1. SubSeq(s, n + 1, Len(s))[i] = s[n + i]
    BY CutInTwo
  <2>2. Len(s) \in Nat /\ n + i \in 1 .. Len(s)
    OBVIOUS
  <2>3. n + i \in 1 .. Len(s) /\ SubSeq(s, n + 1, Len(s))[i] = s[n + i]
    BY <2>1, <2>2
  <2>4. s[n + i] = from + (n + i) - 1
    BY <2>3 DEF BytesFrom
  <2> QED
    BY <2>3, <2>4
<1> QED
  BY <1>1, <1>2, CutInTwo DEF BytesFrom

LEMMA BytesMeet ==
  ASSUME NEW s \in Seq(Nat), NEW t \in Seq(Nat), NEW from \in Nat,
         BytesFrom(s, from), BytesFrom(t, from + Len(s))
  PROVE  BytesFrom(s \o t, from)
<1>. SUFFICES ASSUME NEW i \in 1 .. Len(s \o t) PROVE (s \o t)[i] = from + i - 1
  BY DEF BytesFrom
<1>1. Len(s \o t) = Len(s) + Len(t) /\ Len(s) \in Nat /\ Len(t) \in Nat
  BY PutTogether
<1>2. CASE i <= Len(s)
  BY <1>1, <1>2, PutTogether DEF BytesFrom
<1>3. CASE i > Len(s)
  <2>1. i - Len(s) \in 1 .. Len(t) /\ i = Len(s) + (i - Len(s))
    BY <1>1, <1>3
  <2>2. (s \o t)[i] = t[i - Len(s)]
    BY <2>1, PutTogether
  <2> QED
    BY <1>1, <2>1, <2>2 DEF BytesFrom
<1> QED
  BY <1>1, <1>2, <1>3

\* A step of one file leaves the others.
LEMMA OneFileChanges ==
  ASSUME ZipInv, NEW r \in Readers, NEW f \in {Zip!NoFile} \cup OpenFiles, Zip!Set(r, f),
         f # Zip!NoFile => OwnBytes(f)
  PROVE  ZipInv'
BY DEF ZipInv, ZipTypes, Zip!Set, OwnBytes, BytesFrom

\* What is no more than there is room for is the least of both.
LEMMA NoMoreThan ==
  ASSUME NEW n \in Nat, NEW from \in Nat, NEW end \in Nat, from + n <= end
  PROVE  /\ Zip!LeastOf(n, end - from) = n
         /\ Zip!Mapped(from, n) = [i \in 1 .. Zip!LeastOf(n, ArchiveSize - from) |-> from + i - 1]
<1>1. n < end - from \/ n = end - from
  OBVIOUS
<1> QED
  BY <1>1 DEF Zip!LeastOf, Zip!Mapped

LEMMA MappedWhole ==
  ASSUME NEW n \in Nat, NEW from \in Nat, ArchiveSize \in Nat, from + n <= ArchiveSize
  PROVE  /\ Zip!Mapped(from, n) = [i \in 1 .. n |-> from + i - 1]
         /\ Zip!Mapped(from, n) \in Seq(Nat) /\ Len(Zip!Mapped(from, n)) = n
         /\ BytesFrom(Zip!Mapped(from, n), from)
<1>1. Zip!Mapped(from, n) = [i \in 1 .. n |-> from + i - 1]
  BY NoMoreThan
<1>2. \A i \in 1 .. n : from + i - 1 \in Nat
  OBVIOUS
<1> QED
  BY <1>1, <1>2 DEF BytesFrom

\* What has been given, what is at hand and what is left of n bytes.
LEMMA ThreeParts ==
  ASSUME NEW gave \in Nat, NEW hand \in Nat, NEW left \in Nat, NEW n \in Nat,
         NEW from \in Nat, NEW end \in Nat, from + n <= end, gave + hand + left = n
  PROVE  /\ gave <= n /\ (left = 0 /\ hand = 0 => gave = n)
         /\ hand = 0 => /\ from + (gave + hand) = from + gave /\ gave + left = n
                        /\ (from + gave) + left <= end
OBVIOUS

LEMMA EntryNumbers ==
  ASSUME Zip!ZipAssumption, NEW e \in DOMAIN Entries
  PROVE  /\ Entries[e].start \in Nat /\ Entries[e].size \in Nat
         /\ Entries[e].start + Entries[e].size <= ArchiveSize /\ ArchiveSize \in Nat
BY DEF Zip!ZipAssumption

LEMMA OpenFileKeeps ==
  ASSUME Zip!ZipAssumption, ZipInv, NEW r \in Readers, NEW n, Zip!OpenFile(r, n)
  PROVE  ZipInv'
<1>1. PICK e \in 1 .. Len(m_fileInfos) :
        Zip!Set(r, [at |-> "idle", entry |-> e, offset |-> 0,
                    pos_in_zipfile |-> Entries[e].start, rest |-> Entries[e].size,
                    avail_in |-> <<>>, avail_out |-> 0, got |-> <<>>, ended |-> FALSE])
  BY DEF Zip!OpenFile
<1>. DEFINE f == [at |-> "idle", entry |-> e, offset |-> 0,
                  pos_in_zipfile |-> Entries[e].start, rest |-> Entries[e].size,
                  avail_in |-> <<>>, avail_out |-> 0, got |-> <<>>, ended |-> FALSE]
<1>2. e \in DOMAIN Entries
  BY DEF ZipInv, ZipTypes, Zip!ZipAssumption
<1>3. f \in OpenFiles
  BY <1>2, EntryNumbers DEF OpenFiles
<1>4. OwnBytes(f)
  BY <1>2, EntryNumbers DEF OwnBytes, BytesFrom
<1> QED
  BY <1>1, <1>3, <1>4, OneFileChanges

\* What a file that is open is like.
LEMMA FileIsOpen ==
  ASSUME Zip!ZipAssumption, ZipInv, NEW r \in Readers, zipFile[r].at \in {"idle", "fill", "read"}
  PROVE  /\ zipFile[r] \in OpenFiles /\ OwnBytes(zipFile[r])
         /\ Len(zipFile[r].got) \in Nat /\ Len(zipFile[r].avail_in) \in Nat
         /\ Entries[zipFile[r].entry].start \in Nat /\ Entries[zipFile[r].entry].size \in Nat
<1>1. zipFile[r] # Zip!NoFile
  BY DEF Zip!NoFile
<1>2. zipFile[r] \in OpenFiles /\ OwnBytes(zipFile[r])
  BY <1>1 DEF ZipInv, ZipTypes
<1>3. zipFile[r].entry \in DOMAIN Entries
  BY <1>2 DEF OpenFiles
<1>4. Len(zipFile[r].got) \in Nat /\ Len(zipFile[r].avail_in) \in Nat
  BY <1>2 DEF OpenFiles
<1> QED
  BY <1>2, <1>3, <1>4, EntryNumbers

LEMMA BeginReadKeeps ==
  ASSUME Zip!ZipAssumption, ZipInv, NEW r \in Readers, NEW size \in 1 .. ExtractBufferSize + 1,
         Zip!BeginRead(r, size)
  PROVE  ZipInv'
<1>. DEFINE f == zipFile[r]
            wanted == Zip!LeastOf(Zip!LeastOf(size, ExtractBufferSize), f.rest + Len(f.avail_in))
<1>1. /\ f.at = "idle"
      /\ Zip!Set(r, IF wanted = 0 THEN [f EXCEPT !.ended = TRUE]
                    ELSE [f EXCEPT !.at = "fill", !.avail_out = wanted])
  BY DEF Zip!BeginRead
<1>2. f \in OpenFiles /\ OwnBytes(f) /\ Len(f.avail_in) \in Nat /\ f.rest \in Nat
  BY <1>1, FileIsOpen DEF OpenFiles
<1>3. wanted \in Nat /\ (wanted = 0 => f.rest = 0 /\ Len(f.avail_in) = 0)
  BY <1>2, SMTT(60) DEF Zip!LeastOf, Zip!ZipAssumption
<1>. HIDE DEF wanted
<1>4. CASE wanted = 0
  <2>1. f.avail_in = <<>>
    BY <1>2, <1>3, <1>4 DEF OpenFiles
  <2>2. [f EXCEPT !.ended = TRUE] \in OpenFiles
    BY <1>2 DEF OpenFiles
  <2>3. OwnBytes([f EXCEPT !.ended = TRUE])
    BY <1>2, <1>3, <1>4, <2>1 DEF OpenFiles, OwnBytes
  <2> QED
    BY <1>1, <1>4, <2>2, <2>3, OneFileChanges
<1>5. CASE wanted # 0
  <2>1. [f EXCEPT !.at = "fill", !.avail_out = wanted] \in OpenFiles
    BY <1>2, <1>3 DEF OpenFiles
  <2>2. OwnBytes([f EXCEPT !.at = "fill", !.avail_out = wanted])
    BY <1>2 DEF OpenFiles, OwnBytes
  <2> QED
    BY <1>1, <1>5, <2>1, <2>2, OneFileChanges
<1> QED
  BY <1>4, <1>5

LEMMA SeekKeeps ==
  ASSUME Zip!ZipAssumption, ZipInv, NEW r \in Readers, Zip!Seek(r)
  PROVE  ZipInv'
<1>. DEFINE f == zipFile[r]
            g == [f EXCEPT !.at = "read", !.offset = f.pos_in_zipfile]
<1>1. f.at = "fill" /\ f.avail_in = <<>> /\ Zip!Set(r, g)
  BY DEF Zip!Seek
<1>2. f \in OpenFiles /\ OwnBytes(f)
  BY <1>1, FileIsOpen
<1>3. g \in OpenFiles
  BY <1>2 DEF OpenFiles
<1>4. OwnBytes(g)
  BY <1>1, <1>2 DEF OpenFiles, OwnBytes
<1> QED
  BY <1>1, <1>3, <1>4, OneFileChanges

LEMMA ReadDeviceKeeps ==
  ASSUME Zip!ZipAssumption, ZipInv, NEW r \in Readers, Zip!ReadDevice(r)
  PROVE  ZipInv'
<1>. DEFINE f == zipFile[r]
            start == Entries[f.entry].start
            size == Entries[f.entry].size
            this == Zip!LeastOf(UnzBufSize, f.rest)
            bytes == Zip!Mapped(f.offset, this)
            g == [f EXCEPT !.at = "fill", !.avail_in = bytes, !.offset = @ + this,
                           !.pos_in_zipfile = @ + this, !.rest = @ - this]
<1>1. f.at = "read" /\ Zip!Set(r, g)
  BY DEF Zip!ReadDevice
<1>2. /\ f \in OpenFiles /\ OwnBytes(f) /\ f.rest \in Nat /\ Len(f.got) \in Nat
      /\ f.offset \in Nat /\ f.pos_in_zipfile \in Nat /\ f.entry \in DOMAIN Entries
  BY <1>1, FileIsOpen DEF OpenFiles
<1>3. start \in Nat /\ size \in Nat /\ start + size <= ArchiveSize /\ ArchiveSize \in Nat
  BY <1>2, EntryNumbers
<1>4. this \in Nat /\ this <= f.rest
  BY <1>2 DEF Zip!LeastOf, Zip!ZipAssumption
<1>5. /\ Len(f.got) + Len(f.avail_in) + f.rest = size
      /\ f.pos_in_zipfile = start + (Len(f.got) + Len(f.avail_in))
      /\ BytesFrom(f.got, start) /\ f.offset = f.pos_in_zipfile /\ f.avail_in = <<>>
      /\ f.ended => f.rest = 0
  BY <1>1, <1>2 DEF OwnBytes
<1>. HIDE DEF start, size, this
<1>6. /\ f.offset = start + Len(f.got) /\ Len(f.got) + f.rest = size
      /\ f.offset + f.rest <= ArchiveSize
  <2>1. Len(f.avail_in) = 0
    BY <1>5
  <2> QED
    BY <1>2, <1>3, <1>5, <2>1, ThreeParts
<1>7. f.offset + this <= ArchiveSize
  <2>1. ASSUME NEW o \in Nat, NEW l \in Nat, o + l <= ArchiveSize, this <= l PROVE o + this <= ArchiveSize
    BY <1>3, <1>4, <2>1
  <2> QED
    BY <1>2, <1>4, <1>6, <2>1
<1>8. bytes \in Seq(Nat) /\ Len(bytes) = this /\ BytesFrom(bytes, f.offset)
  BY <1>2, <1>3, <1>4, <1>7, MappedWhole
<1>. HIDE DEF bytes
<1>9. f.offset + this \in Nat /\ f.pos_in_zipfile + this \in Nat /\ f.rest - this \in Nat
  <2>. DEFINE offset == f.offset  at == f.pos_in_zipfile  left == f.rest
  <2>1. offset \in Nat /\ at \in Nat /\ left \in Nat /\ this <= left
    BY <1>2, <1>4
  <2>. HIDE DEF offset, at, left
  <2>2. offset + this \in Nat /\ at + this \in Nat /\ left - this \in Nat
    BY <1>4, <2>1
  <2> QED
    BY <2>2 DEF offset, at, left
<1>10. g \in OpenFiles
  BY <1>2, <1>8, <1>9 DEF OpenFiles
<1>11. /\ g.got = f.got /\ g.entry = f.entry /\ g.avail_in = bytes /\ g.rest = f.rest - this
       /\ g.pos_in_zipfile = f.pos_in_zipfile + this /\ g.at = "fill" /\ g.ended = f.ended
  BY <1>2 DEF OpenFiles
<1>12. OwnBytes(g)
  <2>. HIDE DEF f, g
  <2>1. Entries[g.entry].start = start /\ Entries[g.entry].size = size
    BY <1>11 DEF start, size, f
  <2>2. /\ Len(g.got) + Len(g.avail_in) + g.rest = size
        /\ g.pos_in_zipfile = start + (Len(g.got) + Len(g.avail_in))
    <3>1. Len(g.got) = Len(f.got) /\ Len(g.avail_in) = this
      BY <1>8, <1>11
    <3>. DEFINE gave == Len(f.got)  at == f.pos_in_zipfile  left == f.rest
    <3>2. gave \in Nat /\ left \in Nat /\ at = start + gave /\ gave + left = size /\ this <= left
      BY <1>2, <1>4, <1>5, <1>6
    <3>3. g.rest = left - this /\ g.pos_in_zipfile = at + this /\ Len(g.got) = gave
      BY <1>11, <3>1
    <3>. HIDE DEF gave, at, left
    <3>4. gave + this + (left - this) = size /\ at + this = start + (gave + this)
      BY <1>3, <1>4, <3>2
    <3> QED
      BY <3>1, <3>3, <3>4
  <2>3. BytesFrom(g.got, start) /\ BytesFrom(g.avail_in, start + Len(g.got))
    BY <1>5, <1>6, <1>8, <1>11
  <2>4. g.ended => g.rest = 0 /\ g.avail_in = <<>>
    <3>1. ASSUME f.ended PROVE this = 0
      BY <1>2, <1>4, <1>5, <3>1
    <3>2. ASSUME this = 0 PROVE bytes = <<>>
      BY <1>8, <3>2
    <3> QED
      BY <1>2, <1>5, <1>11, <3>1, <3>2
  <2> QED
    BY <1>11, <2>1, <2>2, <2>3, <2>4 DEF OwnBytes
<1> QED
  BY <1>1, <1>10, <1>12, OneFileChanges

LEMMA CopyOutKeeps ==
  ASSUME Zip!ZipAssumption, ZipInv, NEW r \in Readers, Zip!CopyOut(r)
  PROVE  ZipInv'
<1>. DEFINE f == zipFile[r]
            count == Zip!LeastOf(f.avail_out, Len(f.avail_in))
            front == SubSeq(f.avail_in, 1, count)
            rest == SubSeq(f.avail_in, count + 1, Len(f.avail_in))
            g == [f EXCEPT !.got = @ \o front, !.avail_in = rest, !.avail_out = @ - count,
                           !.at = IF f.avail_out = count THEN "idle" ELSE "fill"]
<1>1. f.at = "fill" /\ f.avail_in # <<>> /\ Zip!Set(r, g)
  BY DEF Zip!CopyOut
<1>2. /\ f \in OpenFiles /\ OwnBytes(f) /\ Len(f.avail_in) \in Nat /\ Len(f.got) \in Nat
      /\ f.avail_in \in Seq(Nat) /\ f.got \in Seq(Nat) /\ f.avail_out \in Nat /\ f.rest \in Nat
      /\ f.entry \in DOMAIN Entries
  BY <1>1, FileIsOpen DEF OpenFiles
<1>3. count \in Nat /\ count <= Len(f.avail_in) /\ f.avail_out - count \in Nat
  BY <1>2 DEF Zip!LeastOf
<1>. HIDE DEF count
<1>4. Entries[f.entry].start \in Nat /\ Entries[f.entry].start + Len(f.got) \in Nat
  BY <1>2, EntryNumbers
<1>5. /\ front \in Seq(Nat) /\ Len(front) = count /\ rest \in Seq(Nat)
      /\ Len(rest) = Len(f.avail_in) - count
      /\ BytesFrom(front, Entries[f.entry].start + Len(f.got))
      /\ BytesFrom(rest, Entries[f.entry].start + Len(f.got) + count)
  BY <1>2, <1>3, <1>4, CutInTwo, BytesCut DEF OwnBytes
<1>. HIDE DEF front, rest
<1>6. /\ f.got \o front \in Seq(Nat) /\ Len(f.got \o front) = Len(f.got) + count
      /\ BytesFrom(f.got \o front, Entries[f.entry].start)
  BY <1>2, <1>4, <1>5, PutTogether, BytesMeet DEF OwnBytes
<1>7. g \in OpenFiles
  BY <1>2, <1>3, <1>5, <1>6 DEF OpenFiles
<1>8. /\ g.got = f.got \o front /\ g.avail_in = rest /\ g.entry = f.entry /\ g.rest = f.rest
      /\ g.pos_in_zipfile = f.pos_in_zipfile /\ g.ended = f.ended /\ g.at \in {"idle", "fill"}
  BY <1>2 DEF OpenFiles
<1>9. OwnBytes(g)
  <2>. HIDE DEF g
  <2>1. Len(g.got) + Len(g.avail_in) = Len(f.got) + Len(f.avail_in)
    <3>1. Len(g.got) = Len(f.got) + count /\ Len(g.avail_in) = Len(f.avail_in) - count
      BY <1>5, <1>6, <1>8
    <3>. DEFINE gave == Len(f.got)  hand == Len(f.avail_in)
    <3>2. gave \in Nat /\ hand \in Nat
      BY <1>2
    <3>. HIDE DEF gave, hand
    <3>3. (gave + count) + (hand - count) = gave + hand
      BY <1>3, <3>2
    <3>4. Len(g.got) = gave + count /\ Len(g.avail_in) = hand - count
      BY <3>1 DEF gave, hand
    <3> QED
      BY <3>3, <3>4 DEF gave, hand
  <2>2. /\ Len(g.got) + Len(g.avail_in) + g.rest = Entries[g.entry].size
        /\ g.pos_in_zipfile = Entries[g.entry].start + (Len(g.got) + Len(g.avail_in))
    BY <1>2, <1>8, <2>1 DEF OwnBytes
  <2>3. Entries[f.entry].start + Len(f.got) + count = Entries[g.entry].start + Len(g.got)
    <3>1. Entries[g.entry].start = Entries[f.entry].start /\ Len(g.got) = Len(f.got) + count
      BY <1>6, <1>8
    <3>. HIDE DEF f
    <3> QED
      BY <1>2, <1>3, <1>4, <3>1
  <2>4. BytesFrom(g.got, Entries[g.entry].start) /\ BytesFrom(g.avail_in, Entries[g.entry].start + Len(g.got))
    BY <1>5, <1>6, <1>8, <2>3
  <2>5. ~ g.ended
    BY <1>1, <1>2, <1>8 DEF OwnBytes
  <2> QED
    BY <1>8, <2>2, <2>4, <2>5 DEF OwnBytes
<1> QED
  BY <1>1, <1>7, <1>9, OneFileChanges

LEMMA ZipStepKeeps ==
  ASSUME Zip!ZipAssumption, ZipInv, [Zip!Next]_(Zip!vars)
  PROVE  ZipInv'
<1>1. ASSUME UNCHANGED zipFile, m_fileInfos' \in Seq(Nat), Len(m_fileInfos') <= Len(Entries)
      PROVE  ZipInv'
  BY <1>1 DEF ZipInv, ZipTypes, OwnBytes, BytesFrom
<1>2. CASE Zip!Open
  BY <1>1, <1>2 DEF Zip!Open, ZipInv, ZipTypes
<1>3. CASE Zip!ReadInfo
  <2>1. m_fileInfos' = Append(m_fileInfos, Len(m_fileInfos) + 1) /\ Len(m_fileInfos) < Len(Entries)
    BY <1>3 DEF Zip!ReadInfo
  <2>2. m_fileInfos \in Seq(Nat) /\ Len(m_fileInfos) + 1 \in Nat
    BY DEF ZipInv, ZipTypes
  <2>3. m_fileInfos' \in Seq(Nat) /\ Len(m_fileInfos') <= Len(Entries)
    BY <2>1, <2>2 DEF Zip!ZipAssumption
  <2> QED
    BY <1>1, <1>3, <2>3 DEF Zip!ReadInfo
<1>4. CASE Zip!ReadInfoFails \/ Zip!Close
  <2>1. m_fileInfos' = <<>> /\ UNCHANGED zipFile
    BY <1>4 DEF Zip!ReadInfoFails, Zip!Close
  <2>2. Len(m_fileInfos') = 0 /\ m_fileInfos' \in Seq(Nat) /\ 0 <= Len(Entries)
    BY <2>1 DEF Zip!ZipAssumption
  <2> QED
    BY <1>1, <2>1, <2>2
<1>5. ASSUME NEW r \in Readers, Zip!CloseFile(r)
      PROVE  ZipInv'
  BY <1>5, OneFileChanges DEF Zip!CloseFile
<1>6. CASE UNCHANGED Zip!vars
  BY <1>1, <1>6 DEF Zip!vars, ZipInv, ZipTypes
<1> QED
  BY <1>2, <1>3, <1>4, <1>5, <1>6, OpenFileKeeps, BeginReadKeeps, SeekKeeps, ReadDeviceKeeps,
     CopyOutKeeps DEF Zip!Next

LEMMA ZipMoves == [Next]_vars => [Zip!Next]_(Zip!vars)
BY DEF Next, Only, Is, vars, zipVars, Zip!vars

LEMMA OwnContent ==
  ASSUME Zip!ZipAssumption, ZipInv
  PROVE  FilesReadTheirEntry
<1>. SUFFICES ASSUME NEW r \in Readers, zipFile[r].at # "none"
              PROVE  LET f == zipFile[r]
                     IN  /\ f.got = SubSeq(Zip!Content(f.entry), 1, Len(f.got))
                         /\ f.ended => f.got = Zip!Content(f.entry)
  BY DEF FilesReadTheirEntry, Zip!FilesReadTheirEntry
<1>. DEFINE f == zipFile[r]
            start == Entries[f.entry].start
            size == Entries[f.entry].size
            content == Zip!Content(f.entry)
<1>1. f \in OpenFiles /\ OwnBytes(f)
  BY DEF ZipInv, ZipTypes, Zip!NoFile
<1>2. /\ f.entry \in DOMAIN Entries /\ f.got \in Seq(Nat) /\ f.avail_in \in Seq(Nat) /\ f.rest \in Nat
      /\ Len(f.got) \in Nat /\ Len(f.avail_in) \in Nat
  BY <1>1 DEF OpenFiles
<1>3. start \in Nat /\ size \in Nat /\ start + size <= ArchiveSize /\ ArchiveSize \in Nat
  BY <1>2, EntryNumbers
<1>4. content = [i \in 1 .. size |-> start + i - 1]
  BY <1>3, MappedWhole DEF Zip!Content
<1>5. /\ Len(f.got) + Len(f.avail_in) + f.rest = size /\ BytesFrom(f.got, start)
      /\ f.ended => f.rest = 0 /\ Len(f.avail_in) = 0
  BY <1>1 DEF OwnBytes
<1>. HIDE DEF content, start, size, f
<1>6. Len(f.got) <= size /\ (f.ended => Len(f.got) = size)
  <2>1. /\ Len(f.got) <= size
        /\ f.rest = 0 /\ Len(f.avail_in) = 0 => Len(f.got) = size
    <3>. DEFINE gave == Len(f.got)  hand == Len(f.avail_in)  left == f.rest
    <3>1. gave \in Nat /\ hand \in Nat /\ left \in Nat /\ gave + hand + left = size
      BY <1>2, <1>5
    <3>. HIDE DEF gave, hand, left
    <3>2. gave <= size /\ (left = 0 /\ hand = 0 => gave = size)
      BY <1>3, <3>1
    <3> QED
      BY <3>2 DEF gave, hand, left
  <2> QED
    BY <1>5, <2>1
<1>7. content \in Seq(Nat) /\ Len(content) = size
  BY <1>3, <1>4
<1>8. /\ SubSeq(content, 1, Len(f.got)) \in Seq(Nat) /\ Len(SubSeq(content, 1, Len(f.got))) = Len(f.got)
      /\ \A i \in 1 .. Len(f.got) : SubSeq(content, 1, Len(f.got))[i] = content[i]
  BY <1>2, <1>6, <1>7, CutInTwo
<1>9. \A i \in 1 .. Len(f.got) : f.got[i] = content[i]
  BY <1>2, <1>3, <1>4, <1>5, <1>6 DEF BytesFrom
<1>10. f.got = SubSeq(content, 1, Len(f.got))
  BY <1>2, <1>8, <1>9
<1>11. ASSUME f.ended PROVE f.got = content
  <2>1. Len(f.got) = Len(content) /\ \A i \in 1 .. Len(f.got) : f.got[i] = content[i]
    BY <1>6, <1>7, <1>9, <1>11
  <2> QED
    BY <1>2, <1>7, <2>1
<1> QED
  BY <1>10, <1>11 DEF f, content

\* Whatever the other threads read meanwhile through the same mapping, a file
\* gives the bytes of its own entry in order, and ends when it has given all
\* (zip_input.cpp: Device::File, read_file, seek64_file, File::Read).
THEOREM FilesAreReadApart == SafetySpec => []FilesReadTheirEntry
<1>. USE ComponentsAssumption
<1>1. Init => ZipInv
  BY DEF Init, Zip!Init, ZipInv, ZipTypes, Zip!ZipAssumption, ComponentsAssumption
<1>2. ZipInv /\ [Next]_vars => ZipInv'
  BY ZipMoves, ZipStepKeeps DEF ComponentsAssumption
<1>3. ZipInv => FilesReadTheirEntry
  BY OwnContent DEF ComponentsAssumption
<1> QED
  BY <1>1, <1>2, <1>3, PTL DEF SafetySpec

-----------------------------------------------------------------------------
(* RpcConnector. *)

\* Accepts are posted to the server's thread, ends of connects to the client's.
EventsOf(t) == {IF t = Server THEN "Accept" ELSE "Connected", "Established"} \X Conn!Sockets

QueuesTyped ==
  /\ DOMAIN eventQueue = {Server, Client}
  /\ \A t \in {Server, Client} : eventQueue[t] \in Seq(EventsOf(t))

ConnTypes ==
  /\ allocated \in 0..MaxSockets
  /\ m_internalState \in [Conn!Sockets -> Conn!States]
  /\ m_socket \subseteq 1..allocated
  /\ watches \subseteq Conn!Sockets \X {"Read", "Write"}
  /\ QueuesTyped

\* The sockets that were allocated are divided among those that have them.
Divided ==
  /\ m_internalInterfacesSet \cup m_internalConnectionSet \cup rpcConnections \cup leaked \cup deleted
       = 1..allocated
  /\ m_internalInterfacesSet \cap (m_internalConnectionSet \cup rpcConnections \cup leaked \cup deleted) = {}
  /\ m_internalConnectionSet \cap (rpcConnections \cup leaked \cup deleted) = {}
  /\ rpcConnections \cap (leaked \cup deleted) = {}
  /\ leaked \cap deleted = {}

Listened == rpcListening = m_internalInterfacesSet \cup m_internalConnectionSet

\* A socket has a descriptor in every state but None, and no other.
Opened ==
  /\ \A s \in Conn!Sockets : s \in m_socket <=> m_internalState[s] # "None"
  /\ m_socket \cap deleted = {}

Watched ==
  \A s \in Conn!Sockets, m \in {"Read", "Write"} :
    <<s, m>> \in watches <=> m \in Conn!WatchMode(m_internalState[s])

ConnectorInv == ConnTypes /\ Divided /\ Listened /\ Opened /\ Watched /\ Conn!ConnectionsAreHanded

-----------------------------------------------------------------------------
(* Queues. *)

\* What is appended to a queue is in it, with what was there.
LEMMA AppendAdds ==
  ASSUME NEW S, NEW q \in Seq(S), NEW x \in S
  PROVE  Append(q, x) \in Seq(S) /\ Conn!ToSet(q) \cup {x} \subseteq Conn!ToSet(Append(q, x))
<1>1. /\ Append(q, x) \in Seq(S)
      /\ Len(Append(q, x)) = Len(q) + 1 /\ Append(q, x)[Len(q) + 1] = x
      /\ \A i \in 1..Len(q) : Append(q, x)[i] = q[i]
      /\ Len(q) \in Nat
  OBVIOUS
<1>2. DOMAIN Append(q, x) = 1..Len(q) + 1 /\ DOMAIN q = 1..Len(q)
  BY <1>1
<1> QED
  BY <1>1, <1>2 DEF Conn!ToSet

\* Everything of a queue but its head is in its tail.
LEMMA TailKeeps ==
  ASSUME NEW S, NEW q \in Seq(S), q # <<>>
  PROVE  /\ Head(q) \in S /\ Tail(q) \in Seq(S)
         /\ Conn!ToSet(q) \subseteq Conn!ToSet(Tail(q)) \cup {Head(q)}
<1>1. /\ Head(q) \in S /\ Tail(q) \in Seq(S) /\ Head(q) = q[1]
      /\ Len(q) \in Nat \ {0} /\ Len(Tail(q)) = Len(q) - 1
      /\ \A i \in 1..Len(q) - 1 : Tail(q)[i] = q[i + 1]
  OBVIOUS
<1>2. ASSUME NEW i \in 1..Len(q), i # 1 PROVE q[i] \in Conn!ToSet(Tail(q))
  <2>1. i - 1 \in 1..Len(q) - 1 /\ Tail(q)[i - 1] = q[i]
    BY <1>1, <1>2
  <2>2. DOMAIN Tail(q) = 1..Len(q) - 1
    BY <1>1
  <2> QED
    BY <2>1, <2>2 DEF Conn!ToSet
<1> QED
  BY <1>1, <1>2 DEF Conn!ToSet

\* The event of a connection that is in some queue.
Pending(s) == \E c \in {Server, Client} : <<"Established", s>> \in Conn!ToSet(eventQueue[c])

\* A connection is still handed when no connection comes, none loses its event
\* and nobody forgets that a connector was destroyed.
LEMMA HandedKeeps ==
  ASSUME Conn!ConnectionsAreHanded, rpcConnections' \subseteq rpcConnections,
         handed \subseteq handed', destroyed \subseteq destroyed',
         \A s \in rpcConnections : Pending(s) => Pending(s)' \/ s \in handed'
  PROVE  Conn!ConnectionsAreHanded'
BY DEF Conn!ConnectionsAreHanded, Pending

\* An event is posted: nothing is lost.
LEMMA PostKeeps ==
  ASSUME ConnTypes, NEW t \in {Server, Client}, NEW e \in EventsOf(t), Conn!Post(t, e), NEW s
  PROVE  /\ QueuesTyped'
         /\ Pending(s) => Pending(s)'
         /\ e = <<"Established", s>> => Pending(s)'
<1>1. eventQueue[t] \in Seq(EventsOf(t))
  BY DEF ConnTypes, QueuesTyped
<1>2. Append(eventQueue[t], e) \in Seq(EventsOf(t))
      /\ Conn!ToSet(eventQueue[t]) \cup {e} \subseteq Conn!ToSet(Append(eventQueue[t], e))
  BY <1>1, AppendAdds
<1>3. /\ eventQueue'[t] = Append(eventQueue[t], e)
      /\ \A c \in {Server, Client} : c # t => eventQueue'[c] = eventQueue[c]
      /\ QueuesTyped'
  BY <1>2 DEF Conn!Post, ConnTypes, QueuesTyped
<1> QED
  BY <1>2, <1>3 DEF Pending

SocketBecomes(t, q) == eventQueue' = [eventQueue EXCEPT ![t] = q]

\* The head of a queue is taken, and more may be appended: only the event of the
\* head is not pending any more.
LEMMA TakeKeeps ==
  ASSUME ConnTypes, NEW t \in {Server, Client}, eventQueue[t] # <<>>,
         NEW q \in Seq(EventsOf(t)), SocketBecomes(t, q),
         Conn!ToSet(Tail(eventQueue[t])) \subseteq Conn!ToSet(q), NEW s
  PROVE  /\ QueuesTyped'
         /\ Pending(s) => Pending(s)' \/ Head(eventQueue[t]) = <<"Established", s>>
<1>1. eventQueue[t] \in Seq(EventsOf(t))
  BY DEF ConnTypes, QueuesTyped
<1>2. Conn!ToSet(eventQueue[t]) \subseteq Conn!ToSet(Tail(eventQueue[t])) \cup {Head(eventQueue[t])}
  BY <1>1, TailKeeps
<1>3. /\ eventQueue'[t] = q
      /\ \A c \in {Server, Client} : c # t => eventQueue'[c] = eventQueue[c]
      /\ QueuesTyped'
  BY DEF ConnTypes, QueuesTyped, SocketBecomes
<1> QED
  BY <1>2, <1>3 DEF Pending

-----------------------------------------------------------------------------
(* Sockets. *)

\* The part of the invariant that the objects make up.
ObjectInv ==
  /\ allocated \in 0..MaxSockets
  /\ m_internalState \in [Conn!Sockets -> Conn!States]
  /\ m_socket \subseteq 1..allocated
  /\ watches \subseteq Conn!Sockets \X {"Read", "Write"}
  /\ Opened /\ Watched

\* A state other than None has a mode that is read or written.
LEMMA ModesOfStates ==
  /\ \A state : Conn!WatchMode(state) \subseteq {"Read", "Write"}
  /\ Conn!WatchMode("None") = {} /\ Conn!WatchMode("Prepare") = {}
  /\ Conn!WatchMode("Listening") = {"Read"} /\ Conn!WatchMode("Connected") = {"Read"}
  /\ Conn!WatchMode("Connecting") = {"Write"}
BY DEF Conn!WatchMode

\* A socket that nobody has had yet enters its first state.
LEMMA EnterKeeps ==
  ASSUME Conn!RpcConnectorAssumption, ObjectInv, Divided, Conn!Alloc,
         NEW state \in Conn!States \ {"None"}, Conn!Enter(Conn!New, state), UNCHANGED deleted
  PROVE  ObjectInv'
<1>. DEFINE n == Conn!New
<1>1. /\ n \in Conn!Sockets /\ n \in 1..allocated' /\ allocated' = allocated + 1 /\ allocated' \in 0..MaxSockets
      /\ n \notin 1..allocated /\ 1..allocated \subseteq 1..allocated' /\ allocated \in Nat
  BY DEF Conn!Alloc, Conn!New, ObjectInv, Conn!Sockets, Conn!RpcConnectorAssumption
<1>2. n \notin m_socket /\ n \notin deleted
  BY <1>1 DEF ObjectInv, Divided
<1>3. /\ m_internalState' = [m_internalState EXCEPT ![n] = state]
      /\ watches' = watches \cup ({n} \X Conn!WatchMode(state))
      /\ m_socket' = m_socket \cup {n}
  BY DEF Conn!Enter
<1>4. m_internalState[n] = "None"
  BY <1>1, <1>2 DEF ObjectInv, Opened
<1>5. \A m \in {"Read", "Write"} : <<n, m>> \notin watches
  BY <1>1, <1>4, ModesOfStates DEF ObjectInv, Watched
<1>6. m_internalState' \in [Conn!Sockets -> Conn!States] /\ m_internalState'[n] = state
      /\ \A s \in Conn!Sockets : s # n => m_internalState'[s] = m_internalState[s]
  BY <1>1, <1>3 DEF ObjectInv
<1>7. watches' \subseteq Conn!Sockets \X {"Read", "Write"}
  BY <1>1, <1>3, ModesOfStates DEF ObjectInv
<1>8. Opened'
  BY <1>1, <1>2, <1>3, <1>6 DEF ObjectInv, Opened
<1>9. Watched'
  <2>. SUFFICES ASSUME NEW s \in Conn!Sockets, NEW m \in {"Read", "Write"}
                PROVE  <<s, m>> \in watches' <=> m \in Conn!WatchMode(m_internalState'[s])
    BY DEF Watched, Conn!WatchMode
  <2>1. CASE s = n
    BY <1>3, <1>5, <1>6, <2>1
  <2>2. CASE s # n
    BY <1>3, <1>6, <2>2 DEF ObjectInv, Watched
  <2> QED
    BY <2>1, <2>2
<1> QED
  BY <1>1, <1>3, <1>6, <1>7, <1>8, <1>9 DEF ObjectInv

\* A socket that is closed has neither descriptor nor watch, and may be deleted.
LEMMA CloseKeeps ==
  ASSUME ObjectInv, NEW s \in Conn!Sockets, Conn!CloseSocket(s), UNCHANGED allocated,
         deleted' = deleted \cup {s}
  PROVE  ObjectInv'
<1>1. /\ m_internalState' = [m_internalState EXCEPT ![s] = "None"]
      /\ watches' = watches \ ({s} \X Conn!WatchMode(m_internalState[s]))
      /\ m_socket' = m_socket \ {s}
  BY DEF Conn!CloseSocket
<1>2. m_internalState' \in [Conn!Sockets -> Conn!States] /\ m_internalState'[s] = "None"
      /\ \A u \in Conn!Sockets : u # s => m_internalState'[u] = m_internalState[u]
  BY <1>1 DEF ObjectInv, Conn!States
<1>3. Opened'
  BY <1>1, <1>2 DEF ObjectInv, Opened
<1>4. Watched'
  <2>. SUFFICES ASSUME NEW u \in Conn!Sockets, NEW m \in {"Read", "Write"}
                PROVE  <<u, m>> \in watches' <=> m \in Conn!WatchMode(m_internalState'[u])
    BY DEF Watched, Conn!WatchMode
  <2>1. CASE u = s
    BY <1>1, <1>2, <2>1, ModesOfStates DEF ObjectInv, Watched
  <2>2. CASE u # s
    BY <1>1, <1>2, <2>2 DEF ObjectInv, Watched
  <2> QED
    BY <2>1, <2>2
<1> QED
  BY <1>1, <1>2, <1>3, <1>4 DEF ObjectInv

LEMMA SameObjects ==
  ASSUME ObjectInv, UNCHANGED Conn!objectVars
  PROVE  ObjectInv'
BY DEF ObjectInv, Conn!objectVars, Opened, Watched, Conn!WatchMode

\* The invariant, from its parts.
LEMMA FromParts ==
  ConnectorInv <=> /\ ObjectInv /\ Divided /\ Listened /\ Conn!ConnectionsAreHanded
                   /\ QueuesTyped
BY DEF ConnectorInv, ObjectInv, ConnTypes

-----------------------------------------------------------------------------
(* The steps. *)

LEMMA ConnectReadyKeeps ==
  ASSUME Conn!RpcConnectorAssumption, ConnectorInv, NEW s \in 1..allocated, Conn!ConnectReady(s)
  PROVE  ConnectorInv'
<1>1. s \in Conn!Sockets
  BY DEF ConnectorInv, ConnTypes, Conn!Sockets, Conn!RpcConnectorAssumption
<1>2. /\ m_internalState[s] = "Connecting"
      /\ m_internalState' = [m_internalState EXCEPT ![s] = "Connected"]
      /\ watches' = (watches \ {<<s, "Write">>}) \cup {<<s, "Read">>}
      /\ Conn!Post(Client, <<"Connected", s>>)
      /\ UNCHANGED <<allocated, deleted, m_socket, Conn!connectorVars>>
  BY DEF Conn!ConnectReady
<1>3. ObjectInv /\ ConnTypes /\ Conn!ConnectionsAreHanded
  BY FromParts DEF ConnectorInv
<1>4. m_internalState' \in [Conn!Sockets -> Conn!States] /\ m_internalState'[s] = "Connected"
      /\ \A u \in Conn!Sockets : u # s => m_internalState'[u] = m_internalState[u]
  BY <1>1, <1>2, <1>3 DEF ObjectInv, Conn!States
<1>5. Opened'
  BY <1>1, <1>2, <1>3, <1>4 DEF ObjectInv, Opened
<1>6. Watched'
  <2>. SUFFICES ASSUME NEW u \in Conn!Sockets, NEW m \in {"Read", "Write"}
                PROVE  <<u, m>> \in watches' <=> m \in Conn!WatchMode(m_internalState'[u])
    BY DEF Watched, Conn!WatchMode
  <2>1. CASE u = s
    <3>1. m \in Conn!WatchMode("Connecting") <=> m = "Write"
      BY ModesOfStates
    <3>2. <<s, m>> \in watches <=> m = "Write"
      BY <1>1, <1>2, <1>3, <3>1 DEF ObjectInv, Watched
    <3> QED
      BY <1>2, <1>4, <2>1, <3>2, ModesOfStates
  <2>2. CASE u # s
    BY <1>2, <1>3, <1>4, <2>2 DEF ObjectInv, Watched
  <2> QED
    BY <2>1, <2>2
<1>7. ObjectInv'
  BY <1>1, <1>2, <1>3, <1>4, <1>5, <1>6 DEF ObjectInv
<1>8. <<"Connected", s>> \in EventsOf(Client)
  BY <1>1 DEF EventsOf, Conn!RpcConnectorAssumption
<1>9. QueuesTyped' /\ \A u : Pending(u) => Pending(u)'
  BY <1>2, <1>3, <1>8, PostKeeps
<1>10. Conn!ConnectionsAreHanded'
  BY <1>2, <1>3, <1>9, HandedKeeps DEF Conn!connectorVars
<1>11. Divided' /\ Listened'
  BY <1>2 DEF ConnectorInv, Divided, Listened, Conn!connectorVars
<1> QED
  BY <1>7, <1>9, <1>10, <1>11, FromParts DEF ConnectorInv, ObjectInv, ConnTypes

LEMMA AcceptReadyKeeps ==
  ASSUME Conn!RpcConnectorAssumption, ConnectorInv, NEW s \in 1..allocated, Conn!AcceptReady(s)
  PROVE  ConnectorInv'
<1>1. Conn!Post(Server, <<"Accept", s>>) /\ UNCHANGED <<Conn!objectVars, Conn!connectorVars>>
  BY DEF Conn!AcceptReady
<1>2. ObjectInv /\ ConnTypes /\ Conn!ConnectionsAreHanded /\ Divided /\ Listened
  BY FromParts DEF ConnectorInv
<1>3. <<"Accept", s>> \in EventsOf(Server)
  BY <1>2 DEF EventsOf, ConnTypes, Conn!Sockets, Conn!RpcConnectorAssumption
<1>4. QueuesTyped' /\ \A u : Pending(u) => Pending(u)'
  BY <1>1, <1>2, <1>3, PostKeeps
<1>5. Conn!ConnectionsAreHanded'
  BY <1>1, <1>2, <1>4, HandedKeeps DEF Conn!connectorVars
<1>6. Divided' /\ Listened'
  BY <1>1, <1>2 DEF Divided, Listened, Conn!connectorVars, Conn!objectVars
<1>7. ObjectInv'
  BY <1>1, <1>2, SameObjects
<1>8. ConnTypes'
  BY <1>4, <1>7 DEF ObjectInv, ConnTypes
<1> QED
  BY <1>5, <1>6, <1>7, <1>8 DEF ConnectorInv, ObjectInv

LEMMA FinishConnectKeeps ==
  ASSUME Conn!RpcConnectorAssumption, ConnectorInv, UNCHANGED <<Conn!objectVars, Conn!connectorVars, eventQueue>>
  PROVE  ConnectorInv'
<1>1. ObjectInv'
  BY FromParts, SameObjects
<1>2. Divided' /\ Listened' /\ Conn!ConnectionsAreHanded' /\ ConnTypes'
  BY DEF ConnectorInv, ConnTypes, QueuesTyped, Divided, Listened, Conn!ConnectionsAreHanded, Conn!connectorVars,
     Conn!objectVars
<1> QED
  BY <1>1, <1>2 DEF ConnectorInv, ObjectInv

\* What a new socket is: within the bound and nobody's.
LEMMA NewIsNobodys ==
  ASSUME Conn!RpcConnectorAssumption, ConnectorInv, Conn!Alloc
  PROVE  /\ Conn!New \in Conn!Sockets /\ allocated' = allocated + 1 /\ allocated' \in 0..MaxSockets
         /\ 1..allocated' = (1..allocated) \cup {Conn!New} /\ Conn!New \notin 1..allocated
         /\ m_socket \subseteq 1..allocated'
         /\ Conn!New \notin m_internalInterfacesSet \cup m_internalConnectionSet \cup rpcConnections \cup leaked
                         \cup deleted
<1>1. /\ Conn!New \in Conn!Sockets /\ allocated' = allocated + 1 /\ allocated' \in 0..MaxSockets
      /\ 1..allocated' = (1..allocated) \cup {Conn!New} /\ Conn!New \notin 1..allocated
  BY DEF Conn!Alloc, Conn!New, ConnectorInv, ConnTypes, Conn!Sockets, Conn!RpcConnectorAssumption
<1> QED
  BY <1>1 DEF ConnectorInv, ConnTypes, Divided

LEMMA ServerOpenKeeps ==
  ASSUME Conn!RpcConnectorAssumption, ConnectorInv, Conn!ServerOpen
  PROVE  ConnectorInv'
<1>1. /\ Conn!Alloc /\ Conn!Enter(Conn!New, "Listening")
      /\ rpcListening' = rpcListening \cup {Conn!New}
      /\ m_internalInterfacesSet' = m_internalInterfacesSet \cup {Conn!New}
      /\ UNCHANGED <<deleted, m_internalConnectionSet, rpcConnections, handed, destroyed, leaked, eventQueue>>
  BY DEF Conn!ServerOpen
<1>2. ObjectInv /\ ConnTypes /\ Conn!ConnectionsAreHanded /\ Divided /\ Listened
  BY FromParts DEF ConnectorInv
<1>3. ObjectInv'
  BY <1>1, <1>2, EnterKeeps DEF Conn!States
<1>4. Divided'
  BY <1>1, <1>2, NewIsNobodys DEF Divided
<1>5. Listened' /\ Conn!ConnectionsAreHanded' /\ ConnTypes'
  BY <1>1, <1>2, <1>3 DEF Listened, Conn!ConnectionsAreHanded, ConnTypes, QueuesTyped, ObjectInv
<1> QED
  BY <1>3, <1>4, <1>5 DEF ConnectorInv, ObjectInv

LEMMA OpenFailsKeeps ==
  ASSUME Conn!RpcConnectorAssumption, ConnectorInv, NEW c \in {Server, Client}, Conn!OpenFails(c)
  PROVE  ConnectorInv'
<1>. DEFINE n == Conn!New
<1>1. PICK state \in {"None", "Prepare"} :
        /\ Conn!Alloc
        /\ leaked' = leaked \cup {n}
        /\ m_internalState' = [m_internalState EXCEPT ![n] = state]
        /\ m_socket' = IF state = "Prepare" THEN m_socket \cup {n} ELSE m_socket
        /\ UNCHANGED <<deleted, watches, m_internalInterfacesSet, m_internalConnectionSet, rpcListening,
                       rpcConnections, handed, destroyed, eventQueue>>
  BY DEF Conn!OpenFails
<1>2. ObjectInv /\ ConnTypes /\ Conn!ConnectionsAreHanded /\ Divided /\ Listened
  BY FromParts DEF ConnectorInv
<1>3. /\ n \in Conn!Sockets /\ n \in 1..allocated' /\ n \notin m_socket /\ n \notin deleted
      /\ m_socket \subseteq 1..allocated' /\ allocated' \in 0..MaxSockets
  BY <1>1, <1>2, NewIsNobodys DEF ConnTypes
<1>4. m_internalState' \in [Conn!Sockets -> Conn!States] /\ m_internalState'[n] = state
      /\ \A u \in Conn!Sockets : u # n => m_internalState'[u] = m_internalState[u]
  BY <1>1, <1>2, <1>3 DEF ObjectInv, Conn!States
<1>5. m_internalState[n] = "None"
  BY <1>2, <1>3 DEF ObjectInv, Opened
<1>6. Opened'
  BY <1>1, <1>2, <1>3, <1>4, <1>5 DEF ObjectInv, Opened
<1>7. Watched'
  <2>. SUFFICES ASSUME NEW u \in Conn!Sockets, NEW m \in {"Read", "Write"}
                PROVE  <<u, m>> \in watches' <=> m \in Conn!WatchMode(m_internalState'[u])
    BY DEF Watched, Conn!WatchMode
  <2>1. Conn!WatchMode(m_internalState'[u]) = Conn!WatchMode(m_internalState[u])
    BY <1>4, <1>5, ModesOfStates
  <2> QED
    BY <1>1, <1>2, <2>1 DEF ObjectInv, Watched
<1>8. ObjectInv'
  BY <1>1, <1>2, <1>3, <1>4, <1>6, <1>7 DEF ObjectInv
<1>9. Divided'
  BY <1>1, <1>2, NewIsNobodys DEF Divided
<1>10. Listened' /\ Conn!ConnectionsAreHanded' /\ ConnTypes'
  BY <1>1, <1>2, <1>8 DEF Listened, Conn!ConnectionsAreHanded, ConnTypes, QueuesTyped, ObjectInv
<1> QED
  BY <1>8, <1>9, <1>10 DEF ConnectorInv, ObjectInv

LEMMA ClientOpenKeeps ==
  ASSUME Conn!RpcConnectorAssumption, ConnectorInv, Conn!ClientOpen
  PROVE  ConnectorInv'
<1>1. /\ Conn!Alloc
      /\ rpcListening' = rpcListening \cup {Conn!New}
      /\ m_internalConnectionSet' = m_internalConnectionSet \cup {Conn!New}
      /\ UNCHANGED <<deleted, m_internalInterfacesSet, rpcConnections, handed, destroyed, leaked>>
  BY DEF Conn!ClientOpen
<1>2. ObjectInv /\ ConnTypes /\ Conn!ConnectionsAreHanded /\ Divided /\ Listened
  BY FromParts DEF ConnectorInv
<1>3. <<"Connected", Conn!New>> \in EventsOf(Client)
  BY <1>1, NewIsNobodys DEF EventsOf, Conn!RpcConnectorAssumption
<1>4. PICK state \in {"Connected", "Connecting"} :
        Conn!Enter(Conn!New, state) /\ (Conn!Post(Client, <<"Connected", Conn!New>>) \/ UNCHANGED eventQueue)
  BY DEF Conn!ClientOpen
<1>5. ObjectInv'
  BY <1>1, <1>2, <1>4, EnterKeeps DEF Conn!States
<1>6. QueuesTyped' /\ \A u : Pending(u) => Pending(u)'
  <2>1. CASE Conn!Post(Client, <<"Connected", Conn!New>>)
    BY <1>2, <1>3, <2>1, PostKeeps
  <2>2. CASE UNCHANGED eventQueue
    BY <1>2, <2>2 DEF ConnTypes, QueuesTyped, Pending
  <2> QED
    BY <1>4, <2>1, <2>2
<1>7. Divided'
  BY <1>1, <1>2, NewIsNobodys DEF Divided
<1>8. Conn!ConnectionsAreHanded'
  BY <1>1, <1>2, <1>6, HandedKeeps
<1>9. Listened' /\ ConnTypes'
  BY <1>1, <1>2, <1>5, <1>6 DEF Listened, ConnTypes, ObjectInv
<1> QED
  BY <1>5, <1>7, <1>8, <1>9 DEF ConnectorInv, ObjectInv

LEMMA ServerCloseKeeps ==
  ASSUME Conn!RpcConnectorAssumption, ConnectorInv, NEW s \in 1..allocated, Conn!ServerClose(s)
  PROVE  ConnectorInv'
<1>1. /\ s \in m_internalInterfacesSet /\ Conn!CloseSocket(s)
      /\ rpcListening' = rpcListening \ {s} /\ deleted' = deleted \cup {s}
      /\ m_internalInterfacesSet' = m_internalInterfacesSet \ {s}
      /\ UNCHANGED <<allocated, m_internalConnectionSet, rpcConnections, handed, destroyed, leaked, eventQueue>>
  BY DEF Conn!ServerClose
<1>2. ObjectInv /\ ConnTypes /\ Conn!ConnectionsAreHanded /\ Divided /\ Listened /\ s \in Conn!Sockets
  BY FromParts DEF ConnectorInv, ConnTypes, Conn!Sockets, Conn!RpcConnectorAssumption
<1>3. ObjectInv'
  BY <1>1, <1>2, CloseKeeps
<1>4. Divided' /\ Listened'
  BY <1>1, <1>2 DEF Divided, Listened
<1>5. Conn!ConnectionsAreHanded' /\ ConnTypes'
  BY <1>1, <1>2, <1>3 DEF Conn!ConnectionsAreHanded, ConnTypes, QueuesTyped, ObjectInv
<1> QED
  BY <1>3, <1>4, <1>5 DEF ConnectorInv, ObjectInv

LEMMA ClientCloseKeeps ==
  ASSUME Conn!RpcConnectorAssumption, ConnectorInv, NEW s \in 1..allocated, Conn!ClientClose(s)
  PROVE  ConnectorInv'
<1>1. /\ s \in m_internalConnectionSet /\ Conn!CloseSocket(s)
      /\ rpcListening' = rpcListening \ {s} /\ deleted' = deleted \cup {s}
      /\ m_internalConnectionSet' = m_internalConnectionSet \ {s}
      /\ UNCHANGED <<allocated, m_internalInterfacesSet, rpcConnections, handed, destroyed, leaked, eventQueue>>
  BY DEF Conn!ClientClose
<1>2. ObjectInv /\ ConnTypes /\ Conn!ConnectionsAreHanded /\ Divided /\ Listened /\ s \in Conn!Sockets
  BY FromParts DEF ConnectorInv, ConnTypes, Conn!Sockets, Conn!RpcConnectorAssumption
<1>3. ObjectInv'
  BY <1>1, <1>2, CloseKeeps
<1>4. Divided' /\ Listened'
  BY <1>1, <1>2 DEF Divided, Listened
<1>5. Conn!ConnectionsAreHanded' /\ ConnTypes'
  BY <1>1, <1>2, <1>3 DEF Conn!ConnectionsAreHanded, ConnTypes, QueuesTyped, ObjectInv
<1> QED
  BY <1>3, <1>4, <1>5 DEF ConnectorInv, ObjectInv

LEMMA DeleteConnectionKeeps ==
  ASSUME Conn!RpcConnectorAssumption, ConnectorInv, NEW s \in 1..allocated, Conn!DeleteConnection(s)
  PROVE  ConnectorInv'
<1>1. /\ s \in rpcConnections /\ Conn!CloseSocket(s)
      /\ deleted' = deleted \cup {s} /\ rpcConnections' = rpcConnections \ {s}
      /\ UNCHANGED <<allocated, m_internalInterfacesSet, m_internalConnectionSet, rpcListening, handed,
                     destroyed, leaked, eventQueue>>
  BY DEF Conn!DeleteConnection
<1>2. ObjectInv /\ ConnTypes /\ Conn!ConnectionsAreHanded /\ Divided /\ Listened /\ s \in Conn!Sockets
  BY FromParts DEF ConnectorInv, ConnTypes, Conn!Sockets, Conn!RpcConnectorAssumption
<1>3. ObjectInv'
  BY <1>1, <1>2, CloseKeeps
<1>4. Divided' /\ Listened'
  BY <1>1, <1>2 DEF Divided, Listened
<1>5. Conn!ConnectionsAreHanded' /\ ConnTypes'
  BY <1>1, <1>2, <1>3 DEF Conn!ConnectionsAreHanded, ConnTypes, QueuesTyped, ObjectInv
<1> QED
  BY <1>3, <1>4, <1>5 DEF ConnectorInv, ObjectInv

LEMMA DestroyKeeps ==
  ASSUME Conn!RpcConnectorAssumption, ConnectorInv, NEW c \in {Server, Client}, Conn!Destroy(c)
  PROVE  ConnectorInv'
<1>1. /\ destroyed' = destroyed \cup {c}
      /\ eventQueue' = [eventQueue EXCEPT ![c] = <<>>]
      /\ UNCHANGED <<Conn!objectVars, m_internalInterfacesSet, m_internalConnectionSet, rpcListening,
                     rpcConnections, handed, leaked>>
  BY DEF Conn!Destroy
<1>2. ObjectInv'
  BY <1>1, FromParts, SameObjects
<1>3. Conn!ConnectionsAreHanded'
  BY <1>1 DEF Conn!ConnectionsAreHanded
<1>4. QueuesTyped'
  BY <1>1 DEF ConnectorInv, ConnTypes, QueuesTyped
<1>5. Divided' /\ Listened'
  BY <1>1 DEF ConnectorInv, Divided, Listened, Conn!objectVars
<1> QED
  BY <1>2, <1>3, <1>4, <1>5 DEF ConnectorInv, ObjectInv, ConnTypes

-----------------------------------------------------------------------------
(* The handlers of events. *)

LEMMA HandleAcceptKeeps ==
  ASSUME Conn!RpcConnectorAssumption, ConnectorInv, NEW s,
         eventQueue[Server] # <<>>, Head(eventQueue[Server]) = <<"Accept", s>>, Conn!HandleAccept(s)
  PROVE  ConnectorInv'
<1>1. ObjectInv /\ ConnTypes /\ Conn!ConnectionsAreHanded /\ Divided /\ Listened
  BY FromParts DEF ConnectorInv
<1>2. Tail(eventQueue[Server]) \in Seq(EventsOf(Server))
  BY <1>1, TailKeeps DEF ConnTypes, QueuesTyped
<1>3. CASE eventQueue' = [eventQueue EXCEPT ![Server] = Tail(@)] /\ UNCHANGED <<Conn!objectVars, Conn!connectorVars>>
  <2>1. QueuesTyped' /\ \A u : Pending(u) => Pending(u)'
    <3>1. SocketBecomes(Server, Tail(eventQueue[Server]))
      BY <1>3 DEF SocketBecomes
    <3>2. \A u : Head(eventQueue[Server]) # <<"Established", u>>
      OBVIOUS
    <3> QED
      BY <1>1, <1>2, <3>1, <3>2, TakeKeeps
  <2>2. ObjectInv' /\ Divided' /\ Listened'
    BY <1>1, <1>3, SameObjects DEF Divided, Listened, Conn!connectorVars, Conn!objectVars
  <2>3. Conn!ConnectionsAreHanded'
    BY <1>1, <1>3, <2>1, HandedKeeps DEF Conn!connectorVars
  <2> QED
    BY <2>1, <2>2, <2>3 DEF ConnectorInv, ObjectInv, ConnTypes
<1>4. CASE /\ Conn!Alloc /\ Conn!Enter(Conn!New, "Connected")
           /\ rpcConnections' = rpcConnections \cup {Conn!New}
           /\ eventQueue' = [eventQueue EXCEPT ![Server] = Append(Tail(@), <<"Established", Conn!New>>)]
           /\ UNCHANGED <<deleted, m_internalInterfacesSet, m_internalConnectionSet, rpcListening, handed,
                          destroyed, leaked>>
  <2>. DEFINE e == <<"Established", Conn!New>>
              q == Append(Tail(eventQueue[Server]), e)
  <2>1. e \in EventsOf(Server)
    BY <1>4, NewIsNobodys DEF EventsOf
  <2>2. q \in Seq(EventsOf(Server)) /\ Conn!ToSet(Tail(eventQueue[Server])) \subseteq Conn!ToSet(q) /\ e \in Conn!ToSet(q)
    BY <1>2, <2>1, AppendAdds
  <2>3. SocketBecomes(Server, q) /\ eventQueue'[Server] = q
    BY <1>1, <1>4 DEF SocketBecomes, ConnTypes, QueuesTyped
  <2>4. QueuesTyped' /\ \A u : Pending(u) => Pending(u)'
    <3>. HIDE DEF q, e
    <3> QED
      BY <1>1, <2>2, <2>3, TakeKeeps
  <2>5. \E c \in {Server, Client} : <<"Established", Conn!New>> \in Conn!ToSet(eventQueue'[c])
    BY <2>2, <2>3
  <2>6. ObjectInv'
    BY <1>1, <1>4, EnterKeeps DEF Conn!States
  <2>7. Divided'
    BY <1>1, <1>4, NewIsNobodys DEF Divided
  <2>8. Conn!ConnectionsAreHanded'
    BY <1>1, <1>4, <2>4, <2>5 DEF Conn!ConnectionsAreHanded, Pending
  <2>9. Listened' /\ ConnTypes'
    BY <1>1, <1>4, <2>4, <2>6 DEF Listened, ConnTypes, ObjectInv
  <2> QED
    BY <2>6, <2>7, <2>8, <2>9 DEF ConnectorInv, ObjectInv
<1> QED
  BY <1>3, <1>4 DEF Conn!HandleAccept

LEMMA HandleConnectedKeeps ==
  ASSUME Conn!RpcConnectorAssumption, ConnectorInv, NEW s, NEW c \in {Server, Client}, eventQueue[Client] # <<>>,
         \A u : Head(eventQueue[Client]) # <<"Established", u>>, Conn!HandleConnected(s)
  PROVE  ConnectorInv'
<1>1. ObjectInv /\ ConnTypes /\ Conn!ConnectionsAreHanded /\ Divided /\ Listened
  BY FromParts DEF ConnectorInv
<1>2. Tail(eventQueue[Client]) \in Seq(EventsOf(Client))
  BY <1>1, TailKeeps DEF ConnTypes, QueuesTyped
<1>3. CASE eventQueue' = [eventQueue EXCEPT ![Client] = Tail(@)] /\ UNCHANGED <<Conn!objectVars, Conn!connectorVars>>
  <2>1. QueuesTyped' /\ \A u : Pending(u) => Pending(u)'
    <3>1. SocketBecomes(Client, Tail(eventQueue[Client]))
      BY <1>3 DEF SocketBecomes
    <3> QED
      BY <1>1, <1>2, <3>1, TakeKeeps
  <2>2. ObjectInv' /\ Divided' /\ Listened'
    BY <1>1, <1>3, SameObjects DEF Divided, Listened, Conn!connectorVars, Conn!objectVars
  <2>3. Conn!ConnectionsAreHanded'
    BY <1>1, <1>3, <2>1, HandedKeeps DEF Conn!connectorVars
  <2> QED
    BY <2>1, <2>2, <2>3 DEF ConnectorInv, ObjectInv, ConnTypes
<1>4. CASE /\ s \in m_internalConnectionSet
           /\ m_internalConnectionSet' = m_internalConnectionSet \ {s}
           /\ rpcListening' = rpcListening \ {s}
           /\ rpcConnections' = rpcConnections \cup {s}
           /\ eventQueue' = [eventQueue EXCEPT ![Client] = Append(Tail(@), <<"Established", s>>)]
           /\ UNCHANGED <<Conn!objectVars, m_internalInterfacesSet, handed, destroyed, leaked>>
  <2>. DEFINE e == <<"Established", s>>
              q == Append(Tail(eventQueue[Client]), e)
  <2>1. e \in EventsOf(Client)
    BY <1>1, <1>4 DEF EventsOf, Divided, ConnTypes, Conn!Sockets, Conn!RpcConnectorAssumption
  <2>2. q \in Seq(EventsOf(Client)) /\ Conn!ToSet(Tail(eventQueue[Client])) \subseteq Conn!ToSet(q) /\ e \in Conn!ToSet(q)
    BY <1>2, <2>1, AppendAdds
  <2>3. SocketBecomes(Client, q) /\ eventQueue'[Client] = q
    BY <1>1, <1>4 DEF SocketBecomes, ConnTypes, QueuesTyped
  <2>4. QueuesTyped' /\ \A u : Pending(u) => Pending(u)'
    <3>. HIDE DEF q, e
    <3> QED
      BY <1>1, <2>2, <2>3, TakeKeeps
  <2>5. Pending(s)'
    BY <2>2, <2>3 DEF Pending
  <2>6. ObjectInv'
    BY <1>1, <1>4, SameObjects
  <2>7. Divided' /\ Listened'
    BY <1>1, <1>4 DEF Divided, Listened, Conn!objectVars
  <2>8. Conn!ConnectionsAreHanded'
    BY <1>1, <1>4, <2>4, <2>5 DEF Conn!ConnectionsAreHanded, Pending
  <2> QED
    BY <2>4, <2>6, <2>7, <2>8 DEF ConnectorInv, ObjectInv, ConnTypes
<1> QED
  BY <1>3, <1>4 DEF Conn!HandleConnected

LEMMA HandleEstablishedKeeps ==
  ASSUME Conn!RpcConnectorAssumption, ConnectorInv, NEW c \in {Server, Client}, NEW s, eventQueue[c] # <<>>,
         Head(eventQueue[c]) = <<"Established", s>>, Conn!HandleEstablished(c, s)
  PROVE  ConnectorInv'
<1>1. /\ handed' = handed \cup {s} /\ eventQueue' = [eventQueue EXCEPT ![c] = Tail(@)]
      /\ UNCHANGED <<Conn!objectVars, m_internalInterfacesSet, m_internalConnectionSet, rpcListening,
                     rpcConnections, destroyed, leaked>>
  BY DEF Conn!HandleEstablished
<1>2. ObjectInv /\ ConnTypes /\ Conn!ConnectionsAreHanded /\ Divided /\ Listened
  BY FromParts DEF ConnectorInv
<1>3. Tail(eventQueue[c]) \in Seq(EventsOf(c)) /\ SocketBecomes(c, Tail(eventQueue[c]))
  BY <1>1, <1>2, TailKeeps DEF ConnTypes, QueuesTyped, SocketBecomes
<1>4. /\ QueuesTyped'
      /\ \A u : Pending(u) => Pending(u)' \/ <<"Established", s>> = <<"Established", u>>
  BY <1>1, <1>2, <1>3, TakeKeeps
<1>5. Conn!ConnectionsAreHanded'
  BY <1>1, <1>2, <1>4, HandedKeeps
<1>6. ObjectInv' /\ Divided' /\ Listened'
  BY <1>1, <1>2, SameObjects DEF Divided, Listened, Conn!objectVars
<1> QED
  BY <1>4, <1>5, <1>6 DEF ConnectorInv, ObjectInv, ConnTypes

LEMMA HandleEventKeeps ==
  ASSUME Conn!RpcConnectorAssumption, ConnectorInv, NEW c \in {Server, Client}, Conn!HandleEvent(c)
  PROVE  ConnectorInv'
<1>. DEFINE e == Head(eventQueue[c])
<1>1. eventQueue[c] # <<>> /\ e \in EventsOf(c)
  BY TailKeeps DEF Conn!HandleEvent, ConnectorInv, ConnTypes, QueuesTyped
<1>2. e = <<e[1], e[2]>>
  BY <1>1 DEF EventsOf
<1>3. CASE e[1] = "Accept" /\ Conn!HandleAccept(e[2])
  <2>1. c = Server
    BY <1>1, <1>3 DEF EventsOf
  <2> QED
    BY <1>1, <1>2, <1>3, <2>1, HandleAcceptKeeps
<1>4. CASE e[1] = "Connected" /\ Conn!HandleConnected(e[2])
  <2>1. c = Client
    BY <1>1, <1>4 DEF EventsOf
  <2>2. \A u : e # <<"Established", u>>
    BY <1>4
  <2> QED
    BY <1>1, <1>4, <2>1, <2>2, HandleConnectedKeeps
<1>5. CASE e[1] = "Established" /\ Conn!HandleEstablished(c, e[2])
  BY <1>1, <1>2, <1>5, HandleEstablishedKeeps
<1> QED
  BY <1>3, <1>4, <1>5 DEF Conn!HandleEvent

\* The invariant says of each socket that it belongs to one of those who can
\* have it.
LEMMA OneOwner ==
  ASSUME Divided, Listened, Opened
  PROVE  Conn!OwnedOnce
<1>. SUFFICES ASSUME NEW s \in 1..allocated
     PROVE  LET places == <<m_internalInterfacesSet, m_internalConnectionSet, rpcConnections, leaked, deleted>>
                owners == {i \in 1..5 : s \in places[i]}
            IN /\ Cardinality(owners) = 1
               /\ s \in deleted => s \notin m_socket
               /\ s \in rpcListening <=> s \in m_internalInterfacesSet \cup m_internalConnectionSet
  BY DEF Conn!OwnedOnce, Conn!Cardinality, Cardinality
<1>. DEFINE places == <<m_internalInterfacesSet, m_internalConnectionSet, rpcConnections, leaked, deleted>>
            owners == {i \in 1..5 : s \in places[i]}
<1>1. \E i \in 1..5 : s \in places[i] /\ \A j \in 1..5 : s \in places[j] => j = i
  <2>1. /\ places[1] = m_internalInterfacesSet /\ places[2] = m_internalConnectionSet
        /\ places[3] = rpcConnections /\ places[4] = leaked /\ places[5] = deleted
    OBVIOUS
  <2>2. \A j \in 1..5 : j \in {1, 2, 3, 4, 5}
    OBVIOUS
  <2>3. 1 \in 1..5 /\ 2 \in 1..5 /\ 3 \in 1..5 /\ 4 \in 1..5 /\ 5 \in 1..5
    OBVIOUS
  <2>. HIDE DEF places
  <2>4. CASE s \in m_internalInterfacesSet
    BY <2>1, <2>2, <2>3, <2>4 DEF Divided
  <2>5. CASE s \in m_internalConnectionSet
    BY <2>1, <2>2, <2>3, <2>5 DEF Divided
  <2>6. CASE s \in rpcConnections
    BY <2>1, <2>2, <2>3, <2>6 DEF Divided
  <2>7. CASE s \in leaked
    BY <2>1, <2>2, <2>3, <2>7 DEF Divided
  <2>8. CASE s \in deleted
    BY <2>1, <2>2, <2>3, <2>8 DEF Divided
  <2> QED
    BY <2>4, <2>5, <2>6, <2>7, <2>8 DEF Divided
<1>2. \E i : owners = {i}
  BY <1>1
<1>3. Cardinality(owners) = 1
  BY <1>2, FS_Singleton
<1> QED
  BY <1>3 DEF Opened, Listened

\* A socket that is open has the watch of its state and no other.
LEMMA OnlyItsWatch ==
  ASSUME Conn!RpcConnectorAssumption, ConnTypes, Opened, Watched
  PROVE  Conn!WatchesMatchState
<1>1. m_socket \subseteq Conn!Sockets
  BY DEF ConnTypes, Conn!Sockets, Conn!RpcConnectorAssumption
<1>2. ASSUME NEW s \in Conn!Sockets, NEW m \in {"Read", "Write"}
      PROVE  <<s, m>> \in watches <=> s \in m_socket /\ m \in Conn!WatchMode(m_internalState[s])
  BY ModesOfStates DEF Opened, Watched
<1>3. ASSUME NEW w \in watches PROVE w \in UNION {{s} \X Conn!WatchMode(m_internalState[s]) : s \in m_socket}
  <2>1. w[1] \in Conn!Sockets /\ w[2] \in {"Read", "Write"} /\ w = <<w[1], w[2]>>
    BY DEF ConnTypes
  <2>2. w[1] \in m_socket /\ w[2] \in Conn!WatchMode(m_internalState[w[1]])
    BY <1>2, <2>1
  <2>3. w \in {w[1]} \X Conn!WatchMode(m_internalState[w[1]])
    BY <2>1, <2>2
  <2> QED
    BY <2>2, <2>3
<1>4. ASSUME NEW s \in m_socket, NEW w \in {s} \X Conn!WatchMode(m_internalState[s]) PROVE w \in watches
  <2>1. w = <<s, w[2]>> /\ w[2] \in Conn!WatchMode(m_internalState[s])
    OBVIOUS
  <2>2. w[2] \in {"Read", "Write"}
    BY <2>1, ModesOfStates
  <2> QED
    BY <1>1, <1>2, <2>1, <2>2
<1> QED
  BY <1>3, <1>4 DEF Conn!WatchesMatchState

LEMMA InitialInv == Conn!RpcConnectorAssumption /\ Conn!Init => ConnectorInv
<1>. SUFFICES ASSUME Conn!RpcConnectorAssumption, Conn!Init PROVE ConnectorInv
  OBVIOUS
<1>1. ConnTypes
  BY DEF Conn!Init, ConnTypes, QueuesTyped, Conn!States, Conn!RpcConnectorAssumption
<1>2. 1..allocated = {}
  BY DEF Conn!Init
<1>3. Divided /\ Listened /\ Opened /\ Conn!ConnectionsAreHanded
  BY <1>2 DEF Conn!Init, Divided, Listened, Opened, Conn!ConnectionsAreHanded
<1>4. Watched
  BY ModesOfStates DEF Conn!Init, Watched
<1> QED
  BY <1>1, <1>3, <1>4 DEF ConnectorInv

LEMMA ConnStepKeeps == Conn!RpcConnectorAssumption /\ ConnectorInv /\ [Conn!Next]_(Conn!vars) => ConnectorInv'
<1>. SUFFICES ASSUME Conn!RpcConnectorAssumption, ConnectorInv, [Conn!Next]_(Conn!vars) PROVE ConnectorInv'
  OBVIOUS
<1>1. ASSUME NEW s \in 1..allocated, Conn!FinishConnect(s) PROVE ConnectorInv'
  BY <1>1, FinishConnectKeeps DEF Conn!FinishConnect
<1>2. CASE UNCHANGED Conn!vars
  BY <1>2, FinishConnectKeeps DEF Conn!vars
<1>3. CASE Conn!Next
  BY <1>1, <1>3, ServerOpenKeeps, ClientOpenKeeps, OpenFailsKeeps, HandleEventKeeps, DestroyKeeps,
     ConnectReadyKeeps, AcceptReadyKeeps, ServerCloseKeeps, ClientCloseKeeps,
     DeleteConnectionKeeps DEF Conn!Next
<1> QED
  BY <1>2, <1>3

\* Every socket object has one owner that will delete it, or was deleted, or is
\* one that a failed Open has forgotten; it is watched as its state asks; and
\* its RPC connection reaches the application (generic_socket.h: Open, Close,
\* OnWaitableHandleEvent; generic_socket_rpc_server.h, generic_socket_rpc_client.h:
\* OnEventReceived, Close, whatever order events, closes and failures come in).
THEOREM EveryConnectionIsHanded == SafetySpec => []ConnectionsAreHanded
<1>1. Init => ConnectorInv
  BY ComponentsAssumption, InitialInv DEF Init, ComponentsAssumption
<1>2. ConnectorInv /\ [Next]_vars => ConnectorInv'
  BY ComponentsAssumption, ConnMoves, ConnStepKeeps DEF ComponentsAssumption
<1>3. ConnectorInv => ConnectionsAreHanded
  BY ComponentsAssumption, OneOwner, OnlyItsWatch
     DEF ConnectorInv, ConnectionsAreHanded, ComponentsAssumption
<1> QED
  BY <1>1, <1>2, <1>3, PTL DEF SafetySpec

-----------------------------------------------------------------------------
(* EvasObject. *)

EvasTypes ==
  /\ sharedMade \in 0 .. MaxShared
  /\ evasHandle \in [EvasHandles -> 0 .. sharedMade]
  /\ object \in [Evas!Shared -> EvasObjects \cup {Nobody}]
  /\ connected \in Nat
  /\ evasAlive \subseteq EvasObjects
  /\ evasConnections \subseteq
       [id : 1 .. connected, shared : Evas!Shared, event : SmartEvents \cup EvasEvents]

\* An object is wrapped once, connections have numbers of their own, and those
\* of a shared object go with its pointer.
WrappedInv ==
  /\ \A s, t \in Evas!Shared : object[s] = object[t] /\ object[s] # Nobody => s = t
  /\ \A s \in Evas!Shared : s > sharedMade => object[s] = Nobody
  /\ \A c, d \in evasConnections : c.id = d.id => c = d
  /\ \A c \in evasConnections : object[c.shared] # Nobody

EvasInv == EvasTypes /\ WrappedInv /\ CallbacksAreLive

\* The callback that the toolkit has for a connection, and the one for the
\* deletion of a shared object's.
Callback(c) == [object |-> object[c.shared], event |-> c.event, id |-> c.id]

Callbacks == {Callback(c) : c \in evasConnections}
Deletions == {<< object[s], s >> : s \in {t \in Evas!Shared : object[t] # Nobody}}

LEMMA LiveIsThis ==
  CallbacksAreLive <=>
    /\ registered = Callbacks
    /\ onDelete = Deletions
    /\ \A s \in Evas!Shared : object[s] \in evasAlive \cup {Nobody}
    /\ \A s \in Evas!Shared : object[s] # Nobody => \E h \in EvasHandles : evasHandle[h] = s
BY DEF CallbacksAreLive, Evas!CallbacksAreLive, Callbacks, Callback, Deletions, Evas!Wrapped

\* Connections that go take their callbacks with them, because of the numbers.
LEMMA DisconnectedCallbacks ==
  ASSUME EvasInv, NEW cs \in SUBSET evasConnections, Evas!Disconnected(cs),
         \A c \in evasConnections \ cs : object'[c.shared] = object[c.shared]
  PROVE  registered' = Callbacks' /\ evasConnections' = evasConnections \ cs
<1>1. evasConnections' = evasConnections \ cs
      /\ registered' = {r \in registered : r.id \notin {c.id : c \in cs}}
  BY DEF Evas!Disconnected, Evas!Ids
<1>2. registered = Callbacks /\ \A c \in evasConnections : Callback(c).id = c.id
  BY LiveIsThis DEF EvasInv, Callback
<1>3. \A c \in evasConnections : c.id \in {d.id : d \in cs} <=> c \in cs
  BY DEF EvasInv, WrappedInv
<1>4. \A c \in evasConnections \ cs : Callback(c)' = Callback(c)
  BY DEF Callback
<1>5. registered' = {Callback(c) : c \in evasConnections \ cs}
  BY <1>1, <1>2, <1>3 DEF Callbacks
<1>6. Callbacks' = {Callback(c)' : c \in evasConnections \ cs}
  BY <1>1 DEF Callbacks
<1> QED
  BY <1>1, <1>4, <1>5, <1>6

LEMMA ConstructKeeps ==
  ASSUME Evas!EvasObjectAssumption, EvasInv,
         NEW h \in EvasHandles, NEW o \in evasAlive \cup {Nobody}, Evas!Construct(h, o)
  PROVE  EvasInv'
<1>1. /\ evasHandle[h] = 0 /\ sharedMade < MaxShared /\ o \notin Evas!Wrapped \ {Nobody}
      /\ sharedMade' = sharedMade + 1
      /\ evasHandle' = [evasHandle EXCEPT ![h] = sharedMade']
      /\ object' = [object EXCEPT ![sharedMade'] = o]
      /\ onDelete' = IF o = Nobody THEN onDelete ELSE onDelete \cup {<< o, sharedMade' >>}
      /\ UNCHANGED << evasConnections, registered, evasAlive, connected >>
  BY DEF Evas!Construct
<1>2. /\ sharedMade' \in Evas!Shared /\ sharedMade' > sharedMade /\ object[sharedMade'] = Nobody
      /\ sharedMade \in Nat /\ MaxShared \in Nat
  BY <1>1 DEF EvasInv, EvasTypes, WrappedInv, Evas!Shared, Evas!EvasObjectAssumption
<1>3. EvasTypes'
  BY <1>1, <1>2 DEF EvasInv, EvasTypes, Evas!EvasObjectAssumption
<1>4. object'[sharedMade'] = o /\ \A s \in Evas!Shared \ {sharedMade'} : object'[s] = object[s]
  BY <1>1, <1>2 DEF EvasInv, EvasTypes
<1>5. \A s \in Evas!Shared : o # Nobody => object[s] # o
  BY <1>1 DEF Evas!Wrapped
<1>6. \A c \in evasConnections : c.shared \in Evas!Shared /\ c.shared # sharedMade'
  BY <1>2 DEF EvasInv, EvasTypes, WrappedInv
<1>7. WrappedInv'
  <2>1. \A s \in Evas!Shared : s \in Nat
    BY DEF Evas!Shared
  <2>2. \A s \in Evas!Shared : s > sharedMade' => object'[s] = Nobody
    BY <1>1, <1>2, <1>4, <2>1 DEF EvasInv, WrappedInv
  <2>3. \A s, t \in Evas!Shared : object'[s] = object'[t] /\ object'[s] # Nobody => s = t
    BY <1>4, <1>5 DEF EvasInv, WrappedInv
  <2> QED
    BY <1>1, <1>4, <1>6, <2>2, <2>3 DEF EvasInv, WrappedInv
<1>8. registered' = Callbacks'
  <2>1. \A c \in evasConnections : Callback(c)' = Callback(c)
    BY <1>4, <1>6 DEF Callback
  <2>2. registered = Callbacks
    BY LiveIsThis DEF EvasInv
  <2> QED
    BY <1>1, <2>1, <2>2 DEF Callbacks
<1>9. onDelete' = Deletions'
  <2>1. onDelete = Deletions
    BY LiveIsThis DEF EvasInv
  <2>2. Deletions' = {<< object'[s], s >> : s \in {t \in Evas!Shared : object'[t] # Nobody}}
    BY DEF Deletions
  <2>3. {t \in Evas!Shared : object'[t] # Nobody} =
          {t \in Evas!Shared : object[t] # Nobody} \cup (IF o = Nobody THEN {} ELSE {sharedMade'})
    BY <1>2, <1>4
  <2> QED
    BY <1>1, <1>2, <1>4, <2>1, <2>2, <2>3 DEF Deletions
<1>10. \A s \in Evas!Shared : object'[s] # Nobody => \E g \in EvasHandles : evasHandle'[g] = s
  <2>1. \A s \in Evas!Shared : object[s] # Nobody => \E g \in EvasHandles : evasHandle[g] = s
    BY LiveIsThis DEF EvasInv
  <2>2. evasHandle'[h] = sharedMade' /\ \A g \in EvasHandles \ {h} : evasHandle'[g] = evasHandle[g]
    BY <1>1 DEF EvasInv, EvasTypes
  <2>3. \A s \in Evas!Shared : s # 0
    BY DEF Evas!Shared
  <2> QED
    BY <1>1, <1>4, <2>1, <2>2, <2>3
<1>11. \A s \in Evas!Shared : object'[s] \in evasAlive' \cup {Nobody}
  BY <1>1, <1>4, LiveIsThis DEF EvasInv
<1>12. CallbacksAreLive'
  BY <1>8, <1>9, <1>10, <1>11 DEF CallbacksAreLive, Evas!CallbacksAreLive, Callbacks, Callback, Deletions, Evas!Wrapped
<1> QED
  BY <1>3, <1>7, <1>12 DEF EvasInv

LEMMA SetObjectKeeps ==
  ASSUME Evas!EvasObjectAssumption, EvasInv,
         NEW h \in EvasHandles, NEW o \in evasAlive, Evas!SetObject(h, o)
  PROVE  EvasInv'
<1>. DEFINE s == evasHandle[h]
<1>1. /\ s # 0 /\ object[s] = Nobody /\ o \notin Evas!Wrapped
      /\ object' = [object EXCEPT ![s] = o]
      /\ onDelete' = onDelete \cup {<< o, s >>}
      /\ UNCHANGED << evasHandle, evasConnections, registered, evasAlive, sharedMade, connected >>
  BY DEF Evas!SetObject
<1>2. s \in Evas!Shared /\ s <= sharedMade /\ o # Nobody /\ o \in EvasObjects
  BY <1>1 DEF EvasInv, EvasTypes, Evas!Shared, Evas!EvasObjectAssumption
<1>3. EvasTypes'
  BY <1>1, <1>2 DEF EvasInv, EvasTypes
<1>4. object'[s] = o /\ \A t \in Evas!Shared \ {s} : object'[t] = object[t]
  BY <1>1, <1>2 DEF EvasInv, EvasTypes
<1>5. \A t \in Evas!Shared : object[t] # o
  BY <1>1 DEF Evas!Wrapped
<1>6. \A c \in evasConnections : c.shared \in Evas!Shared /\ c.shared # s
  BY <1>1 DEF EvasInv, EvasTypes, WrappedInv
<1>7. WrappedInv'
  <2>1. \A t \in Evas!Shared : t > sharedMade => t # s
    BY <1>2 DEF Evas!Shared, EvasInv, EvasTypes, Evas!EvasObjectAssumption
  <2> QED
    BY <1>1, <1>4, <1>5, <1>6, <2>1 DEF EvasInv, WrappedInv
<1>8. registered' = Callbacks'
  <2>1. \A c \in evasConnections : Callback(c)' = Callback(c)
    BY <1>4, <1>6 DEF Callback
  <2>2. registered = Callbacks
    BY LiveIsThis DEF EvasInv
  <2> QED
    BY <1>1, <2>1, <2>2 DEF Callbacks
<1>9. onDelete' = Deletions'
  <2>1. onDelete = Deletions
    BY LiveIsThis DEF EvasInv
  <2>2. Deletions' = {<< object'[t], t >> : t \in {u \in Evas!Shared : object'[u] # Nobody}}
    BY DEF Deletions
  <2>3. {u \in Evas!Shared : object'[u] # Nobody} = {u \in Evas!Shared : object[u] # Nobody} \cup {s}
    BY <1>2, <1>4
  <2> QED
    BY <1>1, <1>4, <2>1, <2>2, <2>3 DEF Deletions
<1>10. \A t \in Evas!Shared : object'[t] # Nobody => \E g \in EvasHandles : evasHandle'[g] = t
  BY <1>1, <1>4, LiveIsThis DEF EvasInv
<1>11. \A t \in Evas!Shared : object'[t] \in evasAlive' \cup {Nobody}
  BY <1>1, <1>4, LiveIsThis DEF EvasInv
<1>12. CallbacksAreLive'
  BY <1>8, <1>9, <1>10, <1>11 DEF CallbacksAreLive, Evas!CallbacksAreLive, Callbacks, Callback, Deletions, Evas!Wrapped
<1> QED
  BY <1>3, <1>7, <1>12 DEF EvasInv

LEMMA CopyKeeps ==
  ASSUME Evas!EvasObjectAssumption, EvasInv,
         NEW h \in EvasHandles, NEW other \in EvasHandles, Evas!Copy(h, other)
  PROVE  EvasInv'
<1>1. /\ evasHandle[h] = 0
      /\ evasHandle' = [evasHandle EXCEPT ![h] = evasHandle[other]]
      /\ UNCHANGED << object, evasConnections, registered, onDelete, evasAlive, sharedMade, connected >>
  BY DEF Evas!Copy, Evas!sharedVars
<1>2. EvasTypes' /\ WrappedInv'
  BY <1>1 DEF EvasInv, EvasTypes, WrappedInv
<1>3. \A g \in EvasHandles \ {h} : evasHandle'[g] = evasHandle[g]
  BY <1>1 DEF EvasInv, EvasTypes
<1>4. \A s \in Evas!Shared : s # 0
  BY DEF Evas!Shared
<1>5. CallbacksAreLive'
  BY <1>1, <1>3, <1>4 DEF EvasInv, CallbacksAreLive, Evas!CallbacksAreLive, Evas!Wrapped
<1> QED
  BY <1>2, <1>5 DEF EvasInv

\* The pointer of a shared object goes with its connections.
LEMMA PointerGoes ==
  ASSUME Evas!EvasObjectAssumption, EvasInv, NEW s \in Evas!Shared,
         object' = [object EXCEPT ![s] = Nobody],
         evasConnections' = evasConnections \ Evas!ConnectionsOf(s),
         evasAlive' \subseteq EvasObjects,
         UNCHANGED << sharedMade, connected >>,
         evasHandle' \in [EvasHandles -> 0 .. sharedMade]
  PROVE  /\ EvasTypes' /\ WrappedInv'
         /\ object'[s] = Nobody /\ \A t \in Evas!Shared \ {s} : object'[t] = object[t]
         /\ \A c \in evasConnections \ Evas!ConnectionsOf(s) :
              c.shared \in Evas!Shared \ {s} /\ object'[c.shared] = object[c.shared]
<1>1. object'[s] = Nobody /\ \A t \in Evas!Shared \ {s} : object'[t] = object[t]
  BY DEF EvasInv, EvasTypes
<1>2. EvasTypes'
  BY DEF EvasInv, EvasTypes, Evas!EvasObjectAssumption
<1>3. \A c \in evasConnections \ Evas!ConnectionsOf(s) :
        c.shared \in Evas!Shared \ {s} /\ object'[c.shared] = object[c.shared]
  BY <1>1 DEF EvasInv, EvasTypes, Evas!ConnectionsOf
<1>4. WrappedInv'
  BY <1>1, <1>3 DEF EvasInv, WrappedInv
<1> QED
  BY <1>1, <1>2, <1>3, <1>4

LEMMA DetachKeeps ==
  ASSUME Evas!EvasObjectAssumption, EvasInv, NEW h \in EvasHandles,
         NEW then \in {0} \cup {evasHandle[g] : g \in EvasHandles}, Evas!Detach(h, then)
  PROVE  EvasInv'
<1>. DEFINE s == evasHandle[h]
<1>1. /\ s # 0 /\ then # s
      /\ evasHandle' = [evasHandle EXCEPT ![h] = then]
      /\ UNCHANGED << evasAlive, sharedMade, connected >>
      /\ IF \A other \in EvasHandles : evasHandle'[other] # s
         THEN Evas!Destroyed(s)
         ELSE UNCHANGED << object, evasConnections, registered, onDelete >>
  BY DEF Evas!Detach, Evas!sharedVars
<1>2. /\ evasHandle' \in [EvasHandles -> 0 .. sharedMade]
      /\ s \in Evas!Shared
      /\ \A g \in EvasHandles \ {h} : evasHandle'[g] = evasHandle[g]
  BY <1>1 DEF EvasInv, EvasTypes, Evas!Shared, Evas!EvasObjectAssumption
<1>3. \A t \in Evas!Shared \ {s} :
        (\E g \in EvasHandles : evasHandle[g] = t) => (\E g \in EvasHandles : evasHandle'[g] = t)
  BY <1>1, <1>2
<1>4. CASE ~ \A other \in EvasHandles : evasHandle'[other] # s
  <2>1. UNCHANGED << object, evasConnections, registered, onDelete >>
    BY <1>1, <1>4
  <2>2. EvasTypes' /\ WrappedInv'
    BY <1>1, <1>2, <2>1 DEF EvasInv, EvasTypes, WrappedInv
  <2>3. \A t \in Evas!Shared : object'[t] # Nobody => \E g \in EvasHandles : evasHandle'[g] = t
    BY <1>3, <1>4, <2>1, LiveIsThis DEF EvasInv
  <2>4. CallbacksAreLive'
    BY <1>1, <2>1, <2>3 DEF EvasInv, CallbacksAreLive, Evas!CallbacksAreLive, Evas!Wrapped
  <2> QED
    BY <2>2, <2>4 DEF EvasInv
<1>5. CASE \A other \in EvasHandles : evasHandle'[other] # s
  <2>1. /\ Evas!Disconnected(Evas!ConnectionsOf(s))
        /\ onDelete' = onDelete \ {<< object[s], s >>}
        /\ object' = [object EXCEPT ![s] = Nobody]
    BY <1>1, <1>5 DEF Evas!Destroyed
  <2>2. evasConnections' = evasConnections \ Evas!ConnectionsOf(s)
    BY <2>1 DEF Evas!Disconnected
  <2>3. /\ EvasTypes' /\ WrappedInv'
        /\ object'[s] = Nobody /\ \A t \in Evas!Shared \ {s} : object'[t] = object[t]
        /\ \A c \in evasConnections \ Evas!ConnectionsOf(s) :
             c.shared \in Evas!Shared \ {s} /\ object'[c.shared] = object[c.shared]
    <3>1. evasAlive' \subseteq EvasObjects
      BY <1>1 DEF EvasInv, EvasTypes
    <3> QED
      BY <1>1, <1>2, <2>1, <2>2, <3>1, PointerGoes
  <2>4. registered' = Callbacks'
    <3>1. Evas!ConnectionsOf(s) \in SUBSET evasConnections
      BY DEF Evas!ConnectionsOf
    <3> QED
      BY <2>1, <2>3, <3>1, DisconnectedCallbacks
  <2>5. onDelete' = Deletions'
    <3>1. onDelete = Deletions
      BY LiveIsThis DEF EvasInv
    <3>2. Deletions' = {<< object'[t], t >> : t \in {u \in Evas!Shared : object'[u] # Nobody}}
      BY DEF Deletions
    <3>3. {u \in Evas!Shared : object'[u] # Nobody} = {u \in Evas!Shared : object[u] # Nobody} \ {s}
      BY <1>2, <2>3
    <3> QED
      BY <2>1, <2>3, <3>1, <3>2, <3>3 DEF Deletions
  <2>6. \A t \in Evas!Shared : object'[t] # Nobody => \E g \in EvasHandles : evasHandle'[g] = t
    BY <1>3, <2>3, LiveIsThis DEF EvasInv
  <2>7. \A t \in Evas!Shared : object'[t] \in evasAlive' \cup {Nobody}
    BY <1>1, <2>3, LiveIsThis DEF EvasInv
  <2>8. CallbacksAreLive'
    BY <2>4, <2>5, <2>6, <2>7
       DEF CallbacksAreLive, Evas!CallbacksAreLive, Callbacks, Callback, Deletions, Evas!Wrapped
  <2> QED
    BY <2>3, <2>8 DEF EvasInv
<1> QED
  BY <1>4, <1>5

LEMMA ConnectKeeps ==
  ASSUME Evas!EvasObjectAssumption, EvasInv,
         NEW h \in EvasHandles, NEW e \in SmartEvents \cup EvasEvents, Evas!Connect(h, e)
  PROVE  EvasInv'
<1>. DEFINE s == evasHandle[h]
            c == [id |-> connected', shared |-> s, event |-> e]
<1>1. /\ s # 0 /\ object[s] # Nobody
      /\ connected' = connected + 1
      /\ evasConnections' = evasConnections \cup {c}
      /\ registered' = registered \cup {[object |-> object[s], event |-> e, id |-> connected']}
      /\ UNCHANGED << evasHandle, object, onDelete, evasAlive, sharedMade >>
  BY DEF Evas!Connect
<1>2. s \in Evas!Shared /\ connected' \in Nat /\ connected' \in 1 .. connected'
  BY <1>1 DEF EvasInv, EvasTypes, Evas!Shared, Evas!EvasObjectAssumption
<1>3. \A d \in evasConnections :
        /\ d \in [id : 1 .. connected', shared : Evas!Shared, event : SmartEvents \cup EvasEvents]
        /\ d.id # connected'
  <2>1. \A d \in evasConnections :
          d \in [id : 1 .. connected, shared : Evas!Shared, event : SmartEvents \cup EvasEvents]
    BY DEF EvasInv, EvasTypes
  <2>2. \A i \in 1 .. connected : i \in 1 .. connected' /\ i # connected'
    BY <1>1 DEF EvasInv, EvasTypes
  <2> QED
    BY <2>1, <2>2
<1>4. c \in [id : 1 .. connected', shared : Evas!Shared, event : SmartEvents \cup EvasEvents]
      /\ c.id = connected' /\ c.shared = s
  BY <1>2
<1>5. EvasTypes'
  <2>1. evasConnections' \subseteq
          [id : 1 .. connected', shared : Evas!Shared, event : SmartEvents \cup EvasEvents]
    BY <1>1, <1>3, <1>4
  <2> QED
    BY <1>1, <1>2, <2>1 DEF EvasInv, EvasTypes, Evas!Shared
<1>6. WrappedInv'
  <2>. HIDE DEF c
  <2> QED
    BY <1>1, <1>3, <1>4 DEF EvasInv, WrappedInv
<1>7. registered' = Callbacks'
  <2>1. \A d : Callback(d)' = Callback(d)
    BY <1>1 DEF Callback
  <2>2. registered = Callbacks /\ Callback(c) = [object |-> object[s], event |-> e, id |-> connected']
    BY LiveIsThis DEF EvasInv, Callback
  <2>. HIDE DEF c
  <2> QED
    BY <1>1, <2>1, <2>2 DEF Callbacks
<1>8. CallbacksAreLive'
  <2>1. onDelete' = Deletions' /\ (\A t \in Evas!Shared : object'[t] \in evasAlive' \cup {Nobody})
        /\ \A t \in Evas!Shared : object'[t] # Nobody => \E g \in EvasHandles : evasHandle'[g] = t
    BY <1>1, LiveIsThis DEF EvasInv, Deletions
  <2> QED
    BY <1>7, <2>1 DEF CallbacksAreLive, Evas!CallbacksAreLive, Callbacks, Callback, Deletions, Evas!Wrapped
<1> QED
  BY <1>5, <1>6, <1>8 DEF EvasInv

LEMMA DisconnectKeeps ==
  ASSUME Evas!EvasObjectAssumption, EvasInv, NEW cs \in SUBSET evasConnections, Evas!Disconnected(cs),
         UNCHANGED << evasHandle, object, onDelete, evasAlive, sharedMade, connected >>
  PROVE  EvasInv'
<1>1. registered' = Callbacks' /\ evasConnections' = evasConnections \ cs
  BY DisconnectedCallbacks
<1>2. EvasTypes' /\ WrappedInv'
  BY <1>1 DEF EvasInv, EvasTypes, WrappedInv
<1>3. onDelete' = Deletions' /\ (\A t \in Evas!Shared : object'[t] \in evasAlive' \cup {Nobody})
      /\ \A t \in Evas!Shared : object'[t] # Nobody => \E g \in EvasHandles : evasHandle'[g] = t
  BY LiveIsThis DEF EvasInv, Deletions
<1>4. CallbacksAreLive'
  BY <1>1, <1>3 DEF CallbacksAreLive, Evas!CallbacksAreLive, Callbacks, Callback, Deletions, Evas!Wrapped
<1> QED
  BY <1>2, <1>4 DEF EvasInv

LEMMA ToolkitDeletesKeeps ==
  ASSUME Evas!EvasObjectAssumption, EvasInv, NEW o \in EvasObjects, Evas!ToolkitDeletes(o)
  PROVE  EvasInv'
<1>1. /\ evasAlive' = evasAlive \ {o}
      /\ registered' = {r \in registered : r.object # o}
      /\ onDelete' = {d \in onDelete : d[1] # o}
      /\ IF \E d \in onDelete : d[1] = o
         THEN Evas!OnDelEvent(CHOOSE s \in Evas!Shared : << o, s >> \in onDelete)
         ELSE UNCHANGED << object, evasConnections >>
      /\ UNCHANGED << evasHandle, sharedMade, connected >>
      /\ o # Nobody
  BY DEF Evas!ToolkitDeletes, Evas!EvasObjectAssumption
<1>2. onDelete = Deletions /\ registered = Callbacks
  BY LiveIsThis DEF EvasInv
<1>3. \A s \in Evas!Shared : << o, s >> \in onDelete <=> object[s] = o
  BY <1>1, <1>2 DEF Deletions
<1>4. CASE \E d \in onDelete : d[1] = o
  <2>. DEFINE s == CHOOSE t \in Evas!Shared : << o, t >> \in onDelete
  <2>1. s \in Evas!Shared /\ object[s] = o
    <3>1. \E t \in Evas!Shared : << o, t >> \in onDelete
      BY <1>2, <1>4 DEF Deletions
    <3> QED
      BY <1>3, <3>1
  <2>2. /\ object' = [object EXCEPT ![s] = Nobody]
        /\ evasConnections' = evasConnections \ Evas!ConnectionsOf(s)
    BY <1>1, <1>4 DEF Evas!OnDelEvent
  <2>. HIDE DEF s
  <2>3. /\ EvasTypes' /\ WrappedInv'
        /\ object'[s] = Nobody /\ \A t \in Evas!Shared \ {s} : object'[t] = object[t]
        /\ \A c \in evasConnections \ Evas!ConnectionsOf(s) :
             c.shared \in Evas!Shared \ {s} /\ object'[c.shared] = object[c.shared]
    <3>1. evasAlive' \subseteq EvasObjects /\ evasHandle' \in [EvasHandles -> 0 .. sharedMade]
      BY <1>1 DEF EvasInv, EvasTypes
    <3> QED
      BY <1>1, <2>1, <2>2, <3>1, PointerGoes
  <2>4. \A t \in Evas!Shared : object[t] = o <=> t = s
    BY <1>1, <2>1 DEF EvasInv, WrappedInv
  <2>5. registered' = Callbacks'
    <3>1. \A c \in evasConnections : Callback(c).object = object[c.shared] /\ c.shared \in Evas!Shared
      BY DEF Callback, EvasInv, EvasTypes
    <3>2. \A c \in evasConnections : Callback(c).object # o <=> c \notin Evas!ConnectionsOf(s)
      BY <2>4, <3>1 DEF Evas!ConnectionsOf
    <3>3. registered' = {Callback(c) : c \in evasConnections \ Evas!ConnectionsOf(s)}
      BY <1>1, <1>2, <3>2 DEF Callbacks
    <3>4. \A c \in evasConnections \ Evas!ConnectionsOf(s) : Callback(c)' = Callback(c)
      BY <2>3 DEF Callback
    <3>5. Callbacks' = {Callback(c)' : c \in evasConnections \ Evas!ConnectionsOf(s)}
      BY <2>2 DEF Callbacks
    <3> QED
      BY <3>3, <3>4, <3>5
  <2>6. onDelete' = Deletions'
    <3>1. Deletions' = {<< object'[t], t >> : t \in {u \in Evas!Shared : object'[u] # Nobody}}
      BY DEF Deletions
    <3>2. {u \in Evas!Shared : object'[u] # Nobody} = {u \in Evas!Shared : object[u] # Nobody} \ {s}
      BY <2>1, <2>3
    <3> QED
      BY <1>1, <1>2, <2>3, <2>4, <3>1, <3>2 DEF Deletions
  <2>7. \A t \in Evas!Shared : object'[t] # Nobody => \E g \in EvasHandles : evasHandle'[g] = t
    BY <1>1, <2>3, LiveIsThis DEF EvasInv
  <2>8. \A t \in Evas!Shared : object'[t] \in evasAlive' \cup {Nobody}
    BY <1>1, <2>3, <2>4, LiveIsThis DEF EvasInv
  <2>9. CallbacksAreLive'
    BY <2>5, <2>6, <2>7, <2>8
       DEF CallbacksAreLive, Evas!CallbacksAreLive, Callbacks, Callback, Deletions, Evas!Wrapped
  <2> QED
    BY <2>3, <2>9 DEF EvasInv
<1>5. CASE ~ \E d \in onDelete : d[1] = o
  <2>1. UNCHANGED << object, evasConnections >> /\ onDelete' = onDelete
    BY <1>1, <1>5
  <2>2. \A t \in Evas!Shared : object[t] # o
    BY <1>3, <1>5
  <2>3. registered' = registered
    BY <1>1, <1>2, <2>2 DEF Callbacks, Callback, EvasInv, EvasTypes
  <2>4. EvasTypes' /\ WrappedInv'
    BY <1>1, <2>1 DEF EvasInv, EvasTypes, WrappedInv
  <2>5. \A t \in Evas!Shared : object'[t] \in evasAlive' \cup {Nobody}
    BY <1>1, <2>1, <2>2, LiveIsThis DEF EvasInv
  <2>6. CallbacksAreLive'
    BY <1>1, <2>1, <2>3, <2>5 DEF EvasInv, CallbacksAreLive, Evas!CallbacksAreLive, Evas!Wrapped
  <2> QED
    BY <2>4, <2>6 DEF EvasInv
<1> QED
  BY <1>4, <1>5

LEMMA EvasStepKeeps ==
  ASSUME Evas!EvasObjectAssumption, EvasInv, [Evas!Next]_(Evas!vars)
  PROVE  EvasInv'
<1>1. CASE UNCHANGED Evas!vars
  BY <1>1 DEF Evas!vars, EvasInv, EvasTypes, WrappedInv, CallbacksAreLive, Evas!CallbacksAreLive, Evas!Wrapped
<1>2. ASSUME NEW h \in EvasHandles, Evas!DisconnectAll(h) PROVE EvasInv'
  <2>1. Evas!ConnectionsOf(evasHandle[h]) \in SUBSET evasConnections
    BY DEF Evas!ConnectionsOf
  <2> QED
    BY <1>2, <2>1, DisconnectKeeps DEF Evas!DisconnectAll
<1>3. ASSUME NEW h \in EvasHandles, NEW c \in evasConnections, Evas!DisconnectCallback(h, c) PROVE EvasInv'
  <2>1. {c} \in SUBSET evasConnections
    OBVIOUS
  <2> QED
    BY <1>3, <2>1, DisconnectKeeps DEF Evas!DisconnectCallback
<1>4. ASSUME NEW h \in EvasHandles, NEW other \in EvasHandles, Evas!Detach(h, evasHandle[other]) PROVE EvasInv'
  BY <1>4, DetachKeeps
<1>5. ASSUME NEW h \in EvasHandles, Evas!Detach(h, 0) PROVE EvasInv'
  BY <1>5, DetachKeeps
<1>6. \A o \in evasAlive \cup {Nobody}, h \in EvasHandles : Evas!Construct(h, o) => EvasInv'
  BY ConstructKeeps
<1> QED
  BY <1>1, <1>2, <1>3, <1>4, <1>5, <1>6, SetObjectKeeps, CopyKeeps, ConnectKeeps, ToolkitDeletesKeeps
     DEF Evas!Next

LEMMA EvasMoves == [Next]_vars => [Evas!Next]_(Evas!vars)
BY DEF Next, Only, Is, vars, evasVars, Evas!vars

LEMMA EvasInit == Init => Evas!Init
BY DEF Init

\* The toolkit calls back for a connection or a shared object only while both it
\* and the object are there, and for every one of them, whichever of handles,
\* connections and objects goes first (evas_object.cpp: the destructor of the
\* shared object, DisconnectPrv, StaticOnDelEvent).
THEOREM NoDeadCallback == SafetySpec => []CallbacksAreLive
<1>. USE ComponentsAssumption
<1>1. Init => EvasInv
  <2>. SUFFICES ASSUME Evas!Init PROVE EvasInv
    BY EvasInit
  <2>1. EvasTypes /\ WrappedInv
    BY DEF Evas!Init, EvasTypes, WrappedInv, ComponentsAssumption, Evas!EvasObjectAssumption
  <2>2. Callbacks = {} /\ Deletions = {}
    BY DEF Evas!Init, Callbacks, Deletions
  <2>3. CallbacksAreLive
    BY <2>2, LiveIsThis DEF Evas!Init
  <2> QED
    BY <2>1, <2>3 DEF EvasInv
<1>2. EvasInv /\ [Next]_vars => EvasInv'
  BY EvasMoves, EvasStepKeeps DEF ComponentsAssumption
<1>3. EvasInv => CallbacksAreLive
  BY DEF EvasInv
<1> QED
  BY <1>1, <1>2, <1>3, PTL DEF SafetySpec
=============================================================================
