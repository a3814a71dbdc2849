--------------------------- MODULE SingleInstance ---------------------------
(***************************************************************************)
(* DPL::SingleInstance: a record lock on a file of the instance's name,    *)
(* which the kernel keeps for a process and drops when the process closes  *)
(* any descriptor of the file or ends.                                     *)
(***************************************************************************)
EXTENDS Naturals, FiniteSets

CONSTANTS
  Processes,
  Names,
  NoOne,
  MaxTries    \* bounds the calls of TryLock

SingleInstanceAssumption == NoOne \notin Processes

VARIABLES
  m_locked,   \* m_locked[p]: of the object of p
  m_fdLock,   \* the name that the descriptor of the object is of, NoOne for -1
  descriptors,\* descriptors[p]: how many descriptors of each name p has open
  lockOwner,  \* of each name: the process that the kernel keeps the lock for
  tries

vars == << m_locked, m_fdLock, descriptors, lockOwner, tries >>

Init ==
  /\ m_locked = [p \in Processes |-> FALSE]
  /\ m_fdLock = [p \in Processes |-> NoOne]
  /\ descriptors = [p \in Processes |-> [n \in Names |-> 0]]
  /\ lockOwner = [n \in Names |-> NoOne]
  /\ tries = 0

(* Mutant: a lock that another process holds counts as locked. *)
TryLockAlways(p, n) ==
  /\ ~ m_locked[p] /\ tries < MaxTries
  /\ tries' = tries + 1
  /\ m_fdLock' = [m_fdLock EXCEPT ![p] = n]
  /\ descriptors' = [descriptors EXCEPT ![p][n] = @ + 1]
  /\ m_locked' = [m_locked EXCEPT ![p] = TRUE]
  /\ lockOwner' = [lockOwner EXCEPT ![n] = IF @ = NoOne THEN p ELSE @]

(* The descriptor of an earlier try that failed is forgotten, not closed. *)
TryLock(p, n) ==
  /\ ~ m_locked[p] /\ tries < MaxTries
  /\ tries' = tries + 1
  /\ m_fdLock' = [m_fdLock EXCEPT ![p] = n]
  /\ descriptors' = [descriptors EXCEPT ![p][n] = @ + 1]
  /\ IF lockOwner[n] \in {NoOne, p}
     THEN /\ lockOwner' = [lockOwner EXCEPT ![n] = p]
          /\ m_locked' = [m_locked EXCEPT ![p] = TRUE]
     ELSE UNCHANGED << m_locked, lockOwner >>

(* The lock is released and its descriptor closed. *)
Release(p) ==
  /\ m_locked[p]
  /\ lockOwner' = [lockOwner EXCEPT ![m_fdLock[p]] = IF @ = p THEN NoOne ELSE @]
  /\ descriptors' = [descriptors EXCEPT ![p][m_fdLock[p]] = @ - 1]
  /\ m_fdLock' = [m_fdLock EXCEPT ![p] = NoOne]
  /\ m_locked' = [m_locked EXCEPT ![p] = FALSE]
  /\ UNCHANGED tries

(* The kernel cleans up after a process, which may start again. *)
Killed(p) ==
  /\ m_fdLock[p] # NoOne
  /\ lockOwner' = [n \in Names |-> IF lockOwner[n] = p THEN NoOne ELSE lockOwner[n]]
  /\ descriptors' = [descriptors EXCEPT ![p] = [n \in Names |-> 0]]
  /\ m_fdLock' = [m_fdLock EXCEPT ![p] = NoOne]
  /\ m_locked' = [m_locked EXCEPT ![p] = FALSE]
  /\ UNCHANGED tries

Next ==
  \E p \in Processes :
    \/ \E n \in Names : TryLock(p, n)
    \/ Release(p) \/ Killed(p)

Spec == Init /\ [][Next]_vars

-----------------------------------------------------------------------------
(* "Instance is already running": of the processes that try the lock of a  *)
(* name, at most one believes it has it, and it is the one that the kernel *)
(* keeps it for, through failed tries, releases and processes killed.      *)
OneInstance ==
  \A p \in Processes : m_locked[p] => lockOwner[m_fdLock[p]] = p
=============================================================================
