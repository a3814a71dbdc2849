---------------------------- MODULE BinaryQueue -----------------------------
(***************************************************************************)
(* DPL::BinaryQueue: a queue of bytes in buckets.  A bucket owns a buffer  *)
(* that somebody allocated, with the deleter that frees it, and stands for *)
(* what is left of it.                                                     *)
(***************************************************************************)
EXTENDS Naturals, Sequences, FiniteSets, SequencesExt

CONSTANTS
  Queues,
  MaxBuffers,   \* bounds the buffers allocated
  MaxAppend     \* bounds the bytes appended from outside at once

VARIABLES
  alive,        \* the queues that were constructed and not destroyed
  m_buckets,    \* m_buckets[q]: the list of buckets, [buffer, left]
  m_size,       \* m_size[q]: the number kept beside the list
  allocated,    \* the number of buffers allocated so far
  deleted       \* ghost: the buffers given to their deleters, one after the other

vars == << alive, m_buckets, m_size, allocated, deleted >>

Init ==
  /\ alive = {}
  /\ m_buckets = [q \in Queues |-> <<>>]
  /\ m_size = [q \in Queues |-> 0]
  /\ allocated = 0
  /\ deleted = <<>>

Bucket(buffer, left) == [buffer |-> buffer, left |-> left]

Buffers(buckets) == [i \in DOMAIN buckets |-> buckets[i].buffer]

LeastOf(m, n) == IF m < n THEN m ELSE n

(* The bytes of a queue, in the order VisitBuckets shows them. *)
Bytes(buckets) == FlattenSeq([i \in DOMAIN buckets |-> buckets[i].left])

(* Mutant: the bytes copied so far are not taken off. *)
FlattenUncounted(buckets, n) ==
  FoldLeft(LAMBDA copied, bucket :
             copied \o SubSeq(bucket.left, 1, LeastOf(n, Len(bucket.left))),
           <<>>, buckets)

(* The loop of Flatten: each bucket gives what it has, until n bytes are   *)
(* copied.                                                                 *)
Flatten(buckets, n) ==
  FoldLeft(LAMBDA copied, bucket :
             copied \o SubSeq(bucket.left, 1, LeastOf(n - Len(copied), Len(bucket.left))),
           <<>>, buckets)

(* The loop of Consume: a bucket with nothing left is deleted. *)
Consumed(buckets, n) ==
  FoldLeft(LAMBDA acc, bucket :
             LET count == LeastOf(acc.toGo, Len(bucket.left))
                 rest  == SubSeq(bucket.left, count + 1, Len(bucket.left))
             IN  IF rest = <<>>
                 THEN [acc EXCEPT !.toGo = @ - count, !.freed = Append(@, bucket.buffer)]
                 ELSE [acc EXCEPT !.toGo = @ - count,
                                  !.kept = Append(@, Bucket(bucket.buffer, rest))],
           [toGo |-> n, kept |-> <<>>, freed |-> <<>>], buckets)

-----------------------------------------------------------------------------
Construct(q) ==
  /\ q \notin alive
  /\ alive' = alive \cup {q}
  /\ UNCHANGED << m_buckets, m_size, allocated, deleted >>

Clear(q) ==
  /\ q \in alive
  /\ deleted' = deleted \o Buffers(m_buckets[q])
  /\ m_buckets' = [m_buckets EXCEPT ![q] = <<>>]
  /\ m_size' = [m_size EXCEPT ![q] = 0]
  /\ UNCHANGED << alive, allocated >>

Destroy(q) ==
  /\ q \in alive
  /\ alive' = alive \ {q}
  /\ deleted' = deleted \o Buffers(m_buckets[q])
  /\ m_buckets' = [m_buckets EXCEPT ![q] = <<>>]
  /\ m_size' = [m_size EXCEPT ![q] = 0]
  /\ UNCHANGED allocated

(* A buffer is made a bucket; an empty one is deleted at once. *)
WithBuffer(buckets, buffer, bytes) ==
  IF bytes = <<>> THEN buckets ELSE Append(buckets, Bucket(buffer, bytes))

(* AppendCopy, whose copy is a new buffer, and AppendUnmanaged, to which   *)
(* the caller gives a buffer of his.                                       *)
AppendUnmanaged(q, n) ==
  LET bytes == [k \in 1 .. n |-> << allocated + 1, k >>]
  IN  /\ q \in alive /\ allocated < MaxBuffers
      /\ allocated' = allocated + 1
      /\ m_buckets' = [m_buckets EXCEPT ![q] = WithBuffer(@, allocated + 1, bytes)]
      /\ m_size' = [m_size EXCEPT ![q] = @ + n]
      /\ deleted' = IF n = 0 THEN Append(deleted, allocated + 1) ELSE deleted
      /\ UNCHANGED alive

(* Everything of the other queue, as one bucket. *)
AppendCopyFrom(q, other) ==
  LET bytes == Flatten(m_buckets[other], m_size[other])
  IN  /\ {q, other} \subseteq alive /\ allocated < MaxBuffers
      /\ allocated' = allocated + 1
      /\ m_buckets' = [m_buckets EXCEPT ![q] = WithBuffer(@, allocated + 1, bytes)]
      /\ m_size' = [m_size EXCEPT ![q] = @ + m_size[other]]
      /\ deleted' = IF bytes = <<>> THEN Append(deleted, allocated + 1) ELSE deleted
      /\ UNCHANGED alive

(* operator=, which does nothing for the queue itself. *)
Assign(q, other) ==
  LET bytes == Flatten(m_buckets[other], m_size[other])
      freed == deleted \o Buffers(m_buckets[q])
  IN  /\ {q, other} \subseteq alive /\ q # other /\ allocated < MaxBuffers
      /\ allocated' = allocated + 1
      /\ m_buckets' = [m_buckets EXCEPT ![q] = WithBuffer(<<>>, allocated + 1, bytes)]
      /\ m_size' = [m_size EXCEPT ![q] = m_size[other]]
      /\ deleted' = IF bytes = <<>> THEN Append(freed, allocated + 1) ELSE freed
      /\ UNCHANGED alive

(* Mutant: the buckets stay in the other queue, too. *)
AppendShared(q, other) ==
  /\ {q, other} \subseteq alive /\ q # other
  /\ m_buckets' = [m_buckets EXCEPT ![q] = @ \o m_buckets[other]]
  /\ m_size' = [m_size EXCEPT ![q] = @ + m_size[other], ![other] = 0]
  /\ UNCHANGED << alive, allocated, deleted >>

AppendMoveFrom(q, other) ==
  /\ {q, other} \subseteq alive /\ q # other
  /\ m_buckets' = [m_buckets EXCEPT ![q] = @ \o m_buckets[other], ![other] = <<>>]
  /\ m_size' = [m_size EXCEPT ![q] = @ + m_size[other], ![other] = 0]
  /\ UNCHANGED << alive, allocated, deleted >>

(* More than there is is refused with OutOfData. *)
Consume(q, n) ==
  LET after == Consumed(m_buckets[q], n)
  IN  /\ q \in alive /\ n <= m_size[q]
      /\ m_buckets' = [m_buckets EXCEPT ![q] = after.kept]
      /\ m_size' = [m_size EXCEPT ![q] = @ - n]
      /\ deleted' = deleted \o after.freed
      /\ UNCHANGED << alive, allocated >>

(* At most n bytes, flattened into the only bucket of a new queue. *)
Read(q, n, result) ==
  LET available == LeastOf(n, m_size[q])
      bytes     == Flatten(m_buckets[q], available)
      after     == Consumed(m_buckets[q], available)
  IN  /\ q \in alive /\ result \notin alive /\ allocated < MaxBuffers
      /\ alive' = alive \cup {result}
      /\ allocated' = allocated + 1
      /\ m_buckets' = [m_buckets EXCEPT ![q] = after.kept,
                                        ![result] = WithBuffer(<<>>, allocated + 1, bytes)]
      /\ m_size' = [m_size EXCEPT ![q] = @ - available, ![result] = available]
      /\ deleted' = (IF bytes = <<>> THEN Append(deleted, allocated + 1) ELSE deleted)
                      \o after.freed

Next ==
  \E q \in Queues :
    \/ Construct(q) \/ Destroy(q) \/ Clear(q)
    \/ \E n \in 0 .. MaxAppend : AppendUnmanaged(q, n)
    \/ \E n \in 1 .. m_size[q] : Consume(q, n)
    \/ \E other \in Queues :
         \/ AppendCopyFrom(q, other) \/ AppendMoveFrom(q, other) \/ Assign(q, other)
         \/ \E n \in 0 .. m_size[q] + 1 : Read(q, n, other)

Spec == Init /\ [][Next]_vars

-----------------------------------------------------------------------------
(* Binary queues are sequences of bytes: however they are cut into         *)
(* buckets, appending, copying, moving, consuming and reading do to the    *)
(* bytes what they promise.                                                *)
Abstract == INSTANCE ByteQueues WITH content <- [q \in Queues |-> Bytes(m_buckets[q])]

ImplementsByteQueues == Abstract!Spec

(* Every buffer is deleted once, by the queue that holds it at the end, or *)
(* is still held, in one bucket of one queue: none leaks or is freed       *)
(* twice, and no bucket points into one that was freed.                    *)
BuffersOwnedOnce ==
  \A buffer \in 1 .. allocated :
    Len(SelectSeq(deleted, LAMBDA b : b = buffer))
      + Cardinality({b \in Queues \X (1 .. allocated) :
                      /\ b[2] \in DOMAIN m_buckets[b[1]]
                      /\ m_buckets[b[1]][b[2]].buffer = buffer}) = 1

(* The size kept beside the list is that of the buckets, none of which is  *)
(* empty: the loops of Consume and Flatten, which trust it, find a bucket  *)
(* with bytes in front as long as they look for one.                       *)
SizeIsContent ==
  \A q \in Queues :
    /\ m_size[q] = Len(Bytes(m_buckets[q]))
    /\ \A i \in DOMAIN m_buckets[q] : m_buckets[q][i].left # <<>>
=============================================================================
