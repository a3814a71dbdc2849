----------------------------- MODULE ByteQueues -----------------------------
(***************************************************************************)
(* What binary queues promise: each of them is a sequence of bytes.        *)
(***************************************************************************)
EXTENDS Naturals, Sequences

CONSTANT Queues

VARIABLES
  content,  \* content[q]: the bytes of q, or of a queue that does not exist, none
  alive     \* the queues that exist

vars == << content, alive >>

Init == content = [q \in Queues |-> <<>>] /\ alive = {}

Create(q) == q \notin alive /\ alive' = alive \cup {q} /\ UNCHANGED content

Destroy(q) ==
  /\ q \in alive /\ alive' = alive \ {q}
  /\ content' = [content EXCEPT ![q] = <<>>]

(* Whatever bytes are appended, those that were there stay in front. *)
AppendBytes(q) ==
  /\ q \in alive /\ UNCHANGED alive
  /\ content' = [content EXCEPT
       ![q] = @ \o SubSeq(content'[q], Len(@) + 1, Len(content'[q]))]

Copy(q, other) ==
  /\ {q, other} \subseteq alive /\ UNCHANGED alive
  /\ content' = [content EXCEPT ![q] = @ \o content[other]]

Move(q, other) ==
  /\ {q, other} \subseteq alive /\ q # other /\ UNCHANGED alive
  /\ content' = [content EXCEPT ![q] = @ \o content[other], ![other] = <<>>]

Assign(q, other) ==
  /\ {q, other} \subseteq alive /\ UNCHANGED alive
  /\ content' = [content EXCEPT ![q] = content[other]]

Consume(q, n) ==
  /\ q \in alive /\ UNCHANGED alive
  /\ n <= Len(content[q])
  /\ content' = [content EXCEPT ![q] = SubSeq(@, n + 1, Len(@))]

(* The first n bytes, or as many as there are, become a queue of their own. *)
Read(q, n, result) ==
  LET available == IF n < Len(content[q]) THEN n ELSE Len(content[q])
  IN  /\ q \in alive /\ result \notin alive
      /\ alive' = alive \cup {result}
      /\ content' = [content EXCEPT
           ![q] = SubSeq(@, available + 1, Len(@)),
           ![result] = SubSeq(content[q], 1, available)]

Next ==
  \E q \in Queues :
    \/ Create(q) \/ Destroy(q) \/ AppendBytes(q)
    \/ \E n \in 0 .. Len(content[q]) : Consume(q, n)
    \/ \E other \in Queues :
         \/ Copy(q, other) \/ Move(q, other) \/ Assign(q, other)
         \/ \E n \in 0 .. Len(content[q]) : Read(q, n, other)

Spec == Init /\ [][Next]_vars
=============================================================================
