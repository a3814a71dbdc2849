----------------------------- MODULE StreamCopy -----------------------------
(***************************************************************************)
(* DPL::Copy from a waitable input to a waitable output, between a process *)
(* that writes into the input and one that reads from the output.  The     *)
(* buffer that goes from Read to Write is a BinaryQueue, here the sequence *)
(* of its bytes (ByteQueues).                                              *)
(***************************************************************************)
EXTENDS Naturals, Sequences, SequencesExt

CONSTANTS
  ChunkSize,    \* the least of DEFAULT_COPY_BUFFER_SIZE and the input's read size
  Capacity,     \* the bytes that the pipes hold
  MaxWritten,   \* bounds the bytes that are written into the input
  NoLimit       \* stands for the copy that ends with the input

StreamCopyAssumption == NoLimit \notin Nat /\ {ChunkSize, Capacity, MaxWritten} \subseteq Nat

VARIABLES
  kind,         \* who answers when there is nothing to read or no room to write:
                \* "adapter" as AbstractInput promises, or the "pipe" of this library
  limit,        \* totalBytes, or NoLimit
  pc,           \* where the copying thread is: "read", "write", "done" or "failed"
  buffer, bytesLeft,
  inPipe, written, inClosed,    \* the kernel's pipe, and its writer
  outPipe, received, outClosed  \* the kernel's pipe, and its reader

copyVars == << pc, buffer, bytesLeft >>
inVars   == << inPipe, written, inClosed >>
outVars  == << outPipe, received, outClosed >>
vars     == << kind, limit, copyVars, inVars, outVars >>

LeastOf(m, n) == IF m < n THEN m ELSE n

Init ==
  /\ kind \in {"adapter", "pipe"}
  /\ limit \in (0 .. MaxWritten) \cup {NoLimit}
  /\ pc = IF limit = 0 THEN "done" ELSE "read"
  /\ buffer = <<>> /\ bytesLeft = limit
  /\ inPipe = <<>> /\ written = 0 /\ inClosed = FALSE
  /\ outPipe = <<>> /\ received = <<>> /\ outClosed = FALSE

Wanted == IF limit = NoLimit THEN ChunkSize ELSE LeastOf(bytesLeft, ChunkSize)

(* Read takes what is there, whenever a byte is. *)
ReadBytes(count) ==
  /\ pc = "read" /\ inPipe # <<>>
  /\ count \in 1 .. LeastOf(Wanted, Len(inPipe))
  /\ buffer' = SubSeq(inPipe, 1, count)
  /\ inPipe' = SubSeq(inPipe, count + 1, Len(inPipe))
  /\ pc' = "write"
  /\ UNCHANGED << kind, limit, bytesLeft, written, inClosed, outVars >>

(* Mutant: an input that ended before the bytes asked for came is waited for. *)
ReadEndWaits ==
  /\ pc = "read" /\ inPipe = <<>> /\ inClosed /\ limit = NoLimit
  /\ pc' = "done"
  /\ UNCHANGED << kind, limit, buffer, bytesLeft, inVars, outVars >>

(* An empty buffer: the end, unexpected if a number of bytes was asked for. *)
ReadEnd ==
  /\ pc = "read" /\ inPipe = <<>> /\ inClosed
  /\ pc' = IF limit = NoLimit THEN "done" ELSE "failed"
  /\ UNCHANGED << kind, limit, buffer, bytesLeft, inVars, outVars >>

(* Nothing to read yet.  A NULL buffer makes Copy wait; the pipe and the   *)
(* file of this library throw ReadFailed instead, whatever the errno.      *)
ReadBlocked ==
  /\ pc = "read" /\ inPipe = <<>> /\ ~ inClosed
  /\ kind = "pipe" /\ pc' = "failed"
  /\ UNCHANGED << kind, limit, buffer, bytesLeft, inVars, outVars >>

(* The loop over the buffer, and the one over the bytes that are left. *)
NextPlace(rest, left) ==
  IF rest # <<>> THEN "write" ELSE IF left = 0 THEN "done" ELSE "read"

(* Mutant: the whole buffer is taken for written. *)
WriteAssumed(count) ==
  /\ pc = "write" /\ ~ outClosed
  /\ count \in 1 .. LeastOf(Len(buffer), Capacity - Len(outPipe))
  /\ outPipe' = outPipe \o SubSeq(buffer, 1, count)
  /\ buffer' = <<>>
  /\ bytesLeft' = IF limit = NoLimit THEN bytesLeft ELSE bytesLeft - Len(buffer)
  /\ pc' = NextPlace(<<>>, bytesLeft')
  /\ UNCHANGED << kind, limit, inVars, received, outClosed >>

(* As much as there is room for is written, and consumed. *)
WriteBytes(count) ==
  LET rest == SubSeq(buffer, count + 1, Len(buffer))
  IN  /\ pc = "write" /\ ~ outClosed
      /\ count \in 1 .. LeastOf(Len(buffer), Capacity - Len(outPipe))
      /\ outPipe' = outPipe \o SubSeq(buffer, 1, count)
      /\ buffer' = rest
      /\ bytesLeft' = IF limit = NoLimit THEN bytesLeft ELSE bytesLeft - count
      /\ pc' = NextPlace(rest, bytesLeft')
      /\ UNCHANGED << kind, limit, inVars, received, outClosed >>

(* No reader: every output throws.  No room: the pipe and the file of this *)
(* library throw WriteFailed; zero would make Copy wait.                   *)
WriteFailed ==
  /\ pc = "write"
  /\ outClosed \/ (kind = "pipe" /\ Len(outPipe) = Capacity)
  /\ pc' = "failed"
  /\ UNCHANGED << kind, limit, buffer, bytesLeft, inVars, outVars >>

CopyStep ==
  \/ \E count \in 1 .. ChunkSize : ReadBytes(count) \/ WriteBytes(count)
  \/ ReadEnd \/ ReadBlocked \/ WriteFailed

-----------------------------------------------------------------------------
(* The processes at the other ends. *)

WriterWrites ==
  /\ ~ inClosed /\ written < MaxWritten /\ Len(inPipe) < Capacity
  /\ written' = written + 1
  /\ inPipe' = Append(inPipe, written')
  /\ UNCHANGED << kind, limit, copyVars, inClosed, outVars >>

WriterCloses ==
  /\ ~ inClosed /\ inClosed' = TRUE
  /\ UNCHANGED << kind, limit, copyVars, inPipe, written, outVars >>

ReaderReads ==
  /\ outPipe # <<>> /\ ~ outClosed
  /\ received' = Append(received, Head(outPipe))
  /\ outPipe' = Tail(outPipe)
  /\ UNCHANGED << kind, limit, copyVars, inVars, outClosed >>

ReaderCloses ==
  /\ ~ outClosed /\ outClosed' = TRUE
  /\ UNCHANGED << kind, limit, copyVars, inVars, outPipe, received >>

Next ==
  \/ CopyStep
  \/ WriterWrites \/ WriterCloses \/ ReaderReads \/ ReaderCloses

(* The copying thread runs; the writer ends some day, the reader reads. *)
Fairness == WF_vars(CopyStep) /\ WF_vars(WriterCloses) /\ WF_vars(ReaderReads)

Spec == Init /\ [][Next]_vars /\ Fairness

-----------------------------------------------------------------------------
(* However the two pipes cut them, the bytes arrive in order, once, with   *)
(* none missing in between; and a copy that says it is done has copied all *)
(* that was written before the end, or the number asked for.               *)
CopiedInOrder ==
  /\ received \o outPipe \o buffer \o inPipe = [i \in 1 .. written |-> i]
  /\ pc = "done" =>
       IF limit = NoLimit
       THEN inClosed /\ Len(received \o outPipe) = written
       ELSE Len(received \o outPipe) = limit

(* Copy has returned, or thrown: once the writer ends and the reader goes  *)
(* on reading it neither waits for what is there nor spins.                *)
Returned == pc \in {"done", "failed"}
=============================================================================
