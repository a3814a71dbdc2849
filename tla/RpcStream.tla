------------------------------ MODULE RpcStream ------------------------------
(***************************************************************************)
(* Two GenericRPCConnections at the ends of an established stream socket:  *)
(* WaitableInputOutputExecutionContextSupport feeds the output stream to   *)
(* the socket and collects the input stream from it, as the watches of the *)
(* loop report; the connection cuts the input stream into packets and      *)
(* posts an event for each call.                                           *)
(*                                                                         *)
(* Each end lives in one thread: a watch listener, an event handler and a  *)
(* call of the application never interrupt each other, but the other end   *)
(* moves between any two steps.  The kernel is external: a bounded buffer  *)
(* of bytes for each direction, from which send and recv take what they    *)
(* can.  A byte is a packet and a position in it.                          *)
(***************************************************************************)
EXTENDS Integers, Sequences, SequencesExt, FiniteSets, Functions

CONSTANTS
  Ends,          \* the two connections
  Calls,         \* the functions called, each once
  Caller,        \* Caller[c]: the end that calls c
  Size,          \* Size[c]: bytes of the serialized call
  Ping,          \* the packet of PingPong
  HeaderSize,    \* sizeof(Protocol::Header): 4
  SizeLimit,     \* the header's size is an unsigned short: 65536
  ReadSize,      \* DEFAULT_READ_SIZE: 2048
  Capacity,      \* of the kernel's buffer of a direction
  MaxPings,      \* bound: how many pings the application starts
  MayFail        \* send and recv may fail for lack of resources

ASSUME RpcStreamAssumption ==
  /\ IsFiniteSet(Ends) /\ Cardinality(Ends) = 2
  /\ Caller \in [Calls -> Ends]
  /\ Size \in [Calls -> Nat]
  /\ Ping \notin Calls
  /\ Calls \cap {"Closed", "Broken"} = {}
  /\ HeaderSize \in Nat \ {0}
  /\ SizeLimit \in Nat \ {0}
  /\ \A c \in Calls : Size[c] < SizeLimit  \* of the callers: the cast loses the rest
  /\ ReadSize \in Nat \ {0}
  /\ Capacity \in Nat \ {0}
  /\ MaxPings \in Nat
  /\ MayFail \in BOOLEAN

VARIABLES
  m_opened,
  m_hasReadWatch, m_hasWriteWatch,
  m_outputStream, m_inputStream,
  parsing,       \* OnInputStreamRead runs
  socket,        \* m_internalState of the GenericSocket under the connection
  kernel,        \* kernel[e]: bytes that e has sent and the other has not read
  reset,         \* e's socket was closed by the other with bytes of e unread
  eventQueue,    \* the events e has posted to its own thread
  received,      \* the calls whose event was handled, in order
  sent,          \* ghost: the calls e has made, in order
  pings,         \* ghost: how often the application has called Ping
  failed,        \* send has failed with WriteFailed, or recv with ReadFailed
  escaped        \* an exception has left a watch listener

ioVars == <<m_opened, m_hasReadWatch, m_hasWriteWatch, m_outputStream, m_inputStream, parsing>>
vars == <<ioVars, socket, kernel, reset, eventQueue, received, sent, pings, failed, escaped>>

Other(e) == CHOOSE f \in Ends : f # e

Packets == Calls \cup {Ping}
Bytes == Packets \X Nat

\* Header::size as AsyncCall and Ping fill it in.
HeaderOf(p) == IF p = Ping THEN 0 ELSE Size[p] % SizeLimit

\* The bytes of a packet: the header, then the serialized call.
Packet(p) == [i \in 1..(HeaderSize + IF p = Ping THEN 0 ELSE Size[p]) |-> <<p, i>>]

Least(m, n) == IF m < n THEN m ELSE n

Consume(s, n) == SubSeq(s, n + 1, Len(s))

Init ==
  /\ m_opened = [e \in Ends |-> TRUE]
  /\ m_hasReadWatch = [e \in Ends |-> TRUE]
  /\ m_hasWriteWatch = [e \in Ends |-> FALSE]
  /\ m_outputStream = [e \in Ends |-> <<>>]
  /\ m_inputStream = [e \in Ends |-> <<>>]
  /\ parsing = [e \in Ends |-> FALSE]
  /\ socket = [e \in Ends |-> "Connected"]
  /\ kernel = [e \in Ends |-> <<>>]
  /\ reset = [e \in Ends |-> FALSE]
  /\ eventQueue = [e \in Ends |-> <<>>]
  /\ received = [e \in Ends |-> <<>>]
  /\ sent = [e \in Ends |-> <<>>]
  /\ pings = 0
  /\ failed = [e \in Ends |-> FALSE]
  /\ escaped = [e \in Ends |-> FALSE]

Alive(e) == socket[e] = "Connected" /\ ~escaped[e]

\* The loop of e's thread may call a listener or run code of the application.
Ready(e) == Alive(e) /\ ~parsing[e]
-------------------------------------------------------------------------------
\* WaitableInputOutputExecutionContextSupport.

Room(e) == Capacity - Len(kernel[e])
PeerClosed(e) == socket[Other(e)] # "Connected"

Post(e, event) == eventQueue' = [eventQueue EXCEPT ![e] = Append(@, event)]

\* OnInputStreamBroken or OnInputStreamClosed, the watches go, m_opened too.
Shut(e, event) ==
  /\ Post(e, event)
  /\ m_hasReadWatch' = [m_hasReadWatch EXCEPT ![e] = FALSE]
  /\ m_hasWriteWatch' = [m_hasWriteWatch EXCEPT ![e] = FALSE]
  /\ m_opened' = [m_opened EXCEPT ![e] = FALSE]

\* Mutant: the write watch is not begun for what is left.
FedUnwatched(e, out, n) ==
  /\ kernel' = [kernel EXCEPT ![e] = @ \o SubSeq(out, 1, n)]
  /\ m_outputStream' = [m_outputStream EXCEPT ![e] = Consume(out, n)]
  /\ UNCHANGED <<m_opened, m_hasReadWatch, m_hasWriteWatch, eventQueue, failed>>

\* GenericSocket::Write took n bytes of out (none: EAGAIN); the write watch is
\* begun when bytes are left.
Fed(e, out, n) ==
  /\ kernel' = [kernel EXCEPT ![e] = @ \o SubSeq(out, 1, n)]
  /\ m_outputStream' = [m_outputStream EXCEPT ![e] = Consume(out, n)]
  /\ m_hasWriteWatch' = [m_hasWriteWatch EXCEPT ![e] = @ \/ n < Len(out)]
  /\ UNCHANGED <<m_opened, m_hasReadWatch, eventQueue, failed>>

\* GenericSocket::Write threw ConnectionBroken (EPIPE, ECONNRESET).
FeedBroken(e, out) ==
  /\ Shut(e, "Broken")
  /\ m_outputStream' = [m_outputStream EXCEPT ![e] = out]
  /\ UNCHANGED <<kernel, failed>>

\* ... or WriteFailed, which FeedOutput lets pass.
FeedFailed(e, out) ==
  /\ m_outputStream' = [m_outputStream EXCEPT ![e] = out]
  /\ failed' = [failed EXCEPT ![e] = TRUE]
  /\ UNCHANGED <<kernel, m_opened, m_hasReadWatch, m_hasWriteWatch, eventQueue>>

\* Mutant: bytes that were sent stay in the stream.
FeedOutputAgain(e, out) ==
  IF PeerClosed(e)
  THEN FeedBroken(e, out)
  ELSE LET n == Least(Room(e), Len(out))
       IN /\ kernel' = [kernel EXCEPT ![e] = @ \o SubSeq(out, 1, n)]
          /\ m_outputStream' = [m_outputStream EXCEPT ![e] = IF n < Len(out) THEN out ELSE <<>>]
          /\ m_hasWriteWatch' = [m_hasWriteWatch EXCEPT ![e] = @ \/ n < Len(out)]
          /\ UNCHANGED <<m_opened, m_hasReadWatch, eventQueue, failed>>

\* FeedOutput of an open support with a stream that is not empty, but for
\* WriteFailed.
FeedOutput(e, out) ==
  IF PeerClosed(e)
  THEN FeedBroken(e, out)
  ELSE Fed(e, out, Least(Room(e), Len(out)))

\* OnWaitableHandleEvent for Write: FeedOutput, and the watch is removed when
\* the stream is empty (from the start, or now).
WriteReady(e) ==
  /\ Ready(e)
  /\ m_hasWriteWatch[e]
  /\ Room(e) > 0 \/ PeerClosed(e)
  /\ \/ /\ m_outputStream[e] = <<>>
        /\ m_hasWriteWatch' = [m_hasWriteWatch EXCEPT ![e] = FALSE]
        /\ UNCHANGED <<m_opened, m_hasReadWatch, m_outputStream, kernel, eventQueue>>
     \/ /\ m_outputStream[e] # <<>>
        /\ PeerClosed(e)
        /\ FeedBroken(e, m_outputStream[e])
     \/ /\ m_outputStream[e] # <<>>
        /\ ~PeerClosed(e)
        /\ LET n == Least(Room(e), Len(m_outputStream[e])) IN
             /\ kernel' = [kernel EXCEPT ![e] = @ \o SubSeq(m_outputStream[e], 1, n)]
             /\ m_outputStream' = [m_outputStream EXCEPT ![e] = Consume(@, n)]
             /\ m_hasWriteWatch' = [m_hasWriteWatch EXCEPT ![e] = n < Len(m_outputStream[e])]
        /\ UNCHANGED <<m_opened, m_hasReadWatch, eventQueue>>
  /\ UNCHANGED <<m_inputStream, parsing, socket, reset, received, sent, pings, failed, escaped>>

\* ... unless send fails: the exception leaves the listener.
WriteReadyFails(e) ==
  /\ MayFail
  /\ Ready(e)
  /\ m_hasWriteWatch[e]
  /\ Room(e) > 0
  /\ ~PeerClosed(e)
  /\ m_outputStream[e] # <<>>
  /\ FeedFailed(e, m_outputStream[e])
  /\ escaped' = [escaped EXCEPT ![e] = TRUE]
  /\ UNCHANGED <<m_inputStream, parsing, socket, reset, received, sent, pings>>

\* ReadInput, with bytes there: they are appended and will be interpreted.
ReadBytes(e) ==
  /\ Ready(e)
  /\ m_hasReadWatch[e]
  /\ kernel[Other(e)] # <<>>
  /\ LET n == Least(ReadSize, Len(kernel[Other(e)])) IN
       /\ m_inputStream' = [m_inputStream EXCEPT ![e] = @ \o SubSeq(kernel[Other(e)], 1, n)]
       /\ kernel' = [kernel EXCEPT ![Other(e)] = Consume(@, n)]
  /\ parsing' = [parsing EXCEPT ![e] = TRUE]
  /\ UNCHANGED <<m_opened, m_hasReadWatch, m_hasWriteWatch, m_outputStream, socket, reset,
                 eventQueue, received, sent, pings, failed, escaped>>

\* ... at the end of the stream, or when it was reset.
ReadEnd(e) ==
  /\ Ready(e)
  /\ m_hasReadWatch[e]
  /\ kernel[Other(e)] = <<>>
  /\ PeerClosed(e)
  /\ Shut(e, IF reset[e] THEN "Broken" ELSE "Closed")
  /\ UNCHANGED <<m_outputStream, m_inputStream, parsing, socket, kernel, reset, received, sent,
                 pings, failed, escaped>>
\* ... or when recv fails for lack of resources: GenericSocket::Read throws
\* ReadFailed, which leaves the listener.
ReadFails(e) ==
  /\ MayFail
  /\ Ready(e)
  /\ m_hasReadWatch[e]
  /\ kernel[Other(e)] # <<>>
  /\ failed' = [failed EXCEPT ![e] = TRUE]
  /\ escaped' = [escaped EXCEPT ![e] = TRUE]
  /\ UNCHANGED <<ioVars, socket, kernel, reset, eventQueue, received, sent, pings>>
-------------------------------------------------------------------------------
\* GenericRPCConnection.

FrontPacket(e) == Head(m_inputStream[e])[1]

\* Enough bytes of the stream for the header and for the size it tells.
HasPacket(e) ==
  /\ Len(m_inputStream[e]) >= HeaderSize
  /\ Len(m_inputStream[e]) >= HeaderSize + HeaderOf(FrontPacket(e))

Rest(e) == Consume(m_inputStream[e], HeaderSize + HeaderOf(FrontPacket(e)))

\* OnInputStreamRead: a packet with a call is posted.
ParseAsyncCall(e) ==
  /\ Alive(e)
  /\ parsing[e]
  /\ HasPacket(e)
  /\ FrontPacket(e) \in Calls
  /\ m_inputStream' = [m_inputStream EXCEPT ![e] = Rest(e)]
  /\ Post(e, FrontPacket(e))
  /\ UNCHANGED <<m_opened, m_hasReadWatch, m_hasWriteWatch, m_outputStream, parsing, socket,
                 kernel, reset, received, sent, pings, failed, escaped>>

\* ... and a ping answered by one,
ParsePingPong(e) ==
  /\ Alive(e)
  /\ parsing[e]
  /\ HasPacket(e)
  /\ FrontPacket(e) = Ping
  /\ m_opened[e]
  /\ m_inputStream' = [m_inputStream EXCEPT ![e] = Rest(e)]
  /\ FeedOutput(e, m_outputStream[e] \o Packet(Ping))
  /\ UNCHANGED <<parsing, socket, reset, received, sent, pings, escaped>>

\* ... or, when an answer before it found the connection broken, by PingFailed,
\* which leaves the listener.
ParsePingNotOpened(e) ==
  /\ Alive(e)
  /\ parsing[e]
  /\ HasPacket(e)
  /\ FrontPacket(e) = Ping
  /\ ~m_opened[e]
  /\ m_inputStream' = [m_inputStream EXCEPT ![e] = Rest(e)]
  /\ m_outputStream' = [m_outputStream EXCEPT ![e] = @ \o Packet(Ping)]
  /\ escaped' = [escaped EXCEPT ![e] = TRUE]
  /\ UNCHANGED <<m_opened, m_hasReadWatch, m_hasWriteWatch, parsing, socket, kernel, reset,
                 eventQueue, received, sent, pings, failed>>

\* Too few bytes for another packet.
ParseEnd(e) ==
  /\ Alive(e)
  /\ parsing[e]
  /\ ~HasPacket(e)
  /\ parsing' = [parsing EXCEPT ![e] = FALSE]
  /\ UNCHANGED <<m_opened, m_hasReadWatch, m_hasWriteWatch, m_outputStream, m_inputStream, socket,
                 kernel, reset, eventQueue, received, sent, pings, failed, escaped>>

\* AsyncCall: the packet is appended, then fed,
AsyncCall(e, c) ==
  /\ Ready(e)
  /\ m_opened[e]
  /\ Caller[c] = e
  /\ c \notin Range(sent[e])
  /\ sent' = [sent EXCEPT ![e] = Append(@, c)]
  /\ \/ FeedOutput(e, m_outputStream[e] \o Packet(c))
     \/ MayFail /\ FeedFailed(e, m_outputStream[e] \o Packet(c))
  /\ UNCHANGED <<m_inputStream, parsing, socket, reset, received, pings, escaped>>

\* ... and appended for nothing after the end: AsyncCallFailed.
AsyncCallNotOpened(e, c) ==
  /\ Ready(e)
  /\ ~m_opened[e]
  /\ Caller[c] = e
  /\ c \notin Range(sent[e])
  /\ sent' = [sent EXCEPT ![e] = Append(@, c)]
  /\ m_outputStream' = [m_outputStream EXCEPT ![e] = @ \o Packet(c)]
  /\ UNCHANGED <<m_opened, m_hasReadWatch, m_hasWriteWatch, m_inputStream, parsing, socket, kernel,
                 reset, eventQueue, received, pings, failed, escaped>>

\* Ping, by the application.
StartPing(e) ==
  /\ Ready(e)
  /\ m_opened[e]
  /\ pings < MaxPings
  /\ pings' = pings + 1
  /\ FeedOutput(e, m_outputStream[e] \o Packet(Ping))
  /\ UNCHANGED <<m_inputStream, parsing, socket, reset, received, sent, escaped>>

\* The loop handles the oldest event: AsyncCallEvent, ConnectionClosedEvent or
\* ConnectionBrokenEvent.
HandleEvent(e) ==
  /\ Ready(e)
  /\ eventQueue[e] # <<>>
  /\ eventQueue' = [eventQueue EXCEPT ![e] = Tail(@)]
  /\ received' = IF Head(eventQueue[e]) \in Calls
                 THEN [received EXCEPT ![e] = Append(@, Head(eventQueue[e]))]
                 ELSE received
  /\ UNCHANGED <<ioVars, socket, kernel, reset, sent, pings, failed, escaped>>

\* ~GenericRPCConnection: Close of the support, then ~GenericSocket, which
\* closes the descriptor.  Events that are still queued find no listener.
Delete(e) ==
  /\ Ready(e)
  /\ m_hasReadWatch' = [m_hasReadWatch EXCEPT ![e] = FALSE]
  /\ m_hasWriteWatch' = [m_hasWriteWatch EXCEPT ![e] = FALSE]
  /\ m_opened' = [m_opened EXCEPT ![e] = FALSE]
  /\ socket' = [socket EXCEPT ![e] = "None"]
  /\ reset' = [reset EXCEPT ![Other(e)] = kernel[Other(e)] # <<>>]
  /\ kernel' = [kernel EXCEPT ![Other(e)] = <<>>]
  /\ eventQueue' = [eventQueue EXCEPT ![e] = <<>>]
  /\ UNCHANGED <<m_outputStream, m_inputStream, parsing, received, sent, pings, failed, escaped>>

Listen(e) ==
  \/ WriteReady(e) \/ WriteReadyFails(e)
  \/ ReadBytes(e) \/ ReadEnd(e) \/ ReadFails(e)

Parse(e) == ParseAsyncCall(e) \/ ParsePingPong(e) \/ ParsePingNotOpened(e) \/ ParseEnd(e)

Application(e) ==
  \/ \E c \in Calls : AsyncCall(e, c) \/ AsyncCallNotOpened(e, c)
  \/ StartPing(e)
  \/ Delete(e)

Next == \E e \in Ends : Listen(e) \/ Parse(e) \/ HandleEvent(e) \/ Application(e)

\* A listener that runs goes on.  A round of Thread::Exec comes to every watch
\* that is ready and to the event queue, whatever ran in the round before.
Fairness ==
  \A e \in Ends :
    /\ WF_vars(Parse(e))
    /\ WF_vars(WriteReady(e))
    /\ SF_vars(ReadBytes(e) \/ ReadEnd(e))
    /\ SF_vars(HandleEvent(e))

Spec == Init /\ [][Next]_vars /\ Fairness
-------------------------------------------------------------------------------
\* Properties.

TypeOK ==
  /\ m_opened \in [Ends -> BOOLEAN]
  /\ m_hasReadWatch \in [Ends -> BOOLEAN]
  /\ m_hasWriteWatch \in [Ends -> BOOLEAN]
  /\ m_outputStream \in [Ends -> Seq(Bytes)]
  /\ m_inputStream \in [Ends -> Seq(Bytes)]
  /\ parsing \in [Ends -> BOOLEAN]
  /\ socket \in [Ends -> {"Connected", "None"}]
  /\ kernel \in [Ends -> Seq(Bytes)]
  /\ \A e \in Ends : Len(kernel[e]) <= Capacity
  /\ reset \in [Ends -> BOOLEAN]
  /\ eventQueue \in [Ends -> Seq(Calls \cup {"Closed", "Broken"})]
  /\ received \in [Ends -> Seq(Calls)]
  /\ sent \in [Ends -> Seq(Calls)]
  /\ pings \in 0..MaxPings
  /\ failed \in [Ends -> BOOLEAN]
  /\ escaped \in [Ends -> BOOLEAN]

\* The calls at some places stand in the order they were made in, each once,
\* and are those made after the first `from', up to `to'.
InTurn(calls, made, from, to) ==
  /\ \A i \in DOMAIN calls : \E k \in from + 1 .. to : made[k] = calls[i]
  /\ \A k \in from + 1 .. to : \E i \in DOMAIN calls : calls[i] = made[k]
  /\ \A i, j \in DOMAIN calls : \A k, l \in from + 1 .. to :
       i < j /\ made[k] = calls[i] /\ made[l] = calls[j] => k < l

CallsOf(queue) == [i \in {j \in DOMAIN queue : queue[j] \in Calls} |-> queue[i]]

\* The calls that an end handles, then those of its queue, are a beginning of
\* the calls the other end has made, whole and in the order they were made, and
\* the input stream starts where a packet does: however the kernel cuts the
\* bytes, OnInputStreamRead cuts them into the packets of AsyncCall.
CallsArriveInOrder ==
  \A e \in Ends :
    /\ IsPrefix(received[e], sent[Other(e)])
    /\ \E arrived \in Len(received[e]) .. Len(sent[Other(e)]) :
         InTurn(CallsOf(eventQueue[e]), sent[Other(e)], Len(received[e]), arrived)
    /\ m_inputStream[e] # <<>> => Head(m_inputStream[e])[2] = 1

\* While a connection is open and no send has failed, bytes of its output
\* stream have a write watch that will come back to them: none are forgotten,
\* and an end that is shut has no watch of its own.
OutputIsWatched ==
  \A e \in Ends :
    /\ m_opened[e] /\ ~failed[e] /\ m_outputStream[e] # <<>> => m_hasWriteWatch[e]
    /\ m_opened[e] <=> m_hasReadWatch[e]
    /\ ~m_opened[e] => ~m_hasWriteWatch[e]

\* The bytes from e to the other end, the next to be interpreted first.
Line(e) == m_inputStream[Other(e)] \o kernel[e] \o m_outputStream[e]

\* How many packets of PingPong are under way from e.
Pinging(e) == Cardinality({i \in DOMAIN Line(e) : Line(e)[i] = <<Ping, HeaderSize>>})

\* A ping is answered by a ping, so each that the application starts goes round
\* for as long as both ends live: there are exactly as many under way.
PingsGoRound ==
  (\A e \in Ends : m_opened[e] /\ socket[e] = "Connected")
    => \A e \in Ends : Pinging(e) + Pinging(Other(e)) = pings

\* A listener lets an exception pass only after a failed send, or after the
\* answer to a ping has found the connection broken.
EscapesAfterFailure ==
  \A e \in Ends : escaped[e] => failed[e] \/ (~m_opened[e] /\ PeerClosed(e))

\* The two ends understand each other, and neither forgets what it still has to
\* send or lets an exception out that nothing has caused.
EndsAgree ==
  TypeOK /\ CallsArriveInOrder /\ OutputIsWatched /\ PingsGoRound /\ EscapesAfterFailure

\* A call on a connection that stays up is handled by the other end.
CallsArrive ==
  \A c \in Calls :
    c \in Range(sent[Caller[c]])
      ~> \/ c \in Range(received[Other(Caller[c])])
         \/ \E e \in Ends : ~m_opened[e] \/ failed[e]

===============================================================================
