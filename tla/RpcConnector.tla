----------------------------- MODULE RpcConnector -----------------------------
(***************************************************************************)
(* How connections come to be: the states of a GenericSocket and its       *)
(* watches, GenericSocketRPCServer, which accepts on the interfaces it has *)
(* opened, and GenericSocketRPCClient, which follows its sockets until     *)
(* they are connected.  Both give the application an RPC connection in an  *)
(* event that they post to their own thread.                               *)
(*                                                                         *)
(* One server and one client, each in its thread; the kernel between them  *)
(* is external: the address, the backlog of a listening socket, the        *)
(* outcome of a connect that is in progress.                               *)
(***************************************************************************)
EXTENDS Integers, Sequences, SequencesExt, FiniteSets

CONSTANTS
  Server, Client,   \* the two connectors; their threads
  MaxSockets,       \* bound: how many sockets are ever allocated
  MaxQueue,         \* bound: a thread this far behind is not sent more readiness
  Backlog,          \* of Listen: 8
  MayFail           \* system calls may fail

RpcConnectorAssumption ==
  /\ Server # Client
  /\ MaxSockets \in Nat
  /\ MaxQueue \in Nat \ {0}
  /\ Backlog \in Nat \ {0}
  /\ MayFail \in BOOLEAN

Sockets == 1..MaxSockets
NoSocket == 0

VARIABLES
  \* the sockets
  allocated,                \* how many there have been: 1..allocated
  deleted,
  m_internalState,
  m_socket,                 \* those with a descriptor
  watches,                  \* the watches of GenericSocket, <<socket, mode>>
  \* the connectors
  m_internalInterfacesSet,
  m_internalConnectionSet,
  listening,                \* sockets with the connector as listener
  connections,              \* sockets that belong to an RPC connection
  handed,                   \* those whose connection the application has
  eventQueue,
  destroyed,                \* connectors
  leaked,                   \* sockets left behind by an Open that failed
  \* the kernel
  address,                  \* the socket bound to the address, or NoSocket
  backlog,                  \* clients that wait for the accept of a socket
  peer,                     \* the accepted socket of a client, or NoSocket
  refused                   \* clients whose connect in progress has failed

objectVars == <<allocated, deleted, m_internalState, m_socket, watches>>
connectorVars == <<m_internalInterfacesSet, m_internalConnectionSet, listening, connections, handed,
                   destroyed, leaked>>
kernelVars == <<address, backlog, peer, refused>>
vars == <<objectVars, connectorVars, kernelVars, eventQueue>>

States == {"None", "Prepare", "Listening", "Connecting", "Connected"}

Init ==
  /\ allocated = 0
  /\ deleted = {}
  /\ m_internalState = [s \in Sockets |-> "None"]
  /\ m_socket = {}
  /\ watches = {}
  /\ m_internalInterfacesSet = {}
  /\ m_internalConnectionSet = {}
  /\ listening = {}
  /\ connections = {}
  /\ handed = {}
  /\ eventQueue = [t \in {Server, Client} |-> <<>>]
  /\ destroyed = {}
  /\ leaked = {}
  /\ address = NoSocket
  /\ backlog = [s \in Sockets |-> <<>>]
  /\ peer = [s \in Sockets |-> NoSocket]
  /\ refused = {}

\* A new socket object.
Alloc == allocated < MaxSockets /\ allocated' = allocated + 1
New == allocated + 1

Post(t, event) == eventQueue' = [eventQueue EXCEPT ![t] = Append(@, event)]

\* The mode that a state watches its descriptor for: AddAcceptWatch,
\* AddConnectWatch, AddReadWatch.
WatchMode(state) ==
  CASE state \in {"Listening", "Connected"} -> {"Read"}
    [] state = "Connecting" -> {"Write"}
    [] OTHER -> {}
\* A client in the backlog of a socket.
Waiting(s) == \E l \in Sockets : s \in ToSet(backlog[l])
-------------------------------------------------------------------------------
\* GenericSocket.

\* The socket enters a state, its watch with it.
Enter(s, state) ==
  /\ m_internalState' = [m_internalState EXCEPT ![s] = state]
  /\ watches' = watches \cup ({s} \X WatchMode(state))
  /\ m_socket' = m_socket \cup {s}

\* Close: the watch of the state is removed, then the descriptor is closed.
CloseSocket(s) ==
  /\ m_internalState' = [m_internalState EXCEPT ![s] = "None"]
  /\ watches' = watches \ ({s} \X WatchMode(m_internalState[s]))
  /\ m_socket' = m_socket \ {s}

\* OnWaitableHandleEvent in state Connecting: writable means connected, whether
\* the connect has succeeded or not.
ConnectReady(s) ==
  /\ m_internalState[s] = "Connecting"
  /\ <<s, "Write">> \in watches
  /\ s \in refused \/ peer[s] # NoSocket \/ Waiting(s)
  /\ m_internalState' = [m_internalState EXCEPT ![s] = "Connected"]
  /\ watches' = (watches \ {<<s, "Write">>}) \cup {<<s, "Read">>}
  /\ Post(Client, <<"Connected", s>>)
  /\ UNCHANGED <<allocated, deleted, m_socket, connectorVars, kernelVars>>

\* ... in state Listening: an AcceptEvent each time the loop finds clients
\* waiting, also while an earlier one is still in the queue.
AcceptReady(s) ==
  /\ m_internalState[s] = "Listening"
  /\ <<s, "Read">> \in watches
  /\ backlog[s] # <<>>
  /\ Len(eventQueue[Server]) < MaxQueue
  /\ Post(Server, <<"Accept", s>>)
  /\ UNCHANGED <<objectVars, connectorVars, kernelVars>>
-------------------------------------------------------------------------------
\* The kernel.

\* Connects of clients meet the socket at the address while it listens and has room.
Reachable == address \in m_socket /\ m_internalState[address] = "Listening"
                                  /\ Len(backlog[address]) < Backlog

\* A connect in progress succeeds or is refused.
FinishConnect(s) ==
  /\ m_internalState[s] = "Connecting"
  /\ s \notin refused
  /\ peer[s] = NoSocket
  /\ ~Waiting(s)
  /\ \/ /\ Reachable
        /\ backlog' = [backlog EXCEPT ![address] = Append(@, s)]
        /\ UNCHANGED refused
     \/ /\ ~Reachable
        /\ refused' = refused \cup {s}
        /\ UNCHANGED backlog
  /\ UNCHANGED <<objectVars, connectorVars, address, peer, eventQueue>>

\* What a closed descriptor leaves: nobody waits for its accept or in a backlog.
KernelClose(s) ==
  /\ backlog' = [l \in Sockets |-> IF l = s THEN <<>> ELSE Remove(backlog[l], s)]
  /\ UNCHANGED <<address, peer, refused>>
-------------------------------------------------------------------------------
\* GenericSocketRPCServer.

\* Open: a new socket is opened, bound (the file of an earlier one at the
\* address is removed first) and listens.
ServerOpen ==
  /\ Server \notin destroyed
  /\ Alloc
  /\ Enter(New, "Listening")
  /\ address' = New
  /\ listening' = listening \cup {New}
  /\ m_internalInterfacesSet' = m_internalInterfacesSet \cup {New}
  /\ UNCHANGED <<deleted, m_internalConnectionSet, connections, handed, destroyed, leaked, backlog,
                 peer, refused, eventQueue>>

\* ... or one of the calls fails: the listener is removed and the exception
\* OpenFailed thrown; nobody deletes the socket.
OpenFails(c) ==
  /\ MayFail
  /\ c \notin destroyed
  /\ Alloc
  /\ leaked' = leaked \cup {New}
  /\ \E state \in {"None", "Prepare"} :
       /\ m_internalState' = [m_internalState EXCEPT ![New] = state]
       /\ m_socket' = IF state = "Prepare" THEN m_socket \cup {New} ELSE m_socket
  /\ UNCHANGED <<deleted, watches, m_internalInterfacesSet, m_internalConnectionSet, listening,
                 connections, handed, destroyed, kernelVars, eventQueue>>

\* OnEventReceived of AcceptEvent: the interface may be gone, the client may
\* have been accepted for an earlier event or have left.
HandleAccept(s) ==
  \/ /\ s \in m_internalInterfacesSet
     /\ backlog[s] # <<>>
     /\ Alloc
     /\ Enter(New, "Connected")
     /\ backlog' = [backlog EXCEPT ![s] = Tail(@)]
     /\ peer' = [peer EXCEPT ![Head(backlog[s])] = New]
     /\ connections' = connections \cup {New}
     /\ eventQueue' = [eventQueue EXCEPT ![Server] = Append(Tail(@), <<"Established", New>>)]
     /\ UNCHANGED <<deleted, m_internalInterfacesSet, m_internalConnectionSet, listening, handed,
                    destroyed, leaked, address, refused>>
  \/ /\ s \notin m_internalInterfacesSet \/ backlog[s] = <<>>
     /\ eventQueue' = [eventQueue EXCEPT ![Server] = Tail(@)]
     /\ UNCHANGED <<objectVars, connectorVars, kernelVars>>

\* Close of an interface that is still known.
ServerClose(s) ==
  /\ s \in m_internalInterfacesSet
  /\ CloseSocket(s)
  /\ KernelClose(s)
  /\ listening' = listening \ {s}
  /\ deleted' = deleted \cup {s}
  /\ m_internalInterfacesSet' = m_internalInterfacesSet \ {s}
  /\ UNCHANGED <<allocated, m_internalConnectionSet, connections, handed, destroyed, leaked,
                 eventQueue>>
-------------------------------------------------------------------------------
\* GenericSocketRPCClient.

\* Open: connected at once, or in progress.
ClientOpen ==
  /\ Client \notin destroyed
  /\ Alloc
  /\ listening' = listening \cup {New}
  /\ m_internalConnectionSet' = m_internalConnectionSet \cup {New}
  /\ \/ /\ Reachable
        /\ Enter(New, "Connected")
        /\ backlog' = [backlog EXCEPT ![address] = Append(@, New)]
        /\ Post(Client, <<"Connected", New>>)
     \/ /\ Enter(New, "Connecting")
        /\ UNCHANGED <<backlog, eventQueue>>
  /\ UNCHANGED <<deleted, m_internalInterfacesSet, connections, handed, destroyed, leaked, address,
                 peer, refused>>

\* Mutant: the listeners are not told.
HandleConnectedQuietly(s) ==
  /\ m_internalConnectionSet' = m_internalConnectionSet \ {s}
  /\ listening' = listening \ {s}
  /\ connections' = connections \cup {s}
  /\ eventQueue' = [eventQueue EXCEPT ![Client] = Tail(@)]
  /\ UNCHANGED <<objectVars, m_internalInterfacesSet, handed, destroyed, leaked, kernelVars>>

\* OnEventReceived of ConnectedEvent: the socket goes to an RPC connection.
HandleConnected(s) ==
  \/ /\ s \in m_internalConnectionSet
     /\ m_internalConnectionSet' = m_internalConnectionSet \ {s}
     /\ listening' = listening \ {s}
     /\ connections' = connections \cup {s}
     /\ eventQueue' = [eventQueue EXCEPT ![Client] = Append(Tail(@), <<"Established", s>>)]
     /\ UNCHANGED <<objectVars, m_internalInterfacesSet, handed, destroyed, leaked, kernelVars>>
  \/ /\ s \notin m_internalConnectionSet
     /\ eventQueue' = [eventQueue EXCEPT ![Client] = Tail(@)]
     /\ UNCHANGED <<objectVars, connectorVars, kernelVars>>

\* Close of a connection that is not established yet.
ClientClose(s) ==
  /\ s \in m_internalConnectionSet
  /\ CloseSocket(s)
  /\ KernelClose(s)
  /\ listening' = listening \ {s}
  /\ deleted' = deleted \cup {s}
  /\ m_internalConnectionSet' = m_internalConnectionSet \ {s}
  /\ UNCHANGED <<allocated, m_internalInterfacesSet, connections, handed, destroyed, leaked,
                 eventQueue>>
-------------------------------------------------------------------------------
\* ~GenericSocketRPCServer, ~GenericSocketRPCClient: once CloseAll has closed
\* all, the connector goes, and the events it has posted with it.
Destroy(c) ==
  /\ c \notin destroyed
  /\ (IF c = Server THEN m_internalInterfacesSet ELSE m_internalConnectionSet) = {}
  /\ destroyed' = destroyed \cup {c}
  /\ eventQueue' = [eventQueue EXCEPT ![c] = <<>>]
  /\ UNCHANGED <<objectVars, m_internalInterfacesSet, m_internalConnectionSet, listening,
                 connections, handed, leaked, kernelVars>>

\* The application receives ConnectionEstablishedEvent.
HandleEstablished(c, s) ==
  /\ handed' = handed \cup {s}
  /\ eventQueue' = [eventQueue EXCEPT ![c] = Tail(@)]
  /\ UNCHANGED <<objectVars, m_internalInterfacesSet, m_internalConnectionSet, listening,
                 connections, destroyed, leaked, kernelVars>>

\* ... and deletes the connection at last, with its socket.
DeleteConnection(s) ==
  /\ s \in handed \cap connections
  /\ CloseSocket(s)
  /\ KernelClose(s)
  /\ deleted' = deleted \cup {s}
  /\ connections' = connections \ {s}
  /\ UNCHANGED <<allocated, m_internalInterfacesSet, m_internalConnectionSet, listening, handed,
                 destroyed, leaked, eventQueue>>

HandleEvent(c) ==
  /\ eventQueue[c] # <<>>
  /\ LET event == Head(eventQueue[c])
     IN \/ event[1] = "Accept" /\ HandleAccept(event[2])
        \/ event[1] = "Connected" /\ HandleConnected(event[2])
        \/ event[1] = "Established" /\ HandleEstablished(c, event[2])

Next ==
  \/ ServerOpen \/ ClientOpen
  \/ \E c \in {Server, Client} : OpenFails(c) \/ HandleEvent(c) \/ Destroy(c)
  \/ \E s \in 1..allocated :
       \/ ConnectReady(s) \/ AcceptReady(s) \/ FinishConnect(s)
       \/ ServerClose(s) \/ ClientClose(s) \/ DeleteConnection(s)

\* The loops come to every descriptor that is ready and to every event, and a
\* connect in progress ends.
Fairness ==
  /\ \A c \in {Server, Client} : SF_vars(HandleEvent(c))
  /\ \A s \in Sockets :
       WF_vars(ConnectReady(s)) /\ WF_vars(AcceptReady(s)) /\ WF_vars(FinishConnect(s))

Spec == Init /\ [][Next]_vars /\ Fairness
-------------------------------------------------------------------------------
\* Properties.

TypeOK ==
  /\ allocated \in 0..MaxSockets
  /\ deleted \subseteq Sockets
  /\ m_internalState \in [Sockets -> States]
  /\ m_socket \subseteq Sockets
  /\ watches \subseteq Sockets \X {"Read", "Write"}
  /\ m_internalInterfacesSet \subseteq Sockets
  /\ m_internalConnectionSet \subseteq Sockets
  /\ listening \subseteq Sockets
  /\ connections \subseteq Sockets
  /\ handed \subseteq Sockets
  /\ eventQueue \in [{Server, Client} -> Seq({"Accept", "Connected", "Established"} \X Sockets)]
  /\ destroyed \subseteq {Server, Client}
  /\ leaked \subseteq Sockets
  /\ address \in Sockets \cup {NoSocket}
  /\ backlog \in [Sockets -> Seq(Sockets)]
  /\ peer \in [Sockets -> Sockets \cup {NoSocket}]
  /\ refused \subseteq Sockets

\* A socket has the watch of its state and no other, so a descriptor that is
\* closed has none, whatever Close interrupted.
WatchesMatchState ==
  watches = UNION {{s} \X WatchMode(m_internalState[s]) : s \in m_socket}

\* Each socket with a descriptor belongs to one of the interfaces, of the
\* connects that are followed, of the RPC connections or of the sockets that a
\* failed Open has forgotten; a socket that nobody has is closed and deleted.
OwnedOnce ==
  \A s \in 1..allocated :
    LET sets == <<m_internalInterfacesSet, m_internalConnectionSet, connections, leaked, deleted>>
        owners == {i \in 1..5 : s \in sets[i]}
    IN /\ Cardinality(owners) = 1
       /\ s \in deleted => s \notin m_socket
       /\ s \in listening <=> s \in m_internalInterfacesSet \cup m_internalConnectionSet

\* An RPC connection is the application's, or an event in the queue of a
\* connector will bring it; only a connector that was destroyed lets it be lost.
ConnectionsAreHanded ==
  \A s \in connections :
    \/ s \in handed
    \/ \E c \in {Server, Client} : <<"Established", s>> \in ToSet(eventQueue[c])
    \/ destroyed # {}

===============================================================================
