----------------------------- MODULE EvasObject ----------------------------
(***************************************************************************)
(* DPL::Popup::EvasObject: handles that share an EvasObjectShared, which   *)
(* points to an object of the toolkit and owns the connections of its      *)
(* callbacks.  The toolkit may delete the object at any time; the handles  *)
(* may go at any time; callbacks are connected and disconnected between.   *)
(* Each object is wrapped once, and a smart event has one connection, as   *)
(* the popup code has it: the toolkit removes smart callbacks by name and  *)
(* deletion callbacks by function, not by whom they belong to.             *)
(***************************************************************************)
EXTENDS Naturals, FiniteSets

CONSTANTS
  Handles,       \* the EvasObject variables
  Objects,       \* the objects of the toolkit
  SmartEvents,   \* the names of smart callbacks
  EvasEvents,    \* the types of event callbacks
  NoObject,      \* no object, and no shared object
  MaxShared,     \* bounds the EvasObjectShared that are made
  MaxConnections \* bounds the connections that are made

EvasObjectAssumption == NoObject \notin Objects /\ MaxShared \in Nat

VARIABLES
  handle,      \* handle[h]: the shared object of h, 0 before its constructor
  object,      \* object[s]: m_object of shared object s
  connections, \* the connections of the shared objects: [id, shared, event]
  registered,  \* the callbacks the toolkit has: [object, event, id]
  onDelete,    \* the deletion callbacks it has, as << object, shared >>
  alive,       \* the objects the toolkit has
  made,        \* the number of shared objects made
  connected    \* the number of connections made

vars == << handle, object, connections, registered, onDelete, alive, made, connected >>
sharedVars == << object, connections, registered, onDelete >>

Shared == 1 .. MaxShared

Init ==
  /\ handle = [h \in Handles |-> 0]
  /\ object = [s \in Shared |-> NoObject]
  /\ connections = {} /\ registered = {} /\ onDelete = {}
  /\ alive = Objects
  /\ made = 0 /\ connected = 0

Wrapped == {object[s] : s \in Shared}

(* The constructors, of an object or of none yet. *)
Construct(h, o) ==
  /\ handle[h] = 0 /\ made < MaxShared /\ o \notin Wrapped \ {NoObject}
  /\ made' = made + 1
  /\ handle' = [handle EXCEPT ![h] = made']
  /\ object' = [object EXCEPT ![made'] = o]
  /\ onDelete' = IF o = NoObject THEN onDelete ELSE onDelete \cup {<< o, made' >>}
  /\ UNCHANGED << connections, registered, alive, connected >>

(* SetObject, for a handle without an object. *)
SetObject(h, o) ==
  LET s == handle[h]
  IN  /\ s # 0 /\ object[s] = NoObject /\ o \notin Wrapped
      /\ object' = [object EXCEPT ![s] = o]
      /\ onDelete' = onDelete \cup {<< o, s >>}
      /\ UNCHANGED << handle, connections, registered, alive, made, connected >>

Copy(h, other) ==
  /\ handle[h] = 0 /\ handle[other] # 0
  /\ handle' = [handle EXCEPT ![h] = handle[other]]
  /\ UNCHANGED << sharedVars, alive, made, connected >>

ConnectionsOf(s) == {c \in connections : c.shared = s}
Ids(cs) == {c.id : c \in cs}

(* DisconnectPrv of each of cs, which the toolkit forgets, and its delete. *)
Disconnected(cs) ==
  /\ connections' = connections \ cs
  /\ registered' = {r \in registered : r.id \notin Ids(cs)}

(* Mutant: the last handle goes, and the callbacks stay with the object. *)
DestroyedOnly(s) ==
  /\ connections' = connections \ ConnectionsOf(s)
  /\ onDelete' = onDelete \ {<< object[s], s >>}
  /\ object' = [object EXCEPT ![s] = NoObject]
  /\ UNCHANGED registered

(* The destructor of the shared object, with its last handle. *)
Destroyed(s) ==
  /\ Disconnected(ConnectionsOf(s))
  /\ onDelete' = onDelete \ {<< object[s], s >>}
  /\ object' = [object EXCEPT ![s] = NoObject]

(* operator= (then another handle's shared object) and the destructor. *)
Detach(h, then) ==
  LET s == handle[h]
  IN  /\ s # 0 /\ then # s
      /\ handle' = [handle EXCEPT ![h] = then]
      /\ IF \A other \in Handles : handle'[other] # s
         THEN Destroyed(s)
         ELSE UNCHANGED sharedVars
      /\ UNCHANGED << alive, made, connected >>

(* ConnectSmartCallback, ConnectEvasCallback and those of members. *)
Connect(h, event) ==
  LET s == handle[h]
  IN  /\ s # 0 /\ object[s] # NoObject /\ connected < MaxConnections
      /\ event \in SmartEvents => ~ \E c \in ConnectionsOf(s) : c.event = event
      /\ connected' = connected + 1
      /\ connections' = connections \cup {[id |-> connected', shared |-> s, event |-> event]}
      /\ registered' = registered \cup
           {[object |-> object[s], event |-> event, id |-> connected']}
      /\ UNCHANGED << handle, object, onDelete, alive, made >>

(* DisconnectCallback of a handle: only a connection of its own. *)
DisconnectCallback(h, c) ==
  /\ handle[h] # 0 /\ c \in ConnectionsOf(handle[h])
  /\ Disconnected({c})
  /\ UNCHANGED << handle, object, onDelete, alive, made, connected >>

DisconnectAll(h) ==
  /\ handle[h] # 0 /\ ConnectionsOf(handle[h]) # {}
  /\ Disconnected(ConnectionsOf(handle[h]))
  /\ UNCHANGED << handle, object, onDelete, alive, made, connected >>

(* StaticOnDelEvent: the connections go, and the pointer with them. *)
OnDelEvent(s) ==
  /\ connections' = connections \ ConnectionsOf(s)
  /\ object' = [object EXCEPT ![s] = NoObject]

(* The toolkit deletes an object and calls back whoever wrapped it. *)
ToolkitDeletes(o) ==
  /\ o \in alive
  /\ alive' = alive \ {o}
  /\ registered' = {r \in registered : r.object # o}
  /\ onDelete' = {d \in onDelete : d[1] # o}
  /\ IF \E d \in onDelete : d[1] = o
     THEN OnDelEvent(CHOOSE s \in Shared : << o, s >> \in onDelete)
     ELSE UNCHANGED << object, connections >>
  /\ UNCHANGED << handle, made, connected >>

Next ==
  \/ \E h \in Handles :
       \/ \E o \in alive : Construct(h, o) \/ SetObject(h, o)
       \/ Construct(h, NoObject) \/ Detach(h, 0) \/ DisconnectAll(h)
       \/ \E other \in Handles : Copy(h, other)
       \/ \E other \in {g \in Handles : handle[g] # 0} : Detach(h, handle[other])
       \/ \E event \in SmartEvents \cup EvasEvents : Connect(h, event)
       \/ \E c \in connections : DisconnectCallback(h, c)
  \/ \E o \in Objects : ToolkitDeletes(o)

Spec == Init /\ [][Next]_vars

-----------------------------------------------------------------------------
(* Whatever goes first, the toolkit never has a callback for a connection  *)
(* or a shared object that is gone, and no connection loses its callback:  *)
(* the two sides name the same connections, of objects that are alive,     *)
(* and each shared object that points to one belongs to a handle.          *)
CallbacksAreLive ==
  /\ registered = {[object |-> object[c.shared], event |-> c.event, id |-> c.id] : c \in connections}
  /\ onDelete = {<< object[s], s >> : s \in {t \in Shared : object[t] # NoObject}}
  /\ Wrapped \subseteq alive \cup {NoObject}
  /\ \A s \in Shared : object[s] # NoObject => \E h \in Handles : handle[h] = s
=============================================================================
