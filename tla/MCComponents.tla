---------------------------- MODULE MCComponents ----------------------------
(***************************************************************************)
(* Small instances of the components of Components, the fairness their     *)
(* specifications assume, and what must come in the end.                   *)
(***************************************************************************)
EXTENDS Components

-----------------------------------------------------------------------------
(* What the instances are made of. *)

\* A property of each kind of storage; the cached one has two listeners.
PropertyStorage == [c |-> "Cached", d |-> "Dynamic", x |-> "DynamicCached"]
PropertyListening == [c |-> {"a", "m"}, d |-> {"m"}, x |-> {"m"}]

DelegateReuse == [d |-> FALSE, e |-> TRUE]

\* A task with fewer steps, and one without abort steps.
TasksAdded == << "x", "y", "z", "w" >>
TaskSteps == [x |-> <<1, 2>>, y |-> <<1>>, z |-> <<1, 2, 3>>, w |-> <<1, 2, 3>>]
TaskAbortSteps == [x |-> <<4, 5>>, y |-> <<>>, z |-> <<4, 5>>, w |-> <<4, 5>>]

\* Two entries of one name; one that needs two calls of the device.
ZipEntries ==
  << [name |-> "x", start |-> 0, size |-> 3], [name |-> "y", start |-> 3, size |-> 4],
     [name |-> "x", start |-> 7, size |-> 1] >>

\* The groups take turns in the order of the names of the tests.
TestGroups == << "g", "h" >>
RegisteredTests == [g |-> {1, 3}, h |-> {2, 4}]

\* Popups with a check box before and after the button, and without one.
PopupAsker == [p |-> "u", q |-> "u", r |-> "v"]
ObjectsOfPopups ==
  [p |-> << "check", "yes", "no" >>, q |-> << "ok", "label", "check" >>, r |-> << "label", "close" >>]

\* The parser's texts: a letter of one byte and one of two, a space, and two
\* characters that count as spaces.
Characters == { <<97>>, <<195, 169>>, <<32>>, <<194, 160>>, <<226, 128, 168>> }
ParserTexts == UNION {[1..n -> Characters] : n \in 0..4}

-----------------------------------------------------------------------------
\* The variables of the component that runs, if it has something fair to do.
running ==
  CASE Is("InterContextDelegate") -> delegateVars
    [] Is("StreamCopy")   -> copyVars
    [] Is("Popup")        -> popupVars
    [] Is("RpcConnector") -> connectorVars
    [] Is("WatchSupport") -> watchVars
    [] OTHER -> component

(* The steps that the specifications of the components assume weak         *)
(* fairness of, one number for each such condition of a component.         *)
FairStep(k) ==
  /\ UNCHANGED component
  /\ \/ /\ Is("InterContextDelegate")
        /\ \/ k = 1 /\ Icd!OwnerStep
           \/ k = 2 /\ Icd!ThreadStep("o")
           \/ k = 3 /\ Icd!ThreadStep("a")
     \/ /\ Is("StreamCopy")
        /\ \/ k = 1 /\ Copy!CopyStep
           \/ k = 2 /\ Copy!WriterCloses
           \/ k = 3 /\ Copy!ReaderReads
     \/ /\ Is("Popup")
        /\ \/ k = 1 /\ Ask!ReceiveAnswer("p")
           \/ k = 2 /\ Ask!ReceiveAnswer("q")
           \/ k = 3 /\ Ask!ReceiveAnswer("r")
           \/ k = 4 /\ \E shown \in BOOLEAN : Ask!ReceiveShow(shown)
           \/ k = 5 /\ Ask!Press
     \/ /\ Is("RpcConnector")
        /\ k \in 1..3 /\ (Conn!ConnectReady(k) \/ Conn!AcceptReady(k) \/ Conn!FinishConnect(k))
     \/ /\ Is("WatchSupport")
        /\ \/ k = 1 /\ Watch!LoopStep
           \/ k = 2 /\ Watch!ClientChange("c")

(* A socket is listening, connecting or in progress: the three steps of    *)
(* RpcConnector with one number are never possible at the same time.       *)
Fairness ==
  /\ \A k \in 1..5 : WF_running(FairStep(k))
  /\ \A c \in {"server", "client"} : SF_running(Is("RpcConnector") /\ Conn!HandleEvent(c) /\ UNCHANGED component)

Spec == SafetySpec /\ Fairness

-----------------------------------------------------------------------------
(* Who waits: a thread inside a call of a delegate, a copy, the user of a  *)
(* popup, a client in the backlog while there are sockets to accept with.  *)
Waits(k) ==
  CASE Is("InterContextDelegate") -> k \in {1, 2} /\ Icd!Busy(<<"o", "a">>[k])
    [] Is("StreamCopy")   -> k = 1 /\ ~ Copy!Returned
    [] Is("Popup")        -> Ask!Waits(<<"p", "q", "r">>[k])
    [] Is("RpcConnector") -> Conn!Waiting(k) /\ allocated # MaxSockets
    [] OTHER -> FALSE

(* A descriptor that stays ready is served, unless the loop is jammed. *)
ReadyIsServed ==
  \/ <>[](Is("WatchSupport") /\ Watch!Committing)
  \/ \A h \in {1, 2}, w \in [listener : {"l"}, mode : {"Read", "Write"}] :
       <>[](Is("WatchSupport") /\ Watch!Ready(h, w)) => []<>(Is("WatchSupport") /\ Watch!Called(h, w))

(* Whoever waits is served in the end: a call of a delegate returns, a     *)
(* copy ends, a popup is answered, a client in the backlog is accepted, a  *)
(* listener is called.                                                     *)
WaitersAreServed ==
  /\ \A k \in 1..3 : Waits(k) ~> ~ Waits(k)
  /\ ReadyIsServed

(* The elements of config.xml are in orders that sets can be made with,    *)
(* and the comparisons beside them never contradict them.                  *)
OrdersAreStrict ==
  LET Params   == [name : {1, 2}, value : {1, 2}]
      Features == [name : {1, 2}, params : SUBSET {p \in Params : p.name + p.value < 4}]
      Accesses == [iri : {1, 2}, sub : BOOLEAN]
      Services == [src : {1, 2}, mime : {1, 2}]
  IN  /\ Config!StrictWeakOrder(Params, Config!ParamLess)
      /\ Config!StrictWeakOrder(Features, Config!FeatureLess)
      /\ Config!StrictWeakOrder(Accesses, Config!AccessInfoLess)
      /\ Config!StrictWeakOrder(Params, Config!SettingLess)
      /\ Config!StrictWeakOrder(Params, Config!PreferenceLess)
      /\ Config!StrictWeakOrder(Services, Config!IconLess)
      /\ \A a, b \in Params : Config!ParamLess(a, b) => Config!ParamLessOrEqual(a, b)
      /\ \A a, b \in Params : Config!SettingEqual(a, b) => ~ Config!SettingLess(a, b)
      /\ \A a, b \in Services : ~ (Config!ServiceEqual(a, b) /\ Config!ServiceDifferent(a, b))

(* The texts of config.xml are normalised as widgets expect it. *)
ConfigIsNormal ==
  Is("ConfigData") /\ normalized =>
    /\ Config!Normal(given, text)
    /\ given = <<>> => OrdersAreStrict
=============================================================================
