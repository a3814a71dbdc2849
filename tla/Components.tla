----------------------------- MODULE Components -----------------------------
(***************************************************************************)
(* The components that stand by themselves, side by side: each has its     *)
(* variables, and a behaviour is one of a single component, named by the   *)
(* variable component, while the others stay where they start.  Where two  *)
(* components have a variable of one name, it is here that of the one with *)
(* the name of the component or of its object before it.                   *)
(***************************************************************************)
EXTENDS Naturals, Sequences

CONSTANTS
  RunComponents,  \* the components of the run
  Nobody,         \* no thread, process, popup, object or limit
  \* Property
  PropertyThreads, Callers, Properties, Values, InitialValue, Storage, Listening, Unset, MaxSets, MaxExternal,
  \* InterContextDelegate
  Owner, Others, Delegates, Reuse, MaxCalls,
  \* BinaryQueue
  Queues, MaxBuffers, MaxAppend,
  \* StreamCopy
  ChunkSize, Capacity, MaxWritten,
  \* TaskList
  Tasks, Steps, AbortSteps, MaxSwitches,
  \* SharedPtr
  PtrThreads, Slots, MaxObjects,
  \* Semaphore and SingleInstance
  Processes, MaxLockCount, Unlinks, MaxOpened, Names, MaxTries,
  \* ZipInput
  Entries, ArchiveSize, ExtractBufferSize, UnzBufSize, Readers,
  \* TestRunner
  GroupOrder, GroupTests, MaxOptions,
  \* Popup
  Popups, Asker, PopupObjects, MaxAsks,
  \* EvasObject
  EvasHandles, EvasObjects, SmartEvents, EvasEvents, MaxShared, MaxConnections,
  \* RpcConnector
  Server, Client, MaxSockets, MaxQueue, Backlog, MayFail,
  \* WatchSupport
  NumHandles, WatchListeners, Modes, WatchClients, Loop, MaxChanges,
  \* ConfigData
  Texts

VARIABLES
  component,
  \* Property
  readers, writer, m_value, remote, m_once, onceMutex, call, propertyQueue, log, history, sets, external,
  \* InterContextDelegate
  m_disabled, m_mutex, delegateListening, shared, listUser, ownerAlive, delegateQueue, stack, called, ended,
  calls,
  \* BinaryQueue
  queuesAlive, m_buckets, m_size, buffersAllocated, buffersDeleted,
  \* StreamCopy
  kind, limit, copyPc, buffer, bytesLeft, inPipe, written, inClosed, outPipe, copyReceived, outClosed,
  \* TaskList
  m_tasks, m_currentTask, m_steps, m_nextStep, m_abortSteps, result, aborts, undo, undone, switches,
  \* SharedPtr
  ptr, ref, objectsAlive, deletions, objectsMade, ptrPc,
  \* Semaphore
  name, value, opened, semaphoreHandle, inside,
  \* SingleInstance
  m_locked, m_fdLock, descriptors, lockOwner, tries,
  \* ZipInput
  zip, m_fileInfos, zipFile,
  \* TestRunner
  options, testGroups, startTestId, collector, testPc, group, todo, collected, stats, suites, malformed,
  resultFile,
  \* Popup
  asks, popupListening, shows, toRender, currentPopup, canvas, checkState, created, widgetsAlive, held,
  answers, popupReceived, initialized, failed, misused, toggled,
  \* EvasObject
  evasHandle, object, evasConnections, registered, onDelete, evasAlive, sharedMade, connected,
  \* RpcConnector
  allocated, deleted, m_internalState, m_socket, watches, m_internalInterfacesSet,
  m_internalConnectionSet, rpcListening, rpcConnections, handed, eventQueue, destroyed, leaked, address,
  backlog, peer, refused,
  \* WatchSupport
  m_watchersMap, m_watchersMutex, m_watchersInvoker, m_watchersInvokerCommit, m_directInvoke,
  handleSlots, handleCount, waitableHandleIndexList, watchPc, current, trackedListeners, calling,
  signaled, event, changes,
  \* ConfigData
  given, text, normalized

-----------------------------------------------------------------------------
Prop == INSTANCE Property WITH
  Threads <- PropertyThreads, Initial <- InitialValue, NoOne <- Nobody, queue <- propertyQueue

Icd == INSTANCE InterContextDelegate WITH
  NoOne <- Nobody,
  listening <- delegateListening, alive <- ownerAlive, queue <- delegateQueue

Queue == INSTANCE BinaryQueue WITH
  alive <- queuesAlive, allocated <- buffersAllocated, deleted <- buffersDeleted

Copy == INSTANCE StreamCopy WITH
  NoLimit <- Nobody, pc <- copyPc, received <- copyReceived

List == INSTANCE TaskList

Ptr == INSTANCE SharedPtr WITH
  Threads <- PtrThreads, alive <- objectsAlive, made <- objectsMade, pc <- ptrPc

Sem == INSTANCE Semaphore WITH handle <- semaphoreHandle

Single == INSTANCE SingleInstance WITH NoOne <- Nobody

Zip == INSTANCE ZipInput WITH file <- zipFile

Tests == INSTANCE TestRunner WITH Registered <- GroupTests, pc <- testPc, file <- resultFile

Ask == INSTANCE Popup WITH
  Objects <- PopupObjects, NoPopup <- Nobody,
  listening <- popupListening, current <- currentPopup, alive <- widgetsAlive, received <- popupReceived

Evas == INSTANCE EvasObject WITH
  Handles <- EvasHandles, Objects <- EvasObjects, NoObject <- Nobody,
  handle <- evasHandle, connections <- evasConnections, alive <- evasAlive, made <- sharedMade

Conn == INSTANCE RpcConnector WITH listening <- rpcListening, connections <- rpcConnections

Watch == INSTANCE WatchSupport WITH
  Listeners <- WatchListeners, Clients <- WatchClients, NoOne <- Nobody, pc <- watchPc

Config == INSTANCE ConfigData

\* What the theorems about the components assume of their constants.
ASSUME ComponentsAssumption ==
  /\ Prop!PropertyAssumption /\ Icd!IcdAssumption /\ Copy!StreamCopyAssumption
  /\ List!TaskListAssumption /\ Ptr!SharedPtrAssumption /\ Sem!SemaphoreAssumption /\ Single!SingleInstanceAssumption
  /\ Zip!ZipAssumption /\ Ask!PopupAssumption /\ Evas!EvasObjectAssumption
  /\ Conn!RpcConnectorAssumption /\ Watch!WatchAssumption

-----------------------------------------------------------------------------
propertyVars ==
  << readers, writer, m_value, remote, m_once, onceMutex, call, propertyQueue, log, history, sets,
     external >>
delegateVars ==
  << m_disabled, m_mutex, delegateListening, shared, listUser, ownerAlive, delegateQueue, stack,
     called, ended, calls >>
queueVars == << queuesAlive, m_buckets, m_size, buffersAllocated, buffersDeleted >>
copyVars ==
  << kind, limit, copyPc, buffer, bytesLeft, inPipe, written, inClosed, outPipe, copyReceived,
     outClosed >>
listVars ==
  << m_tasks, m_currentTask, m_steps, m_nextStep, m_abortSteps, result, aborts, undo, undone,
     switches >>
ptrVars == << ptr, ref, objectsAlive, deletions, objectsMade, ptrPc >>
semaphoreVars == << name, value, opened, semaphoreHandle, inside >>
lockVars == << m_locked, m_fdLock, descriptors, lockOwner, tries >>
zipVars == << zip, m_fileInfos, zipFile >>
testVars ==
  << options, testGroups, startTestId, collector, testPc, group, todo, collected, stats, suites,
     malformed, resultFile >>
popupVars ==
  << asks, popupListening, shows, toRender, currentPopup, canvas, checkState, created, widgetsAlive,
     held, answers, popupReceived, initialized, failed, misused, toggled >>
evasVars ==
  << evasHandle, object, evasConnections, registered, onDelete, evasAlive, sharedMade, connected >>
connectorVars ==
  << allocated, deleted, m_internalState, m_socket, watches, m_internalInterfacesSet,
     m_internalConnectionSet, rpcListening, rpcConnections, handed, eventQueue, destroyed, leaked,
     address, backlog, peer, refused >>
watchVars ==
  << m_watchersMap, m_watchersMutex, m_watchersInvoker, m_watchersInvokerCommit, m_directInvoke,
     handleSlots, handleCount, waitableHandleIndexList, watchPc, current, trackedListeners, calling,
     signaled, event, changes >>
configVars == << given, text, normalized >>

vars ==
  << component, propertyVars, delegateVars, queueVars, copyVars, listVars, ptrVars,
     semaphoreVars, lockVars, zipVars, testVars, popupVars, evasVars, connectorVars, watchVars,
     configVars >>

Is(c) == component = c

(* A component that starts in one of several states does so if it is the   *)
(* one that runs; otherwise one of them will do.                           *)
ConfigInit ==
  /\ given \in (IF Is("ConfigData") THEN Texts ELSE {<<>>})
  /\ text = given /\ normalized = FALSE

Init ==
  /\ component \in RunComponents
  /\ Prop!Init /\ Icd!Init /\ Queue!Init /\ List!Init /\ Ptr!Init /\ Sem!Init /\ Single!Init /\ Zip!Init
  /\ Tests!Init /\ Evas!Init /\ Conn!Init /\ Watch!Init
  /\ Copy!Init /\ (Is("StreamCopy") \/ (kind = "pipe" /\ limit = Nobody))
  /\ Ask!Init /\ (Is("Popup") \/ (canvas /\ checkState = "on"))
  /\ ConfigInit

NormalizeText ==
  /\ text' = Config!NormalizeString(text)
  /\ normalized' = TRUE
  /\ given' = given

(* Every component but c stays as it is. *)
Only(c) ==
  /\ Is(c) /\ UNCHANGED component
  /\ IF c = "Property" THEN TRUE ELSE UNCHANGED propertyVars
  /\ IF c = "InterContextDelegate" THEN TRUE ELSE UNCHANGED delegateVars
  /\ IF c = "BinaryQueue" THEN TRUE ELSE UNCHANGED queueVars
  /\ IF c = "StreamCopy" THEN TRUE ELSE UNCHANGED copyVars
  /\ IF c = "TaskList" THEN TRUE ELSE UNCHANGED listVars
  /\ IF c = "SharedPtr" THEN TRUE ELSE UNCHANGED ptrVars
  /\ IF c = "Semaphore" THEN TRUE ELSE UNCHANGED semaphoreVars
  /\ IF c = "SingleInstance" THEN TRUE ELSE UNCHANGED lockVars
  /\ IF c = "ZipInput" THEN TRUE ELSE UNCHANGED zipVars
  /\ IF c = "TestRunner" THEN TRUE ELSE UNCHANGED testVars
  /\ IF c = "Popup" THEN TRUE ELSE UNCHANGED popupVars
  /\ IF c = "EvasObject" THEN TRUE ELSE UNCHANGED evasVars
  /\ IF c = "RpcConnector" THEN TRUE ELSE UNCHANGED connectorVars
  /\ IF c = "WatchSupport" THEN TRUE ELSE UNCHANGED watchVars
  /\ IF c = "ConfigData" THEN TRUE ELSE UNCHANGED configVars

Next ==
  \/ Only("Property") /\ Prop!Next
  \/ Only("InterContextDelegate") /\ Icd!Next
  \/ Only("BinaryQueue") /\ Queue!Next
  \/ Only("StreamCopy") /\ Copy!Next
  \/ Only("TaskList") /\ List!Next
  \/ Only("SharedPtr") /\ Ptr!Next
  \/ Only("Semaphore") /\ Sem!Next
  \/ Only("SingleInstance") /\ Single!Next
  \/ Only("ZipInput") /\ Zip!Next
  \/ Only("TestRunner") /\ Tests!Next
  \/ Only("Popup") /\ Ask!Next
  \/ Only("EvasObject") /\ Evas!Next
  \/ Only("RpcConnector") /\ Conn!Next
  \/ Only("WatchSupport") /\ Watch!Next
  \/ Only("ConfigData") /\ NormalizeText

SafetySpec == Init /\ [][Next]_vars

-----------------------------------------------------------------------------
(* The properties are those of the components, under their names. *)

(* Listeners are told of every change in its order, and readers get the    *)
(* values that were ensured for them.                                      *)
ListenersFollow == Prop!ListenersFollow /\ Prop!ReadsAreEnsured

CachedForGood == Prop!CachedForGood

(* A delegate is called once, and not after it was disabled. *)
NotCalledAfterEnd == Icd!NotCalledAfterEnd

(* Binary queues do to their bytes what they promise. *)
ImplementsByteQueues == Queue!ImplementsByteQueues

(* and neither leak nor share a buffer, nor lose count of the bytes. *)
BuffersOwnedOnce == Queue!BuffersOwnedOnce /\ Queue!SizeIsContent

(* A copy loses, repeats and reorders nothing. *)
CopiedInOrder == Copy!CopiedInOrder

(* Abort runs the abort steps that are due; there is always a step to run. *)
AbortUndoesDone == List!StepIsThere /\ List!AbortUndoesDone

(* Shared objects are deleted when nobody holds them. *)
DeletedOnceUnheld == Ptr!DeletedOnceUnheld

(* Semaphores and the lock of the single instance let nobody in too many. *)
CountKept == Sem!CountKept

OneInstance == Single!OneInstance

(* Files of an archive that share its descriptor read their own bytes. *)
FilesReadTheirEntry == Zip!FilesReadTheirEntry

(* Tests run in order, and the results of those before a crash are there. *)
CrashLeavesResults == Tests!RunsPlanInOrder /\ Tests!CrashLeavesResults

(* Users get the answers to their own popups; widgets are deleted once. *)
AnswersAreOwn == Ask!AnswersAreOwn /\ Ask!WidgetsDeletedOnce

(* The toolkit calls no object that is gone. *)
CallbacksAreLive == Evas!CallbacksAreLive

(* Every socket has an owner and the watches of its state, and every       *)
(* connection reaches the application.                                     *)
ConnectionsAreHanded ==
  Conn!WatchesMatchState /\ Conn!OwnedOnce /\ Conn!ConnectionsAreHanded

(* select works on the handles that are watched. *)
SelectsCurrentList == Watch!SelectsCurrentList
=============================================================================
