\* Each component by itself, in the instances that MCComponents makes.
CONSTANTS
  RunComponents = {"Property", "InterContextDelegate", "BinaryQueue", "StreamCopy", "TaskList",
                   "SharedPtr", "Semaphore", "SingleInstance", "ZipInput", "TestRunner", "Popup",
                   "EvasObject", "RpcConnector", "WatchSupport", "ConfigData"}
  Nobody = Nobody
  PropertyThreads = {"a", "b", "m"}
  Callers = {"a", "b"}
  Properties = {"c", "d", "x"}
  Values = {1, 2}
  InitialValue = 1
  Storage <- PropertyStorage
  Listening <- PropertyListening
  Unset = 0
  MaxSets = 2
  MaxExternal = 1
  Owner = "o"
  Others = {"a"}
  Delegates = {"d", "e"}
  Reuse <- DelegateReuse
  MaxCalls = 2
  Queues = {"p", "q"}
  MaxBuffers = 3
  MaxAppend = 2
  ChunkSize = 2
  Capacity = 2
  MaxWritten = 3
  Tasks <- TasksAdded
  Steps <- TaskSteps
  AbortSteps <- TaskAbortSteps
  MaxSwitches = 2
  PtrThreads = {"a", "b"}
  Slots = {"p", "q"}
  MaxObjects = 2
  Processes = {"a", "b", "c"}
  MaxLockCount = 2
  Unlinks = {"b"}
  MaxOpened = 2
  Names = {"x", "y"}
  MaxTries = 4
  Entries <- ZipEntries
  ArchiveSize = 9
  ExtractBufferSize = 3
  UnzBufSize = 2
  Readers = {"a", "b"}
  GroupOrder <- TestGroups
  GroupTests <- RegisteredTests
  MaxOptions = 3
  Popups = {"p", "q", "r"}
  Asker <- PopupAsker
  PopupObjects <- ObjectsOfPopups
  MaxAsks = 1
  EvasHandles = {"g", "h"}
  EvasObjects = {"x", "y"}
  SmartEvents = {"clicked"}
  EvasEvents = {"resize"}
  MaxShared = 2
  MaxConnections = 3
  Server = "server"
  Client = "client"
  MaxSockets = 3
  MaxQueue = 2
  Backlog = 1
  MayFail = TRUE
  NumHandles = 2
  WatchListeners = {"l"}
  Modes = {"Read", "Write"}
  WatchClients = {"c"}
  Loop = "loop"
  MaxChanges = 2
  Texts <- ParserTexts
SPECIFICATION Spec
INVARIANTS
  ListenersFollow
  BuffersOwnedOnce
  CopiedInOrder
  
  DeletedOnceUnheld
  CountKept
  
  FilesReadTheirEntry
  CrashLeavesResults
  AnswersAreOwn
  
  ConnectionsAreHanded
  SelectsCurrentList
  ConfigIsNormal
PROPERTIES
  CachedForGood
  NotCalledAfterEnd
  ImplementsByteQueues
  WaitersAreServed
\* Most components end when their bounds are used up.
CHECK_DEADLOCK FALSE
