# wrt-commons in TLA+

Models, checks and proofs of the Tizen web runtime commons (`wrt-commons`): the
DPL C++ library (threads, event loops, watches, events, sockets, RPC, database
connections, popups, tests) and the data access objects of the web runtime
built on it. Paths below are relative to the repository; `core/`, `event/` and
so on stand for `src/modules/core/`, `src/modules/event/`.

## 1. The system

| Part | State it keeps | Operations | How it interacts |
|---|---|---|---|
| `DPL::Thread` (`core/src/thread.cpp`) | running and abandon flags, quit pipe, event list and its pipe, heap of timed events and its pipe | Run, Quit, destructor, PushEvent, PushTimedEvent, the loop Exec | every other part posts events to it; handlers run in it |
| `WaitableEvent`, `WaitForMultipleHandles` (`core/src/waitable_*.cpp`) | bytes in a pipe | Signal, Reset, select | wake-up of every loop; barrier of blocking emissions |
| `WaitableHandleWatchSupport` | map of descriptors to listeners, invoker and commit pipes | add and remove a watch, dispatch | base of Thread and of Main; sockets watch their descriptors with it |
| `Main` (`core/src/main.cpp`), `MainEventDispatcher` | ecore descriptor handlers, cross-thread event list and its pipe | the same operations for the main thread, on ecore | counterpart of Thread for the main loop |
| `EventSupport` (`event/include/dpl/event/event_support.h`) | listeners with their threads, calls in flight | add, remove, switch listeners; emit as Auto, Queued, Blocking or Deffered | puts calls into the queues of Threads and of the main dispatcher |
| `InterContextDelegate` | a cell with a recursive mutex per delegate; the owner's list of cells | make, call, disable, destroy the support | events of its own EventSupport |
| `Controller`, `Property`, `Model` | a value under a read-write lock, a `Once` | post to a controller; get, set | EventSupport; a DAO behind the delegates |
| Sockets (`socket/`) | state of the connection, watches | open, bind, listen, accept, connect, read, write | watches, events to their users |
| RPC (`rpc/`) | byte streams of a connection, sets of pending connections | calls over a stream, ping, client and server | sockets |
| Database (`db/`) | SQLite handle per thread, attach count, transaction depth | attach, detach, transactions, prepared commands, retries when busy | SQLite; used by the DAOs |
| ORM (`db/include/dpl/db/orm*.h`) | thread-local queries | insert, update, delete, select, join; ScopedTransaction | SQL connection |
| DAOs (`widget_dao/`, `auto_save_dao/`) | rows of the tables of widgets, plugins, features, properties, settings, saved forms | register and unregister a widget, plugins, features, properties; about eighty getters | database, under transactions |
| Binary queue, streams, pipes (`core/`) | buckets of bytes with their deleters | append, consume, move, copy; Copy between streams | sockets, RPC, zip |
| Task lists, `SharedPtr`, `Semaphore`, `SingleInstance`, mutexes (`core/`) | position and direction of a list of steps; counters; names and locks of the kernel | step, abort; attach, detach; lock, unlock | used everywhere |
| Zip input (`core/src/zip_input.cpp`) | one mapping of an archive with an offset per open file | open, read in any thread | minizip |
| Popup (`popup/`) | queue of popups, the one shown, its widgets and their callbacks | show, answer | main loop, toolkit and user threads |
| Test framework (`test/`) | chosen tests, results, what the collectors have written | options, run, report | console and files |
| DBus (`dbus/`) | registered objects, proxies | register, call, dispatch | GDBus |
| Utilities, localization, log, encryption | little or none | pure functions and wrappers | DAOs and installers |

### What is hard in it

* Every loop sleeps in `select` or in ecore on pipes. Lists and pipes are
  changed under locks that are released before the sleep, so a wake-up or a due
  time can be lost; a byte too many or too few makes `Reset` throw or the loop
  spin.
* A pipe holds 65536 bytes, and `Signal` blocks when it is full, under the
  mutex its reader needs.
* Quit, the end of the thread and its detaching race.
* Listeners come and go while they are being called, in their own thread and
  from others; an index list outlives the list it indexes.
* An emission reaches listeners in several threads in four modes; calls in
  flight outlive listeners, switches to other threads, and the object.
* A delegate is disabled while its method runs, while its events wait in a
  queue, or by its own method.
* A stream cuts packets anywhere, takes part of what it is given, and ends or
  fails between any two bytes.
* Transactions nest through functions that open their own, end in destructors
  while exceptions fly, and share a file with other connections that SQLite
  refuses and the code retries. Queries are thread-local and keep the state a
  failure left them in.
* Processes die inside semaphores, with the instance lock, in the middle of a
  registration and in the middle of a test.
* The toolkit deletes widgets whose handles and callbacks live on.

## 2. The modules

| Module | Models | Reads like |
|---|---|---|
| `EventQueue` | what a Thread promises: one FIFO queue, served while the loop runs; timers join it when due, earliest first | abstract specification |
| `Thread` | `core/src/thread.cpp` | one action per critical section or handler |
| `WatchSupport` | `core/src/waitable_handle_watch_support.cpp` and the handle list of Exec | one action per index of the batch, per listener, per change of a watch |
| `EventSupport` | `event/include/dpl/event/event_support.h`, `generic_event_call.h` | a stack of frames per thread, because handlers call the object again |
| `PostedEvents` | what MainEventDispatcher promises: a queue per sender, timers, no delivery after its end | abstract specification |
| `MainLoop` | `event/src/main_event_dispatcher.cpp`, `core/src/main.cpp` on ecore | one action per callback of ecore, per lock and per change of a watch |
| `InterContextDelegate` | `event/include/dpl/event/inter_context_delegate.h` | a stack of frames per thread |
| `Property` | `event/include/dpl/event/property.h`, `model.h`, `model_bind_to_dao.h`, with `Once` and `ReadWriteMutex` | one action per lock, read delegate and emission |
| `RpcStream` | `rpc/src/generic_rpc_connection.cpp` on `socket/src/waitable_input_output_execution_context_support.cpp` | two ends and the kernel between them |
| `RpcConnector` | `socket/include/dpl/socket/generic_socket.h`, `rpc/include/dpl/rpc/generic_socket_rpc_server.h`, `generic_socket_rpc_client.h` | one action per call and per event of a socket |
| `Database` | `ThreadDatabaseSupport`, `SqlConnection`, `ScopedTransaction` and the life of queries | one action per call of the support, per answer of SQLite, and per scope opened, committed or left |
| `Orm` | the tables of `wrt_db` and the queries over them | relational operators on a record of tables |
| `ConfigData` | `widget_register_info.h`, `config_parser_data.*` | types, orders, normalisation of texts |
| `PluginDao`, `WidgetDao`, `WidgetRegistration`, `GlobalDao` | `widget_dao/dao/*.cpp`, `auto_save_dao/dao/*.cpp` | an operation that writes is the sequence of its statements, one that reads an operator |
| `WidgetRegistry` | what an installer relies on: whole registrations | abstract specification |
| `WrtDatabase` | the DAOs in operation, statement by statement | composes the six before it |
| `ByteQueues`, `BinaryQueue` | sequences of bytes; `core/src/binary_queue.cpp` | abstract specification and its buckets |
| `StreamCopy`, `TaskList`, `SharedPtr`, `Semaphore`, `SingleInstance`, `ZipInput` | the files of `core/` of those names (`copy.cpp` for the first) | one action per operation or atomic step |
| `Popup`, `EvasObject` | `popup/src/popup_*.cpp`; `popup/src/evas_object.cpp` with its header | main loop, users and person; handles, objects and connections |
| `Lists` | what is kept of a list, and lists joined: `Kept` and `Joined`, as recursive functions, for `MainLoop`, `Popup` and `TaskList` | operators |
| `TestRunner` | `test/src/test_runner.cpp`, `test_results_collector.cpp` | options, groups, tests, collectors |
| `MCThread`, `MCEventSupport`, `MCMainLoop`, `MCRpcStream`, `MCWrtDatabase`, `MCComponents` | instances for TLC | values for constants |
| `Components` | the fifteen components that stand by themselves, side by side | one behaviour is one component |
| `*_proofs` (eight modules) | theorems for TLAPS | see section 4 |

How they compose: `Thread` includes its WaitableEvents and its part of the
watches; `EventSupport` takes the queues of threads as sequences, which
`ImplementsQueue` of `Thread` and `ImplementsPostedEvents` of `MainLoop`
justify; `InterContextDelegate`, `Property` and `Popup` take an EventSupport as
the queue it puts into; `RpcStream` begins where `RpcConnector` ends, with an
established connection; `StreamCopy`, `RpcStream` and the pipes take a
BinaryQueue as a sequence of bytes, which `ImplementsByteQueues` justifies;
`WrtDatabase` runs the programs of the DAO modules over `Orm` with the
transaction depth of `Database`.

### Thread

A step is what runs between two points where another thread can matter: taking
a mutex, a write into a pipe that may be full, the return of select. `m_*`
variables carry the names of the members. `pc` says where each thread is:
`push` and `pushtimed` are inside PushEvent or PushTimedEvent, the mutex held
and the byte still to be written; `join` and `djoin` are in pthread_join, from
Quit or from the destructor. The variables `stolenEvents`, `currentTime`,
`quit` and `waitableHandleIndexList` are the locals of ProcessEvents,
ProcessTimedEvents and Exec. The heap of timed events is the due time of each
event; its front is any event with the least one (`FrontOfHeap` is
`operator<`). A handler posts a fixed sequence, `Posts[e]`, to its own thread.
`promised` is the only ghost: what was queued when the quit message was sent.

Quirks of the code the model keeps: the quit pipe is never read, so it makes a
second run end at once; the batch goes on after the quit index; timed events
are looked at only at a timeout or when another one is posted; ~Thread purges
`m_eventList` and not `m_timedEventVector`; a second pthread_join of one thread
is undefined, and waits for ever here, which `QuitReturns` excepts.

### WatchSupport

`m_watchersMap` maps a descriptor to its listeners in order. `handleSlots` is
the storage of `handleList` from index 4 on and `handleCount` its size: an
index of the batch that lies behind a list that was filled again reads what
the vector's storage still holds. `LoopChange` is a change made in a handler or
listener of the loop, `ClientChange` one made by another thread, which signals
the invoker and waits for the commit with the mutex held; the loop needs that
mutex to commit, so in the model, as in the code, such a thread and the loop
never continue. `ReadyIsServed` (in `WaitersAreServed`) excepts exactly that.

### EventSupport

`stack[t]` is what thread t is doing inside the object, the innermost frame
first: `lock`, `post` and `barrier` are places of EmitEvent; `direct` a handler
called by it; `check`, `ready`, `handler`, `resent`, `called` and `remove`
places of CallAndDestroy, ReceiveAbstractEventCall and ~EventSupportData;
`destroy` of ~EventSupport. In `direct` and `handler` application code runs and
may call the object again. The queues are sequences. Delegates take the same
path as listeners.

A caller may not remove or switch the listener of another thread unless
`Foreign` is TRUE: the code does not forbid it, but
ReceiveAbstractEventCall looks the listener up under a mutex that it leaves
before the call, so `CalledWhileRegistered` holds only for changes made by the
listener's own thread. After a switch, a call found in the wrong thread is
emitted again to all listeners (`EmitEvent(event, EmitMode::Queued)`), so the
others receive it twice: `HandledOnce` and `SameOrder` speak of histories
without a switch. A handler called directly runs under the non-recursive
`m_listenerDelegateMutex`; emitting in it waits for itself, the exception that
`EmissionsEnd` names.

### MainLoop and PostedEvents

Ecore is external: it calls one callback after the other, for a ready
descriptor, a timer that is due or the oldest event of its queue, in no fixed
order between these kinds. `pc[Main]` is the place inside a callback: `swap` is
DispatchCrossInvoker between `Reset` of the pipe and the mutex, `repush` its
loop over `stolenCrossEvents`, `handler` and `listener` application code.
`pc[t]` of another thread is `signal` (the list changed, the byte still to be
written, the mutex held) or `commit` (waiting in
`CommitInvoker` of a change of the watches). ecore_event_add and
ecore_timer_add may fail; the exception then leaves a callback of ecore, which
ends the behaviour (`crashed`). `lateDispatcher` is the NULL of
`g_lateMainEventDispatcher` after the destruction.

`m_watchersLists` are Main's ecore handlers, reloaded from `m_watchersMap`
after each change. What another thread changes it announces through the invoker
and waits for with the mutex that the main thread needs to reload: as in
`WatchSupport`, both stop, and `ChangeNeverReturns` is a theorem.

`PostedEvents` differs from `EventQueue`: there is an order for each sender
only, because an event that the main thread posts overtakes those in the cross
list.

### RpcStream

Two connections with the kernel between them, a bounded buffer of bytes each
way. A byte is a packet and a position in it, a packet the header with its size
and the serialized call. `m_outputStream` and `m_inputStream` are the binary
queues of the execution context support. `ReadBytes`, `ReadEnd` and `ReadFails`
are ReadInput with its outcomes, `WriteReady` is the write watch; `AsyncCall`
feeds the socket at once what it takes and begins the write watch for the rest
(`Fed`). `parsing` is the loop of OnInputStreamRead, one action per packet: a
packet is taken when header and call are complete; a ping is
answered by another. Either end may close at any time, with bytes
unread (`reset`), and send or recv may fail; an exception that leaves a watch
listener ends that end (`escaped`). `Size[c] < SizeLimit` is an assumption about
the callers: the header holds an unsigned short, and the cast of a longer call
loses the rest.

### RpcConnector

`m_internalState` is the state of each GenericSocket, which decides what it
watches. `ConnectReady` and `AcceptReady` are the watch callbacks, which post
the events that `HandleConnected` and `HandleAccept` handle in the user's
thread; both give the application an RPC connection in an `Established` event
(`handed`). The kernel is external: an address, a backlog, the outcome of a
connect in progress (`FinishConnect`). Open may fail after the socket was made,
which then belongs to nobody (`leaked`). Either connector may be closed for one
socket or destroyed at any time. AF_UNIX connects at once or fails; the state
Connecting is for the other socket types of the template.

### Property and InterContextDelegate

A property of a model is Cached, Dynamic or DynamicCached. `call[t]` is a Get or
Set of thread t with its place between the read-write mutex of the model
(`readers`, `writer`), the `Once` of the property (`m_once`, `onceMutex`) and
the emission, which happens under the lock. `remote` is what the delegates of a
DAO read and write and may change by itself. `history` and `log` are ghosts: the
changes that were made, numbered by their place, and what each listener has
heard, with these numbers, by which `ListenersFollow` relates the two. Listeners do not change
properties of their model: one that runs directly would wait for its own lock.

`InterContextDelegate` has per delegate the recursive mutex of its
ICDSharedData and per thread a stack: `make`, `call`, `disable`, `forward` (the
event handler in the owner's loop, `method` while the user's method runs) and
`destroy` (~ICDelegateSupport, perhaps inside a method). `rest` is the copy of
the list that the destructor disables one by one. `listUser` shows that
`m_ICDSharedDatas` is used by two threads without a mutex; the model takes each
use as one step.

### Database

Each thread has the thread-local values of `ThreadDatabaseSupport` (`tls`, with
the members' names), a stack of the `ScopedTransaction` objects that live
(`scopes`, each its `m_commited`), the command of each query (`command`) and
what it is doing (`call`). Functions of the DAOs are not modelled one by one
here: a thread opens scopes, executes queries, commits and leaves scopes in any
order that C++ scoping allows, and exceptions unwind them. The queries are
thread-local statics (`WRT_DB_INTERNAL`), so a command is prepared once, lives
until its thread exits, and a connection that is detached lingers for it. A
query whose step has thrown is never reset: binding to it throws for the rest
of the thread's life.

SQLite is external and modelled by its locking: SHARED for a transaction that
has read, RESERVED once it has written, PENDING for a COMMIT that waits for
readers; BEGIN is deferred. A call answered SQLITE_BUSY is retried without
end, so it is an action that is enabled when SQLite would answer otherwise. A
write outside a transaction that is refused keeps no lock. What may fail is a
constant: a preparation, a statement, a statement so badly that SQLite rolls
the transaction back itself ("abort"), a COMMIT. After an "abort", a failed COMMIT
or a scope committed twice (the loop of `registerPluginLibrariesDependencies`)
`m_transactionDepth` no longer tells what SQLite does: the destructor of the
scope counts down again, the `size_t` wraps (hence arithmetic modulo `SizeT`),
and transactions of that thread are not begun or not ended. The properties
name this as `Astray`; they are promises about the other threads.

`ghost` records for each thread what its outermost scope wrote, how much of it
is durable, what became of it, and whether what it has read is still true.
`durable` is the state after a crash at that moment, so `AllOrNothing` covers
crashes without an action for them.

### The DAOs: Orm, ConfigData, PluginDao, WidgetDao, WidgetRegistration, GlobalDao, WrtDatabase

A database is a record of tables, a table the sequence of its rows in the order
of their row ids; keys, foreign keys with their cascades and autoincrement
counters are those of `widget_dao/orm/wrt_db`. A call that writes is a program, the
sequence of its statements with "commit" and "throw" where the code has them;
`WrtDatabase` runs it one statement per step inside its ScopedTransaction. The
next statement may be refused by a key, fail with the disk, or meet a query
that an earlier failure left unreset (`stale`); the process may end between any
two steps, which leaves `disk`. The getters are operators on the database; what
they hand out is compared with each other (`DatabaseInOrder`) and with
`WidgetRegistry`, whose steps are whole registrations (`ImplementsRegistry`).

A column that is only stored and read back is left out where another is treated
the same. Strings are model values; where their order, case or spaces decide
(`ConfigData`), they are numbers or sequences of bytes. `NormalizeString` is
checked over every text of up to four characters of one, two and three bytes.

### The components of Components

* `BinaryQueue`: buckets with buffers, their deleters and what is left of them;
  AppendUnmanaged, AppendCopyFrom, AppendMoveFrom, Consume, Flatten and
  destruction, refining `ByteQueues`.
* `StreamCopy`: Copy between two pipes or two adapters, until the end or for a
  number of bytes, with a writer that ends and a reader that may close. `kind`
  keeps the difference between what AbstractInput promises for "nothing there"
  and what the pipes of this library do, which throw.
* `TaskList`: the position in the list and in the steps of a task; steps jump
  inside their task or to a later task; Abort reverses the list.
* `SharedPtr`: the two halves of an assignment, with the atomic decrement
  between them, in threads that copy each other's pointers.
* `Semaphore`: named semaphores by identity, so that one whose name was removed
  and made again is another; processes die inside.
* `SingleInstance`: fcntl locks, which the kernel drops with any descriptor of
  the file.
* `ZipInput`: files of one archive open in several threads, each refilling
  minizip's buffer through the shared device at an offset of its own. An entry has
  its start and its size, which may leave gaps but lie within the archive.
* `TestRunner`: the options, the order of groups and tests, and the buffers and
  files of the xml, tap and streaming collectors when a test takes the process
  down.
* `Popup`: users, controller, renderer and person; `created`, `alive` and `held`
  are the widgets by index, whose deletion takes others with it.
* `EvasObject`: handles, shared objects, connections, and the callbacks the
  toolkit has.
* `RpcConnector`, `Property`, `InterContextDelegate`, `WatchSupport`,
  `ConfigData`: above.

`Components` declares the constants and variables of all of them, each component
with its own; a behaviour is one of a single component, chosen by `component`,
while the others stay where they start. The properties have the names of the
components' own. `MCComponents` adds the values, the fairness and what must come
in the end.

## 3. The runs

| Run | Asks | Bounds and why they are enough |
|---|---|---|
| `Thread` | `SignalsKept` (wake-ups, due times, Reset), `QuitIsClean` (flush on quit, join or detach), `ImplementsQueue`; `QuitReturns`, `EventsDelivered` | two callers that both quit, an event whose handler arms a timer and posts itself for ever, two timed events, two runs, pipes of two bytes (so they fill), clock to 2: each pair of concurrent operations meets, and t1 and t2 can be posted in both orders of due time |
| `ThreadRerun` | expected violation of `EndsOnlyByQuit`: Run, Quit, Run | the smallest instance |
| `WatchRemoved` | expected violation of `OnlyRegisteredCalled` | one descriptor, two listeners |
| `EventSafety` | `HandledOnce`, `SameOrder`, `CalledWhileRegistered`, `DestroyedIsUnused` | two threads with a listener each, two emissions in three modes, one switch, emissions nested once, a destructor |
| `EventLive` | `EmissionsEnd`: blocking emissions return, emitters get the mutex | one listener that either thread registers, removes and switches twice |
| `EventDestroyRace` | expected violation of `CallIsDestroyed` | the smallest instance |
| `MainLoop` | `WakesAreKept`, `ImplementsPostedEvents`, `PostedIsDelivered` | two threads and the main one post four events, one of them timed, through a pipe of one byte, which both fills and drains; one thread watches, two changes; ecore may fail |
| `RpcStream` | `EndsAgree` (calls whole, in order, and what the two ends know of each other), `CallsArrive` | two calls one way, one back and two pings; packets of 2 to 4 bytes, with a header of 2, against a buffer and a read of 4, so that a header or a call is cut when others are before it |
| `Database` | `AllOrNothing`, `DepthCountsScopes`, `ReadsStayValid`, `ResourcesReleased`, `CallReturns` | two threads, a query that reads and one that writes, scopes nested once, attached twice, five calls and failures altogether: enough for two transactions that read and write, or for one with an inner scope that fails and a successor; `SizeT` 8 stands for 2^64, larger than any depth reached |
| `WrtDatabase` | `DatabaseInOrder`, `ImplementsRegistry` | three kinds of registrations (one with something in every table, a factory one that asks for a feature twice, one that breaks a key), two handles, two libraries; five roles of calls, each a process of its own, so that the calls that touch the same tables meet; one failure of the disk |
| `PluginDependencies` | expected violation of `WidgetsAreWhole` | the same with two dependencies and one kind of registration |
| `Components` | eighteen properties, one or two of each component | per component in its instance: two or three threads, processes, objects or steps; the comments in `MCComponents` say what each instance has to contain |

CHECK_DEADLOCK is off where the system really stops: when every event of the
bound is posted and handled, or where a full pipe or a mutex cycle blocks
threads for ever (which the liveness properties then except by name).

Fairness, which in all modules is the operating system running what can run:

* `Thread`: the loop thread, time, and a call once begun (the end of
  PushEvent, pthread_join, the purge); nothing obliges a client to begin a call.
* `WatchSupport`: the loop, and the wait of a client. `EventSupport`: each
  thread goes on with what it has begun and serves its queue; handlers return.
* `MainLoop`: callbacks return, calls once begun go on, time passes; ecore comes
  to every kind of work again and again (strong fairness of the pipe's handler,
  of its event queue and of each timer, since one kind interrupts the other).
* `RpcStream`: parsing goes on and a writable socket is reported (weak); a
  readable socket and a posted event are come to in the end (strong, because
  other callbacks come between).
* `RpcConnector`: an event in the queue is handled (strong), readiness is
  reported and a connect in progress ends (weak).
* `Database`: SQLite answers when it can, and a function leaves the scope it has
  opened; nothing has to fail, and nobody has to begin a call.
* `InterContextDelegate`: each thread goes on with a call once begun, the
  owner's loop serves its queue and methods return. `StreamCopy`: the copying
  thread runs, the writer ends, the reader reads. `Popup`: the main loop and the
  users handle their events, and the person answers.
* `WrtDatabase`, `Property`, `BinaryQueue`, `TaskList`, `SharedPtr`,
  `Semaphore`, `SingleInstance`, `ZipInput`, `TestRunner`, `EvasObject`: none.

## 4. The proofs

Eight modules of theorems for TLAPS, for every value of the constants: any
number of threads, listeners, sockets, queries, processes or delegates, any size
of a call, a packet or a buffer, and any bound. What each rests on is the
assumption of its component, in the last column. The components of `Components`
state theirs as definitions (`PropertyAssumption`, `IcdAssumption` and so on), and
`ComponentsAssumption`, which is their conjunction, is an ASSUME that TLC evaluates
in the run `Components`, as it evaluates the others in the runs of their
modules.

| Theorem | States | Assuming |
|---|---|---|
| `Thread_proofs`: `ThreadTypes`, `ThreadInvariant` | types; the inductive invariant | `ThreadAssumption` |
| `SignalsAreKept` | `SignalsKept`: no lost wake-up or due time, Reset finds its byte | |
| `QuittingIsClean` | `QuitIsClean`: join or detach and never both, what was queued before Quit is handled | |
| `ThreadImplementsQueue` | `Spec => ImplementsQueue` | |
| `EventSupport_proofs`: `TypesAreKept` | types | `EventSupportAssumption` |
| `DestroyedStaysUnused` | `DestroyedIsUnused` | |
| `AnswerIsNotStale` | `CalledWhileRegistered` | and `~Foreign` |
| `EventsAreHandledOnce` | `HandledOnce`: a listener that stays in its thread receives an emission at most once | |
| `QueuedEventsKeepOrder` | `SameOrder`: no two listeners receive two queued events in opposite orders | |
| `MainLoop_proofs`: `MainThreadIsWoken` | `WakesAreKept` | `MainLoopAssumption` |
| `ChangeNeverReturns` | a thread that waits for the main one to commit a watch waits for ever | |
| `PostedAreDelivered` | `Spec => ImplementsPostedEvents`: each sender's events in their order, no event after the end of the dispatcher | |
| `Database_proofs`: `TransactionsAreAtomic` | `AllOrNothing` | `DatabaseAssumption` |
| `DepthIsRight` | `DepthCountsScopes` | |
| `ReadsAreStable` | `ReadsStayValid` | |
| `LocksAreReleased`, `ResourcesAreReleased` | `NoLockKept`; `ResourcesReleased`: no lock, transaction, reference or unreset statement is kept outside scopes and calls | |
| `RpcStream_proofs`: `TypesHold` | types | `RpcStreamAssumption` |
| `EndsUnderstandEachOther` | `EndsAgree`: calls whole, once and in order, however the bytes are cut | |
| `CoreComponents_proofs`: `SharedObjectsAreDeletedOnce` | `DeletedOnceUnheld` | `ComponentsAssumption` |
| `CountIsKept` | `CountKept`: those inside and the value of a semaphore never exceed its count | |
| `OneInstanceRuns` | `OneInstance` | |
| `CurrentListIsSelected` | `SelectsCurrentList`: select never sleeps on an outdated list without a byte in the invoker | |
| `BytesAreCopied` | `CopiedInOrder` | |
| `FilesAreReadApart` | `FilesReadTheirEntry` | |
| `EveryConnectionIsHanded` | `ConnectionsAreHanded` | |
| `NoDeadCallback` | `CallbacksAreLive` | |
| `ListComponents_proofs`: `UsersGetTheirAnswers` | `AnswersAreOwn` | `ComponentsAssumption` |
| `AbortedJobsAreUndone` | `AbortUndoesDone`: an abort takes back, last first, exactly what was done | |
| `EventComponents_proofs`: `DelegatesEnd` | `NotCalledAfterEnd`, a property of steps | `ComponentsAssumption` |
| `CachedStays` | `CachedForGood`, a property of steps | |
| `EveryListenerFollows` | `ListenersFollow`: each change once and in order, the last one at most outstanding | |

Each follows the same course: an inductive invariant that strengthens the
property, one lemma per action that says what the action preserves, and a last
step in temporal logic. The theorems about a component of `Components` start
from a lemma that a step of the whole is a step of the component or leaves its
variables alone (`PtrMoves`, `WatchMoves`, `PropMoves`, ...).

* `Thread`. `IInv` adds to the properties `BatchInv` (an index that waits in the
  batch still has its byte, because only the case of that index reads it),
  `LifeInv` (only the last pthread can be running, somebody joins the current
  run unless `m_abandon`), `DestroyInv` (who is in the destructor, and that
  nobody uses the object meanwhile), `LocalsInv` (stolen events, the timed
  event that is being moved), `PushInv` (who holds `m_eventMutex` is between the
  list and the pipe) and `FlushInv` (once select has returned the quit index,
  what was queued is stolen, or its index is still in the batch). The refinement
  maps the queue to `stolenEvents \o m_eventList` and a timer to idle as soon as
  its event is in the list; the lemmas about `\o`, Append and Tail it needs are
  stated first.
* `EventSupport`. `SupportInv` says which frames may lie on which
  (`StackShape`), that from the beginning of the destructor nobody is registered and a thread at
  most ends one call (`Retiring`), that there is one destructor (`OneDestructor`),
  that after it no call is left (`Retired`), and that a call that has found its
  listener registered still finds it (`Here`, the only part that needs
  `~Foreign`). `HandledOnce` and `SameOrder` rest on `LinesInv` besides. What a
  listener has received, the call it is in and the calls in its thread's queue
  make one line for each listener (`InLine`, `Before`). An event joins it at the end
  when it is queued, and before the queued ones when it is handled at once, and the
  order of those in the line never changes. No event is in it twice (`Once`),
  one gets into it only when its emission passes the listener (`Posted`), and an emission posts under the mutex,
  behind everything emitted earlier (`Ordered`). All of it is said of histories in which
  each listener stays in its thread (`Settled`): otherwise the code emits again
  what it finds in the wrong thread, and both properties fail.
* `MainLoop`. `WakesInv` needs more than its property only about the watches:
  between the signal of a change and its callback the handlers may be behind,
  with no byte in the invoker they are not (`HandlersFollow`).
  `ChangeNeverReturns` rests on `NoCommit`: no byte ever comes into the commit
  pipe, because a thread that waits for one owns `m_watchersMutex`.
  The refinement needs `PostedInv` besides: who may have events in the list of ecore
  and who in the lists of the cross invoker (`LinePlaces`), where the main thread
  is when a handler runs, when lists are stolen and after the end
  (`MainPlace`), and that a timed event is in one place (`InOnePlace`: not posted,
  once in the lists of the cross invoker, a running timer, over). The queue of a sender
  is what is `Kept` of the lines for it.
* `Database`. `DatabaseInv` has for each thread what the support knows
  (`Connected`), what SQLite holds for it (`LockedRight`) and that only
  its innermost scope can be committed already (`MarkedLast`); and, unless the thread is `Astray`, that
  the depth is the number of open scopes (`Counted`), that the ghost agrees with
  both (`Recorded`), and that a lock protects what it has read (`Protected`, which
  relates it to the other threads' locks). For `ResourcesReleased`, `HoldingsInv`
  counts: the references on the connection are the queries that are prepared and
  the one under preparation (`Referenced`), more only after a preparation that threw.
* `RpcStream`. The bytes from one end to the other, wherever they are (the output
  stream, the kernel, the input stream), are one line, which send and recv only
  move along. It is cut into whole packets (`Framed`), and the calls handled, those in the
  event queue and those on the line are the calls made, in their order
  (`Delivered`). So the actions are of a few kinds only: the line stays, a
  packet is put at its end or taken from its front. The pings on both lines are as many as
  were started, as long as nobody has closed (`PingsGoRound`), and a write watch
  is there for what is left to send.
* `SharedPtr`. The count of an object is the number of pointers that hold it
  (`Counted`); an object lives while it is held or somebody is deleting it
  (`Living`); in the middle of an assignment the source still holds the object
  (`Assigning`), which is why the count cannot reach zero there.
* `Semaphore` and `SingleInstance`. The invariant is the property with its types and
  bounds.
* `WatchSupport`. The list is current unless a change is announced by a byte in the invoker
  (`InvokerSeen`) or by `m_directInvoke`, which the loop looks at before it selects
  again (`DirectIsDue`). That the list has each watched handle once, in order, is an
  induction over the handles; the prover has none that takes an operator, so it goes
  by the least handle for which the claim fails (`LeastNumber`).
* `StreamCopy` and `ZipInput`. Bytes are numbered, and each place a byte can be in
  (the reader's end, the pipes, the buffer) holds the stretch of numbers that follows the
  one before (`InPlaces`, `OwnBytes`).
* `InterContextDelegate`. The count of a mutex is the number of frames that hold
  it (`MutexInv`), a forwarder is the outermost frame of its thread (`Well`), what is
  past the lock in a disabling has its delegate disabled (`DisabledInv`), and a
  delegate made for one call that was called is disabled or still in that call
  (`Returned`, `CalledInv`).
* `Property`. Readers and the writer are those whose calls are at the places
  between locking and unlocking (`LockedInv`), and who reads the storage for the first time
  has the mutex of the `Once` (`OnceInv`). Changes are numbered; in what
  a listener has received and in its queue the numbers rise (`ListsInv`), and
  every change but the last one was told or is queued (`ToldInv`,
  `EmittingInv`).
* `RpcConnector`. The allocated sockets are divided among those that own them
  (`Divided`); the sets, descriptors, states and watches say the same of each
  (`Listened`, `Opened`, `Watched`).
* `EvasObject`. The callbacks that the toolkit has are the image of the connections,
  and those for deletions of the shared objects; no two shared objects wrap
  one object and no two connections have one identity (`WrappedInv`), so that
  taking one away takes its callback and no other.
* `Popup`. The popup of a user is under way in one place, the event that shows it,
  the list of the renderer, the screen or an answer in the queue, as long as its
  user listens (`InOnePlace`); who listens has one answer less than it has asked for
  (`Counted`); the widgets are those of the popup on the screen, each held once
  (`Rendered`); and the check box has the state of its last change (`Ticked`). So
  the answer of a button is one its user can have given (`Owned`). That a popup leaves
  no widget behind is an argument over the creation order of the widgets (`AllDeleted`).
* `TaskList`. What an aborted job has to do is the joined list of what its tasks have
  to do, and once it runs again, what is undone is what the tasks before the current
  one had to do and a beginning of the current one's (`Undoing`). A task that
  has not begun is at its first step, and each has one (`Begun`). The code leaves out
  tasks that have nothing to undo, which does not change what is joined
  (`JoinedOfKept`).
* Lists. `Kept` and `Joined` are recursive functions of how much of the list is
  read. That such a function exists and unfolds is proved once (`Recursion`), from
  the well-founded order of the numbers. What it yields is then shown by the
  least length for which a claim fails (`UpTo`), because the induction theorems
  of the library take an operator. With that come `Kept` of a list put together
  (`KeptOfConcat`) and of a tail, and the same of `Joined`.

Only model-checked:

* liveness (`QuitReturns`, `EventsDelivered`, `EmissionsEnd`, `PostedIsDelivered`,
  `CallsArrive`, `CallReturns`, `WaitersAreServed`), because fairness and ENABLED
  are out of the prover's reach;
* `BuffersOwnedOnce` and `ImplementsByteQueues` of `BinaryQueue` and
  `CrashLeavesResults` of `TestRunner`, whose buckets and reports are flattened and
  folded by the community modules (`FlattenSeq`, `FoldLeft`), which have no theorems:
  they would first have to be written in the form of `Lists`;
* `ConfigIsNormal`, which is about a recursive normalisation of texts;
* the DAOs (`DatabaseInOrder`, `ImplementsRegistry`), whose statements are
  operators on sequences of rows.

## 5. Disagreements of code and comments

Four runs show one each, with the lines in PROJECT.json:

* `ThreadRerun`: a thread cannot be run again after Quit, because the quit pipe
  is never read (`core/src/thread.cpp:310`).
* `WatchRemoved`: a listener that was removed is still called, because the test
  for it looks at the copy (`core/src/waitable_handle_watch_support.cpp:166`).
* `EventDestroyRace`: the destruction of an EventSupport and the end of a call
  take the same two mutexes in opposite orders
  (`event/include/dpl/event/event_support.h:653`).
* `PluginDependencies`: a plugin with two dependencies commits its scope twice,
  and the next transactions are none (`widget_dao/dao/plugin_dao.cpp:171`).

Met while modelling. The models contain the first group, as a named exception
of a property or as behaviour no property excludes:

* Watches changed by another thread are never committed, in Thread and in Main
  (`ChangeNeverReturns`).
* Two transactions that read and then write refuse each other for ever
  (`db/src/sql_connection.cpp:354`; `CallReturns` excepts them).
* A query whose step has thrown is not reset, so binding to it throws from then
  on (`db/include/dpl/db/orm.h:745`).
* A COMMIT that throws has already counted the depth down, and the destructor
  counts again (`db/include/dpl/db/thread_database_support.h:127`); when SQLite
  has rolled back by itself, the ROLLBACK of the destructor throws and ends the
  process (line 132). `Astray` names these threads.
* Two concurrent Quits join one thread; timed events left at the destruction of
  a Thread are lost; indices of a batch go astray when the handle list changes;
  a listener removed by another thread between look-up and call is called; a
  switch makes duplicates; an emission in a directly called handler waits for
  itself.
* `GenericSocket` keeps its read watch after the end of the stream (`socket/include/dpl/socket/generic_socket.h:147`).
* EAGAIN is thrown as ReadFailed by the pipes
  (`core/src/named_input_pipe.cpp:113`), where `abstract_input.h:44` promises an
  empty pointer: the two values of `kind` in `StreamCopy`.
* The destruction of one user's semaphore may remove the name while others are
  inside (`core/src/semaphore.cpp:177`); who opens the name then makes another, so
  `maxLockCount` (`core/include/dpl/semaphore.h`) bounds each of the two alone.
* The list of an `ICDelegateSupport` is used by two threads without a mutex
  (`event/include/dpl/event/inter_context_delegate.h:377`).
* The xml collector puts the results of later groups into the first suite, and
  keeps "segmentation fault" cases; a test with an INTERNAL result at the end
  leaves malformed XML; the tap collector calls such a test "ok"
  (`test/src/test_results_collector.cpp`).
* A popup without a button blocks the queue; a popup shown after Deinitialize
  asserts; smart callbacks are removed by name and function, not by connection.
* U+00E0 (c3 a0) counts as a space where a text is normalised, and so does e2 80 9f.
* A feature DAO made from an unknown name has the handle 0.

These are outside the models:

* The message "Cannot find plugin. Handle: " adds the handle to a pointer
  (`widget_dao/dao/plugin_dao_read_only.cpp`); install times are BIGINT in the
  table and int in the code.
* `Param::operator<=` and `>=` and `ServiceInfo::operator!=` are not the
  complements of the other operators; settings are ordered by name and compared
  by name and value.
* The helper that binds several arguments counts one too many; `GetCurrentStep` of
  a TaskDecl dangles after Abort; `BinaryQueue::Write` appends all it is given but
  returns the size it was asked for; `NamedInputPipe::Open` leaks the descriptor
  of a fifo that is open; an empty archive cannot be opened; the option
  `--regexp='x'` erases its text and throws (`test/src/test_runner.cpp:381`).
* In DBus, registering an object twice keeps the first entry, the dispatcher of an
  object is not initialised, calls nobody dispatches are not answered, and the
  "closed" signal stays connected.

## 6. Plan

Done, in this order: threads, watches and events; the main loop, with its own
abstract specification; database connections, their proofs; the delegates and
properties; sockets and RPC; the DAOs with failures between statements;
the binary queue, task lists and the rest of `core` that keeps state; popups;
the test runner.

Left, most useful first:

1. Proofs of what section 4 lists as only model-checked and the prover can reach,
   with lists in the form of `Lists`: `BuffersOwnedOnce`, `ImplementsByteQueues`
   and `CrashLeavesResults`.
2. `EcoreSelectInterceptor`, to show that a foreign loop under the main one
   wakes for the watches of both.
3. A composition of `EventSupport` with the queues of `Thread` and `MainLoop`
   in place of plain sequences, for one listener in each.
4. Versions of widgets, IRIs and the look-up of localized files against reference
   definitions.
5. DBus: proxies that outlive their connection.

## 7. Not modelled

* DBus: GDBus keeps the state; the classes add names and XML.
* Utilities, localization and the helpers of `core`: pure functions and reads of
  the file system. Log and encryption: output and library calls. The plugin
  interface: declarations. Vendored code (minizip, fastdelegate), build files,
  examples and documents.
* `EcoreSelectInterceptor`, and `Application`, which starts and stops the main
  loop.
* `RPCFunction`, which serialises typed arguments: a call is a size.
* The text of SQL, the conversion of columns, the options of opening a
  connection.
* `BinaryQueue::Write`; opening and closing of pipes and files; singletons.
* Controllers (an EventSupport with typed handlers) and `SetWithoutLock`, which
  is for models that are not shared yet.

EINTR is retried everywhere in the code and is invisible. An exception that
leaves an event handler ends the process through UNHANDLED_EXCEPTION_HANDLER;
where the models know such an exception (`crashed`, `escaped`, `terminated`) it
ends the behaviour of that part, and elsewhere handlers do not throw.
