\* Two threads and the main thread post, pipes hold one byte; one of the threads watches.
SPECIFICATION FairSpec
CONSTANTS
  Main = Main  a = a  b = b  x1 = x1  x2 = x2   y1 = y1  m1 = m1
  Threads = {a, b}
  Watchers = {b}
  NoOne = NoOne
  Events = {x1, x2, y1, m1}
  TimedEvents = {y1}
  Sender <- MCSender
  Delay <- MCDelay
  Handles = {1}
  Modes = {"Read", "Write"}
  PipeCapacity = 1
  MayFail = TRUE
  MaxTime = 1
  MaxChanges = 2
INVARIANT WakesAreKept
PROPERTIES ImplementsPostedEvents PostedIsDelivered
\* The events are delivered, or a watcher and the main thread wait for each other.
CHECK_DEADLOCK FALSE
