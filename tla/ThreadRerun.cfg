\* A thread is run again after it was quit.
SPECIFICATION Spec
CONSTANTS
  c1 = c1  c2 = c2  e1 = e1  e2 = e2  t1 = t1  t2 = t2
  Callers = {c1, c2}
  Quitters = {c1}
  Loop = Loop
  NoOne = NoOne
  Events = {}
  TimedEvents = {}
  Delay <- MCDelayNone
  Posts <- Nothing
  OwnEntry = FALSE
  PipeCapacity = 5
  MaxRuns = 2
  MaxTime = 0
INVARIANTS EndsOnlyByQuit
