\* Two callers post to a thread whose pipes hold two bytes, run it twice and
\* quit it; a handler arms a timer and posts its event again for ever.
SPECIFICATION FairSpec
CONSTANTS
  c1 = c1  c2 = c2  e1 = e1  e2 = e2  t1 = t1  t2 = t2
  Callers = {c1, c2}
  Quitters = {c1, c2}
  Loop = Loop
  NoOne = NoOne
  Events = {e1, t1, t2}
  TimedEvents = {t1, t2}
  Delay <- MCDelay
  Posts <- Repost
  OwnEntry = TRUE
  PipeCapacity = 2
  MaxRuns = 2
  MaxTime = 2
INVARIANTS SignalsKept QuitIsClean
PROPERTIES ImplementsQueue QuitReturns EventsDelivered
\* A full pipe may stop a writer and the loop for ever.
CHECK_DEADLOCK FALSE
