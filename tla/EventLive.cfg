\* Liveness: any thread registers, removes and switches the listener of blocking emissions.
SPECIFICATION FairSpec
CONSTANTS
  Threads = {a, b}
  a = a  b = b  l = l  m = m
  Listeners = {l}
  Homes <- Anywhere
  NoOne = NoOne
  Modes = {"Auto", "Blocking", "Deffered"}
  Foreign = TRUE
  Destroyers = {}
  MaxEmits = 2
  MaxSwitches = 2
  MaxDepth = 2
PROPERTIES EmissionsEnd
\* When every event is emitted and handled, nothing is left to do.
CHECK_DEADLOCK FALSE
