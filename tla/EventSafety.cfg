\* Three modes, while listeners come, go and switch, and a destructor.
SPECIFICATION Spec
CONSTANTS
  Threads = {a, b}
  a = a  b = b  l = l  m = m
  Listeners = {l, m}
  Homes <- OneEach
  NoOne = NoOne
  Modes = {"Auto", "Queued", "Blocking"}
  Foreign = FALSE
  Destroyers = {a}
  MaxEmits = 2
  MaxSwitches = 1
  MaxDepth = 2
INVARIANTS HandledOnce   DestroyedIsUnused
\* When every event is emitted and handled, nothing is left to do.
CHECK_DEADLOCK FALSE
