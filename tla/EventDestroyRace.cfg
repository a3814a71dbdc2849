\* The object is destroyed while another thread ends a call.
SPECIFICATION FairSpec
CONSTANTS
  Threads = {a, b}
  a = a  b = b  l = l  m = m
  Listeners = {l, m}
  Homes <- OneEach
  NoOne = NoOne
  Modes = {"Queued"}
  Foreign = FALSE
  Destroyers = {a}
  MaxEmits = 1
  MaxSwitches = 0
  MaxDepth = 1
PROPERTIES CallIsDestroyed
\* When every event is emitted and handled, nothing is left to do.
CHECK_DEADLOCK FALSE
