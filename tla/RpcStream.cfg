\* Two calls one way and one back; a packet does not fit into the kernel's buffer.
CONSTANTS
  client = client
  server = server
  c1 = c1
  c2 = c2
  c3 = c3
  Ping = Ping
  Ends <- MCEnds
  Calls <- MCCalls
  Caller <- MCCaller
  Size <- MCSize
  HeaderSize = 2
  SizeLimit = 4
  ReadSize = 4
  Capacity = 4
  MaxPings = 2
  MayFail = TRUE
SPECIFICATION Spec
INVARIANT EndsAgree
PROPERTY
  CallsArrive
CHECK_DEADLOCK FALSE
