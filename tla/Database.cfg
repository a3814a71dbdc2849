\* Nested scopes, failures of every kind, refused calls that are retried, threads that go.
SPECIFICATION FairSpec
CONSTANTS
  Threads = {a, b}
  Reads = {select}
  Writes = {insert}
  Failures = {"prepare", "statement", "abort", "commit"}
  Repeats = TRUE
  SizeT = 8
  MaxAttach = 2
  MaxScopes = 2
  MaxCalls = 5
INVARIANTS AllOrNothing DepthCountsScopes ReadsStayValid ResourcesReleased
PROPERTIES CallReturns
\* Threads exit, and refused calls wait for others.
CHECK_DEADLOCK FALSE
