\* A listener removes another listener of the same descriptor.
SPECIFICATION Spec
CONSTANTS
  NumHandles = 1
  Listeners = {l1, l2}
  Modes = {"Read"}
  Clients = {}
  Loop = Loop
  NoOne = NoOne
  MaxChanges = 3
PROPERTIES OnlyRegisteredCalled
