SPECIFICATION Spec
CONSTANTS
  NReaders = 2
  RemoteReaders = {3}
  MaxChunks = 2
  MaxMessages = 3
INVARIANT ReadersUndisturbed
PROPERTIES ImplementsBroadcast EveryMessageArrives
