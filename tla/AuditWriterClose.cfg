\* Close while an upload is in flight.
CONSTANTS
  MaxEvents = 3
  MaxQueueSize = 2
SPECIFICATION WriterSpec
INVARIANT CloseFlushesQueue
CHECK_DEADLOCK FALSE
