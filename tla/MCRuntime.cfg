\* One operation of two commands and a restart; three commands for two slots
\* and a table of one operation; two objects to receive; a ring of two events.
CONSTANTS
  Commands <- MCCommands
  SlotCommands <- MCSlotCommands
  Arriving <- MCArriving
  MaxPendingSends = 1
  MaxOperations = 2
  MaxPendingReceives = 1
  MaxTokens = 3
  MaxIncarnations = 2
  MaxTime = 2
  MaxRepeats = 1
  MaxEvents = 2
  MaxCounter = 4
  Clocks = {1, 2, 3, 4, 5}
SPECIFICATION PartSpec
INVARIANTS AcceptedIsDurable ReceivedIsDurable HistoryExact
PROPERTY SendAnswered
CHECK_DEADLOCK FALSE
