SPECIFICATION AlarmsSpec
CONSTANTS
  Hold = 1
  Period = 1
  StaleAfter = 0
  Limit = 2
  QueueMax = 1
  MaxAlarms = 3
  MaxPosted = 3
  MaxSockets = 1
  MaxCommands = 1
INVARIANTS AlarmsAreOne RestIsCurrent
PROPERTY StoresOnlyMoveForward
PROPERTY StatusesSettle
