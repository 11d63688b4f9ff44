SPECIFICATION TasksSpec
CONSTANTS
  Tasks <- AllTasks
  Sessions <- TwoSessions
  Kind <- KindOfAll
  SessionsOf <- SessionsOfAll
  Records = {"succeeded", "failed"}
  NoRecord = NoRecord
  NoTask = NoTask
  MaxFaults = 2
INVARIANTS OneOutcome StoppedForGood
PROPERTIES RecordedNeverRepeated Gate TasksSettle
CHECK_DEADLOCK FALSE
