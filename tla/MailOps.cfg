SPECIFICATION Spec
CONSTANTS
  w1 = w1  w2 = w2  s1 = s1  s2 = s2  alice = alice
  Sends = {s1, s2}  People = {alice}  PersonOf <- OneRecipient
  Workers = {w1, w2}  NoWorker = NoWorker  NoCall = NoCall  NoRow = NoRow
  BatchSize = 1  MaxAttempts = 2  MaxDelay = 0  Backoff <- DoublingBackoff
  LeaseTicks = 1  DailyLimit = 1
  Switches = {"mailbox"}  Environment = "production"
  ControlRows <- StopRows  GateWired = TRUE
  FaultSets <- AllFaults  Moves = {"suppress", "import", "flip", "control", "day"}
  MaxAborts = 1  AttemptCap = 2
SYMMETRY Symmetry
INVARIANTS PauseTakesEffect
PROPERTIES SuppressionDrains
CHECK_DEADLOCK FALSE
