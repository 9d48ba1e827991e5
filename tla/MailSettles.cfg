SPECIFICATION FairSpec
CONSTANTS
  w1 = w1  w2 = w2  s1 = s1  s2 = s2  alice = alice
  Sends = {s1, s2}  People = {alice}  PersonOf <- OneRecipient
  Workers = {w1, w2}  NoWorker = NoWorker  NoCall = NoCall  NoRow = NoRow
  BatchSize = 2  MaxAttempts = 2  MaxDelay = 1  Backoff <- DoublingBackoff
  LeaseTicks = 1  DailyLimit = 0
  Switches = {"mailbox", "campaign"}  Environment = "production"
  ControlRows <- EnabledRow  GateWired = FALSE
  FaultSets <- NoFaults  Moves = {"reply"}
  MaxAborts = 1  AttemptCap = 3
PROPERTIES Settles
CHECK_DEADLOCK FALSE
