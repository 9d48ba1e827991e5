SPECIFICATION FairSpec
CONSTANTS
  w1 = w1  w2 = w2  j1 = j1  j2 = j2  default = default  other = other
  Jobs = {j1, j2}  Workers = {w1, w2}  Names = {default, other}
  Namings <- OwnOrDefault  NoName = NoName  NoJob = NoJob
  BatchSize = 2  MaxAttempts = 3  LeaseTicks = 1  MaxAborts = 1  MaxSlow = 1
PROPERTIES AnswersAreFresh LedgerSpec Finishes
CHECK_DEADLOCK FALSE
