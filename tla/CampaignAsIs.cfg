SPECIFICATION FairSpec
CONSTANTS
  w1 = w1  w2 = w2  e1 = e1  p1 = p1  p2 = p2
  Enrollments = {e1}  Workers = {w1, w2}  Plans = {p1, p2}
  NoPlan = NoPlan  NoJob = NoJob
  MaxSteps = 2  LeaseTicks = 1  MaxWait = 1  MaxClaims = 3  MaxFailures = 1
  RepairSets <- AsItStands  MoveSets <- Calm
PROPERTIES DueStepsAreClaimed
CHECK_DEADLOCK FALSE
