SPECIFICATION Spec
CONSTANTS
  t1 = t1  x1 = x1  x2 = x2  o1 = o1
  Targets = {t1}  Steps = {1, 2}  Automated = {1}
  Executors = {x1, x2}  Observers = {o1}
  NoJob = NoJob  NoView = NoView  NoOne = NoOne
  MaxCalls = 3  MaxWait = 1
  MoveSets <- Exposures
INVARIANTS SentIsFact DeliveriesOnRecord
  OneDelivery OverStaysQuiet
PROPERTIES SentStays
CHECK_DEADLOCK FALSE
