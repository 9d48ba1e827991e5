SPECIFICATION FairSpec
CONSTANTS
  alice = alice  bob = bob  thread = thread
  optOut = optOut  noThanks = noThanks  tellMore = tellMore
  strangerOptOut = strangerOptOut  garbled = garbled
  toAlice = toAlice
  w1 = w1  w2 = w2
  Pollers = {w1, w2}  MaxUid = 2  MaxFailures = 1
  Emails <- EmailSet  Sender <- SenderOf  Thread <- ThreadOf  Class <- ClassOf
  Malformed = {garbled}  People = {alice, bob}  Threads = {thread}
  Enrolled = {alice}  Nobody = Nobody
  Sends = {toAlice}  Recipient <- RecipientOf
INVARIANTS HandledIsComplete
PROPERTIES OptOutHolds RepliesDrain InboxDrains
CHECK_DEADLOCK FALSE
