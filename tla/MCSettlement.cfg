SPECIFICATION FairSpec
CONSTANTS
  wallet = wallet
  p1 = p1
  paid = paid
  expired = expired
  wrong = wrong
  d1 = d1
  d2 = d2
  d3 = d3
  NoWorker = NoWorker
  NoTask = NoTask
  Workers = {w1}
  Attempts = 2
  MaxStalls = 1
  EventOf <- Rivals
  Payments = {p1}
  Jobs = {d1, d2}
  Accounts <- MCAccounts
  References = {p1}
  AccountOf <- MCAccountOf
  Amount <- MCAmount
  BadSplits <- MCBadSplits
  Events <- MCEvents
  Event <- MCEvent
CHECK_DEADLOCK FALSE
INVARIANTS
  TypeOK
  PaidIffCredited
PROPERTIES
  ClosedForGood
  AcceptedEventsSettle
  JobsEnd
