SPECIFICATION Spec
CONSTANTS
  wallet = wallet
  p1 = p1
  paid = paid
  expired = expired
  wrong = wrong
  d1 = d1
  d2 = d2
  d3 = d3
  NoWorker = NoWorker
  NoTask = NoTask
  Workers = {w1, w2}
  Attempts = 1
  MaxStalls = 1
  EventOf <- Rivals
  Payments = {p1}
  Jobs = {d1, d2}
  Accounts <- MCAccounts
  References = {p1}
  AccountOf <- MCAccountOf
  Amount <- MCAmount
  BadSplits <- MCBadSplits
  Events <- MCEvents
  Event <- MCEvent
CHECK_DEADLOCK FALSE
PROPERTIES
  ClosedForGood
