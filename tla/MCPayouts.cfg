SPECIFICATION FairSpec
CONSTANTS
  wallet = wallet
  pay = pay
  q1 = q1
  q2 = q2
  q3 = q3
  x1 = x1
  NoWorker = NoWorker
  NoTask = NoTask
  NoExternal = NoExternal
  Jobs = {q1, q2, q3}
  Workers = {w1, w2}
  Attempts = 2
  MaxStalls = 1
  Accounts <- MCAccounts
  Payments <- MCPayments
  References <- MCReferences
  AccountOf <- MCAccountOf
  Amount <- MCAmount
  External <- MCExternal
CHECK_DEADLOCK FALSE
INVARIANTS
  TypeOK
  HoldsCoverQueued
  CompletedIffDebited
  NoPayoutFails
PROPERTIES
  AnsweredPayoutsEnd
