SPECIFICATION Spec
CONSTANTS
  wallet = wallet
  pay = pay
  other = other
  OtherAmount = 1
  payout = payout
  NoRow = NoRow
  NoClaim = NoClaim
  Sessions = {s1, s2}
  MaxCalls = 4
  Accounts <- MCAccounts
  References <- MCReferences
  AccountOf <- MCAccountOf
  Amount <- MCAmount
  Calls <- MCCalls
INVARIANTS
  StampIsRunningTotal
