SPECIFICATION Spec
CONSTANTS
  wallet = wallet
  pay = pay
  other = other
  OtherAmount = 0
  payout = payout
  NoRow = NoRow
  NoClaim = NoClaim
  Sessions = {s1, s2, s3}
  MaxCalls = 4
  Accounts <- MCAccounts
  References <- MCReferences
  AccountOf <- MCAccountOf
  Amount <- MCAmount
  Calls <- MCCalls
INVARIANTS
  BalancesTypeOK
  OneEntryPerReference
  ConfirmStampIsRunningTotal
PROPERTIES
  ImplementsLedger
  EveryTransactionEnds
