SPECIFICATION CheckoutSpec
CONSTANTS
  pay1 = pay1
  pay2 = pay2
  pay3 = pay3
  pay4 = pay4
  pay5 = pay5
  pay6 = pay6
  pay7 = pay7
  out1 = out1
  out2 = out2
  out3 = out3
  out4 = out4
  payKey = payKey
  bothKey = bothKey
  body1 = body1
  body2 = body2
  body3 = body3
  NoKey = NoKey
  None = None
  Requests = {pay1, pay2, pay3, pay4, pay5, pay6, pay7, out1, out2, out3, out4}
  Keys = {payKey, bothKey}
  KeyOf <- MCKeyOf
  Destined = {body3}
  BodyOf <- MCBodyOf
  Retain <- MCRetain
SYMMETRY Symmetry
CONSTRAINT OneGroup
CHECK_DEADLOCK FALSE
INVARIANTS
  CheckoutTypeOK
  ReplaysAgree
  AnswersMatchBody
  OnePaymentPerKey
  PaymentsWaitForPayoutsAlone
  AnswersAreWhole
  OneChargePerKey
  ChargesAreRecoverable
PROPERTIES
  NothingAfterAnAnswer
  ImplementsIdempotency
