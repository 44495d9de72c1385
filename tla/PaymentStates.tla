--------------------------- MODULE PaymentStates ----------------------------
(***************************************************************************)
(* The payment state machine (src/common/payment-state-machine.ts).        *)
(***************************************************************************)

PaymentStatus == {"PENDING", "PAID", "EXPIRED", "FAILED", "CANCELLED"}

\* PENDING is the only state with transitions out of it.
AllowedTransitions(from) ==
  IF from = "PENDING" THEN PaymentStatus \ {"PENDING"} ELSE {}

CanTransition(from, to) == to \in AllowedTransitions(from)

IsTerminal(from) == AllowedTransitions(from) = {}
=============================================================================
