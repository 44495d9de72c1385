---------------------------- MODULE MCSettlement ----------------------------
(***************************************************************************)
(* Small instances of Settlement.  The events are the ones the properties  *)
(* tell apart: a payment that is paid, a late expiry of it, and a          *)
(* settlement that reports another amount.  Lines that do not add up are   *)
(* the subject of Splits.                                                  *)
(***************************************************************************)
EXTENDS Settlement, TLC

CONSTANTS
  wallet, p1,
  paid, expired, wrong,          \* events
  d1, d2, d3                     \* deliveries

MCAccounts == {wallet}
MCAccountOf == [p \in Payments |-> wallet]
MCAmount == [p \in Payments |-> 2]
MCBadSplits == {}

MCEvents == {paid, expired, wrong}
MCEvent == [e \in MCEvents |->
  [type |-> IF e = expired THEN "payment.expired" ELSE "payment.paid",
   payment |-> p1,
   matches |-> e # wrong]]

\* A settlement, its redelivery, and a wrong settlement of the same charge.
RedeliveredPaid == [d \in Jobs |-> IF d = d3 THEN wrong ELSE paid]

\* A settlement and the expiry of the same charge.
Rivals == [d \in Jobs |-> IF d = d1 THEN paid ELSE expired]

\* Workers may be exchanged, and the deliveries of one event.
Symmetry ==
  {f @@ g : f \in Permutations(Workers), g \in Permutations({d1, d2})}
=============================================================================
