----------------------------- MODULE MCBalances -----------------------------
(***************************************************************************)
(* One account, two payments and a payout of it.  OtherAmount makes the    *)
(* second payment one the amount check refuses (0) or a real one.          *)
(***************************************************************************)
EXTENDS Balances

CONSTANTS wallet, pay, other, payout, OtherAmount

MCAccounts == {wallet}
MCReferences == {pay, other, payout}
MCAccountOf == [r \in MCReferences |-> wallet]
MCAmount == [r \in MCReferences |->
               CASE r = pay -> 4 [] r = other -> OtherAmount [] r = payout -> 2]

MCCalls ==
  [op : {"credit"}, ref : {pay, other}]
    \cup [op : {"debit"}, ref : {pay}]
    \cup [op : {"reserve", "confirm"}, ref : {payout}]
=============================================================================
