----------------------------- MODULE MCPayouts ------------------------------
(***************************************************************************)
(* A wallet funded by one settlement of 3; payouts q1 and q2 of 2, of      *)
(* which one fits, and q3 of 1 that repeats the external_id of q1.         *)
(***************************************************************************)
EXTENDS Payouts

CONSTANTS wallet, pay, q1, q2, q3, x1

MCAccounts == {wallet}
MCPayments == {pay}
MCReferences == {pay, q1, q2, q3}
MCAccountOf == [r \in MCReferences |-> wallet]
MCAmount == [r \in MCReferences |-> IF r = pay THEN 3 ELSE IF r = q3 THEN 1 ELSE 2]
MCExternal == [q \in Jobs |-> IF q = q2 THEN NoExternal ELSE x1]
=============================================================================
