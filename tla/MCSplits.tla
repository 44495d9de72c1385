------------------------------ MODULE MCSplits --------------------------------
(***************************************************************************)
(* A payment of 3 and definitions of its lines: two of the same parties in *)
(* opposite orders, one of another party and one whose sum is wrong.       *)
(***************************************************************************)
EXTENDS Splits, TLC

CONSTANTS forward, backward, other, short

Line(party, amount) == [party |-> party, amount |-> amount]

MCLinesOf ==
  [d \in Definitions |->
     CASE d = forward  -> <<Line("platform", 1), Line("seller", 2)>>
       [] d = backward -> <<Line("seller", 1), Line("platform", 2)>>
       [] d = other    -> <<Line("affiliate", 3)>>
       [] d = short    -> <<Line("seller", 2)>>]
=============================================================================
