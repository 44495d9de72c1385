------------------------------ MODULE MCFxQuotes ------------------------------
(***************************************************************************)
(* Two calls in transactions and one on its own of one quote, which is     *)
(* asked for in five ways: a tie, a fraction below one, a pair the table   *)
(* does not have, equal currencies.  The provider's rates have three       *)
(* decimals that are not zero, so that they are the same at Scale 1000.    *)
(***************************************************************************)
EXTENDS FxQuotes, TLC

CONSTANTS t1, t2, a1

Ask(amount, source, target) == [amount |-> amount, source |-> source, target |-> target]

MCAsks ==
  {Ask(100, "BRL", "USD"), Ask(7, "BRL", "EUR"), Ask(1, "USD", "EUR"),
   Ask(3, "EUR", "JPY"), Ask(2, "USD", "USD")}

MCRATES ==
  <<"BRL", "USD">> :> 185 @@ <<"BRL", "EUR">> :> 171 @@ <<"USD", "BRL">> :> 5420
  @@ <<"EUR", "BRL">> :> 5850 @@ <<"USD", "EUR">> :> 920 @@ <<"EUR", "USD">> :> 1087
=============================================================================
