--------------------------- MODULE MCCheckout -----------------------------
(***************************************************************************)
(* Under one key, four requests to POST /payments, one of them of another  *)
(* body.  Under a key that is used at both endpoints, two requests to POST *)
(* /payouts of one body, one of a body without a destination, and two to   *)
(* POST /payments of that body.  One more of each without a key.           *)
(***************************************************************************)
EXTENDS Checkout, TLC

CONSTANTS pay1, pay2, pay3, pay4, pay5, pay6, pay7, out1, out2, out3, out4,
          payKey, bothKey, body1, body2, body3

MCRetain == [r \in Requests |-> r \notin {out1, out2, out3, out4}]
MCKeyOf ==
  [r \in Requests |-> CASE r \in {pay7, out4} -> NoKey
                        [] r \in {pay5, pay6, out1, out2, out3} -> bothKey
                        [] OTHER -> payKey]
MCBodyOf ==
  [r \in Requests |-> CASE r \in {out1, out2, out4} -> body3
                        [] r = pay4 -> body2
                        [] OTHER -> body1]

\* Requests without a common key meet nowhere: one group at a time is enough.
Group(r) == IF Keyed(r) THEN KeyOf[r] ELSE r
OneGroup ==
  \A r, s \in Requests : pc[r] # "unsent" /\ pc[s] # "unsent" => Group(r) = Group(s)

\* Requests of one key, body and endpoint may be exchanged.
Symmetry ==
  {f @@ g @@ h : f \in Permutations({pay1, pay2, pay3}),
                 g \in Permutations({pay5, pay6}), h \in Permutations({out1, out2})}
=============================================================================
