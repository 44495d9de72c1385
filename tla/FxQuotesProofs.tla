---------------------------- MODULE FxQuotesProofs ----------------------------
(***************************************************************************)
(* For any calls, transactions, bodies and rates: a quote is given once,   *)
(* within its window, refusals are true and amounts are nearest.           *)
(***************************************************************************)
EXTENDS FxQuotes, TLAPS

\* The quote is a priced body, and calls are of a quote that exists.
PricedInv ==
  /\ quote # None => \E k \in Asks :
       /\ quote.source = k.source /\ quote.target = k.target
       /\ quote.sourceAmount = k.amount
       /\ quote.targetAmount = Convert(k.amount, k.source, k.target)
  /\ quote = None => consumedAt = None /\ \A c \in Callers : pc[c] = "idle"

\* A claim's time was taken in the window, or a slip later.
StampInv ==
  /\ \A c \in Callers : pc[c] \in {"claim", "claimed", "given"} =>
       stamp[c] # None /\ stamp[c] < quote.expiresAt + Slip
  /\ ConsumedInWindow

\* A call that read a claim read the one on record.
SeenInv ==
  /\ \A c \in Callers : seen[c] # None => consumedAt = seen[c]
  /\ \A c \in Callers : pc[c] = "lost" => consumedAt # None
  /\ \A c \in Callers : answer[c] = "quote_consumed" => seen[c] # None
  /\ \A c \in Callers : answer[c] = "quote_expired" => quote # None /\ quote.expiresAt <= now
  /\ \A c \in Callers : answer[c] # "pending" => pc[c] = "ended"

\* The calls whose claim is committed and that are, or will be, given the quote.
Winners ==
  {c \in Callers : answer[c] = "quote" \/ (pc[c] = "claimed" /\ c \notin InTransaction)}

WinnersInv ==
  /\ \A c \in Winners : consumedAt # None /\ consumedAt = stamp[c]
  /\ \A c, d \in Winners : c = d
  /\ \A c \in Callers : pc[c] = "given" => c \in InTransaction

FxInv ==
  /\ FxTypeOK
  /\ PricedInv
  /\ StampInv
  /\ SeenInv
  /\ WinnersInv

-----------------------------------------------------------------------------
(* The conversion.                                                          *)

\* The quotient and the half-up carry, of any product.
LEMMA HalfUp ==
  ASSUME NEW p \in Nat, NEW s \in Nat \ {0},
         NEW t, t = p \div s + (IF 2 * (p % s) >= s THEN 1 ELSE 0)
  PROVE  t \in Nat /\ 2 * t * s <= 2 * p + s /\ 2 * p < 2 * t * s + s
<1> DEFINE q == p \div s
<1>1. q \in Nat /\ p % s \in 0..(s - 1) /\ p = q * s + (p % s)
  OBVIOUS
<1> HIDE DEF q
<1>2. t = q + (IF 2 * (p % s) >= s THEN 1 ELSE 0)
  BY DEF q
<1>3. CASE 2 * (p % s) >= s
  <2>1. t = q + 1 /\ 2 * t * s = 2 * (q * s) + 2 * s
    BY <1>1, <1>2, <1>3
  <2> QED BY <1>1, <1>3, <2>1
<1>4. CASE 2 * (p % s) < s
  <2>1. t = q
    BY <1>1, <1>2, <1>4
  <2>2. 2 * q * s = 2 * (q * s)
    BY <1>1
  <2> QED BY <1>1, <1>4, <2>1, <2>2
<1> QED BY <1>1, <1>3, <1>4

LEMMA ConvertNearest ==
  ASSUME NEW k \in Asks
  PROVE  LET exact == k.amount * Rate(k.source, k.target)
             t == Convert(k.amount, k.source, k.target)
         IN  /\ t \in Nat
             /\ 2 * t * Scale <= 2 * exact + Scale
             /\ 2 * exact < 2 * t * Scale + Scale
<1> USE FxAssumption
<1>1. Rate(k.source, k.target) \in Nat
  BY DEF Rate
<1>2. k.amount * Rate(k.source, k.target) \in Nat
  BY <1>1
<1> QED BY <1>2, HalfUp DEF Convert

-----------------------------------------------------------------------------
(* One lemma per conjunct.                                                  *)

LEMMA InitFxInv == ASSUME Init PROVE FxInv
<1> USE FxAssumption DEF Init
<1>1. FxTypeOK
  BY DEF FxTypeOK, Times, Steps, Answers, RowHolders
<1>2. PricedInv /\ StampInv
  BY DEF PricedInv, StampInv, ConsumedInWindow
<1>3. SeenInv /\ WinnersInv
  BY DEF SeenInv, WinnersInv, Winners
<1> QED BY <1>1, <1>2, <1>3 DEF FxInv

LEMMA TypesStep == ASSUME FxInv, [Next]_vars PROVE FxTypeOK'
<1> USE FxAssumption DEF FxInv, FxTypeOK, Times, Steps, Answers, RowHolders
<1>1. CASE UNCHANGED vars
  BY <1>1 DEF vars
<1>2. CASE Tick
  BY <1>2 DEF Tick, callVars
<1>3. ASSUME NEW k \in Asks, CreateQuote(k) PROVE FxTypeOK'
  BY <1>3, ConvertNearest DEF CreateQuote, callVars
<1>4. ASSUME NEW c \in Callers, Read(c) PROVE FxTypeOK'
  BY <1>4 DEF Read, Goto
<1>5. ASSUME NEW c \in Callers, AssertUsable(c) PROVE FxTypeOK'
  BY <1>5 DEF AssertUsable, Answer, Goto
<1>6. ASSUME NEW c \in Callers, Claim(c) PROVE FxTypeOK'
  BY <1>6 DEF Claim, Win, Goto, callVars, StampInv
<1>7. ASSUME NEW c \in Callers, Given(c) PROVE FxTypeOK'
  BY <1>7 DEF Given, Answer, Goto
<1>8. ASSUME NEW c \in Callers, Lose(c) \/ Fail(c) PROVE FxTypeOK'
  BY <1>8 DEF Lose, Fail, Answer, Goto
<1>9. ASSUME NEW c \in Callers, Commit(c) PROVE FxTypeOK'
  BY <1>9 DEF Commit, Answer, Goto, StampInv, WinnersInv
<1> QED BY <1>1, <1>2, <1>3, <1>4, <1>5, <1>6, <1>7, <1>8, <1>9 DEF Next

LEMMA PricedStep == ASSUME FxInv, [Next]_vars PROVE PricedInv'
<1> USE FxAssumption DEF FxInv, FxTypeOK, PricedInv
<1>1. ASSUME NEW k \in Asks, CreateQuote(k) PROVE PricedInv'
  BY <1>1 DEF CreateQuote
<1>2. CASE UNCHANGED vars \/ Tick
  BY <1>2 DEF vars, Tick
<1>3. ASSUME NEW c \in Callers,
             \/ Read(c) \/ AssertUsable(c) \/ Claim(c) \/ Given(c) \/ Lose(c) \/ Commit(c) \/ Fail(c)
      PROVE  PricedInv'
  BY <1>3 DEF Read, AssertUsable, Claim, Win, Given, Lose, Commit, Fail, Answer, Goto
<1> QED BY <1>1, <1>2, <1>3 DEF Next

LEMMA StampStep == ASSUME FxInv, [Next]_vars PROVE StampInv'
<1> USE FxAssumption DEF FxInv, FxTypeOK, Times, PricedInv, StampInv, ConsumedInWindow
<1>1. CASE UNCHANGED vars \/ Tick
  BY <1>1 DEF vars, Tick, callVars
<1>2. ASSUME NEW k \in Asks, CreateQuote(k) PROVE StampInv'
  BY <1>2 DEF CreateQuote, callVars
<1>3. ASSUME NEW c \in Callers, AssertUsable(c) PROVE StampInv'
  BY <1>3 DEF AssertUsable, Answer, Goto
<1>4. ASSUME NEW c \in Callers, Claim(c) PROVE StampInv'
  BY <1>4 DEF Claim, Win, Goto, callVars
<1>5. ASSUME NEW c \in Callers, Read(c) \/ Given(c) \/ Lose(c) \/ Commit(c) \/ Fail(c) PROVE StampInv'
  BY <1>5 DEF Read, Given, Lose, Commit, Fail, Answer, Goto
<1> QED BY <1>1, <1>2, <1>3, <1>4, <1>5 DEF Next

\* What is consumed stays so, with its time.
LEMMA ConsumedStays ==
  ASSUME FxInv, [Next]_vars, consumedAt # None
  PROVE  consumedAt' = consumedAt
BY DEF FxInv, FxTypeOK, RowHolders, WinnersInv, Next, vars, Tick, CreateQuote, Read, AssertUsable,
       Claim, Win, Given, Lose, Commit, Fail

LEMMA SeenStep == ASSUME FxInv, [Next]_vars PROVE SeenInv'
<1> USE FxAssumption DEF FxInv, FxTypeOK, Times, PricedInv, SeenInv
<1>1. CASE UNCHANGED vars \/ Tick
  BY <1>1 DEF vars, Tick, callVars
<1>2. ASSUME NEW k \in Asks, CreateQuote(k) PROVE SeenInv'
  BY <1>2 DEF CreateQuote, callVars
<1>3. ASSUME NEW c \in Callers, AssertUsable(c) PROVE SeenInv'
  BY <1>3 DEF AssertUsable, Answer, Goto
<1>4. ASSUME NEW c \in Callers, Claim(c) PROVE SeenInv'
  BY <1>4, ConsumedStays DEF Claim, Win, Goto, callVars
<1>5. ASSUME NEW c \in Callers, Read(c) \/ Given(c) \/ Lose(c) \/ Fail(c) PROVE SeenInv'
  BY <1>5 DEF Read, Given, Lose, Fail, Answer, Goto
<1>6. ASSUME NEW c \in Callers, Commit(c) PROVE SeenInv'
  <2>1. consumedAt = None
    BY <1>6 DEF Commit, RowHolders, WinnersInv
  <2> QED BY <1>6, <2>1 DEF Commit, Answer, Goto
<1> QED BY <1>1, <1>2, <1>3, <1>4, <1>5, <1>6 DEF Next

LEMMA WinnersStep == ASSUME FxInv, [Next]_vars PROVE WinnersInv'
<1> USE FxAssumption DEF FxInv, FxTypeOK, WinnersInv, Winners
<1>1. CASE UNCHANGED vars \/ Tick
  BY <1>1 DEF vars, Tick, callVars
<1>2. ASSUME NEW k \in Asks, CreateQuote(k) PROVE WinnersInv'
  BY <1>2 DEF CreateQuote, callVars
<1>3. ASSUME NEW c \in Callers, AssertUsable(c) PROVE WinnersInv'
  <2>1. Winners' = Winners /\ pc'[c] # "given" /\ c \notin Winners
    BY <1>3 DEF AssertUsable, Answer, Goto, SeenInv
  <2>2. \A d \in Callers \ {c} : stamp'[d] = stamp[d] /\ pc'[d] = pc[d]
    BY <1>3 DEF AssertUsable, Answer, Goto
  <2> QED BY <1>3, <2>1, <2>2 DEF AssertUsable
<1>4. ASSUME NEW c \in Callers, Claim(c) PROVE WinnersInv'
  BY <1>4 DEF Claim, Win, Goto, callVars, StampInv
<1>5. ASSUME NEW c \in Callers, Read(c) \/ Given(c) \/ Lose(c) \/ Fail(c) PROVE WinnersInv'
  BY <1>5 DEF Read, Given, Lose, Fail, Answer, Goto
<1>6. ASSUME NEW c \in Callers, Commit(c) PROVE WinnersInv'
  <2>1. consumedAt = None /\ Winners = {}
    BY <1>6 DEF Commit, RowHolders
  <2> QED BY <1>6, <2>1 DEF Commit, Answer, Goto, StampInv
<1> QED BY <1>1, <1>2, <1>3, <1>4, <1>5, <1>6 DEF Next

LEMMA FxInvariant == Spec => []FxInv
<1>1. Init => FxInv
  BY InitFxInv
<1>2. FxInv /\ [Next]_vars => FxInv'
  BY TypesStep, PricedStep, StampStep, SeenStep, WinnersStep DEF FxInv
<1> QED BY <1>1, <1>2, PTL DEF Spec

-----------------------------------------------------------------------------
(* The theorems.                                                            *)

\* One call at most holds the row, and none once the quote is consumed
\* (fx.service 70-73).
THEOREM FxTypes == Spec => []FxTypeOK
<1>1. FxInv => FxTypeOK
  BY DEF FxInv
<1> QED BY <1>1, FxInvariant, PTL

\* However many calls race, one is given the quote for good (fx.service 68-82).
THEOREM QuoteIsGivenOnce == Spec => []GivenOnce
<1>1. FxInv => GivenOnce
  BY DEF FxInv, WinnersInv, Winners, GivenOnce
<1> QED BY <1>1, FxInvariant, PTL

\* A quote that is consumed keeps the time of the first claim (fx.service 70-73).
THEOREM FirstClaimStays == Spec => [][consumedAt # None => consumedAt' = consumedAt]_vars
<1>1. FxInv /\ [Next]_vars => [consumedAt # None => consumedAt' = consumedAt]_vars
  BY ConsumedStays
<1> QED BY <1>1, FxInvariant, PTL DEF Spec

\* Refusals are of a committed claim, or of a window that is over (fx.service
\* 79-114).
THEOREM RefusalsHold == Spec => []RefusalsAreTrue
<1>1. FxInv => RefusalsAreTrue
  BY DEF FxInv, SeenInv, RefusalsAreTrue
<1> QED BY <1>1, FxInvariant, PTL

\* No quote is recorded as consumed past its window by more than a slip of the
\* clock between the check and the claim (fx.service 70-73, 89).
THEOREM ClaimsAreInWindow == Spec => []ConsumedInWindow
<1>1. FxInv => ConsumedInWindow
  BY DEF FxInv, StampInv
<1> QED BY <1>1, FxInvariant, PTL

\* Any amount at any rate is converted to the nearest unit, half a unit up
\* (fake-fx.provider 36-45).
THEOREM ConversionIsNearest == Spec => []TargetIsNearest
<1>1. ASSUME FxInv, quote # None PROVE TargetIsNearest
  <2>1. PICK k \in Asks : /\ quote.source = k.source /\ quote.target = k.target
                          /\ quote.sourceAmount = k.amount
                          /\ quote.targetAmount = Convert(k.amount, k.source, k.target)
    BY <1>1 DEF FxInv, PricedInv
  <2> QED BY <2>1, ConvertNearest DEF TargetIsNearest
<1>2. FxInv => TargetIsNearest
  BY <1>1 DEF TargetIsNearest
<1> QED BY <1>2, FxInvariant, PTL
=============================================================================
