---------------------------- MODULE LedgerProofs -----------------------------
(***************************************************************************)
(* The ledger's invariants, for every set of references and any amounts.   *)
(*                                                                         *)
(* The sums are numbers of units (see Units): adding a reference to a set  *)
(* adds its units, which are disjoint from the others', so the total grows *)
(* by the reference's amount.  The rest is arithmetic.                     *)
(***************************************************************************)
EXTENDS Ledger, FiniteSetTheorems, TLAPS

\* The units of finitely many references are finitely many.
LEMMA UnitsFinite ==
  ASSUME NEW R \in SUBSET References
  PROVE  IsFiniteSet(Units(R))
<1> DEFINE Part(r) == {r} \X (1 .. Amount[r])
           Parts == {Part(r) : r \in R}
           f == [r \in R |-> Part(r)]
<1>1. IsFiniteSet(R)
  BY FS_Subset, LedgerAssumption
<1>2. f \in Surjection(R, Parts)
  BY DEF Surjection
<1>3. IsFiniteSet(Parts)
  <2> HIDE DEF f, Parts
  <2> QED BY <1>1, <1>2, FS_Surjection
<1>4. \A r \in R : IsFiniteSet(Part(r))
  <2> SUFFICES ASSUME NEW r \in R PROVE IsFiniteSet(Part(r))
    OBVIOUS
  <2>1. Amount[r] \in Int
    BY LedgerAssumption
  <2>2. IsFiniteSet(1 .. Amount[r])
    BY <2>1, FS_Interval
  <2>3. IsFiniteSet({r})
    BY FS_Singleton
  <2> QED BY <2>2, <2>3, FS_Product
<1>5. \A T \in Parts : IsFiniteSet(T)
  BY <1>4
<1>6. IsFiniteSet(UNION Parts)
  <2> HIDE DEF Parts
  <2> QED BY <1>3, <1>5, FS_UNION
<1> QED BY <1>6 DEF Units

\* Totals are natural numbers, and the empty set's is zero.
LEMMA TotalType ==
  /\ \A R \in SUBSET References : Total(R) \in Nat
  /\ Total({}) = 0
<1>1. \A R \in SUBSET References : Total(R) \in Nat
  BY UnitsFinite, FS_CardinalityType DEF Total
<1>2. Units({}) = {}
  BY DEF Units
<1> QED BY <1>1, <1>2, FS_EmptySet DEF Total

\* A new reference adds its amount to the total.
LEMMA TotalAdd ==
  ASSUME NEW R \in SUBSET References, NEW r \in References, r \notin R, Positive(r)
  PROVE  Total(R \cup {r}) = Total(R) + Amount[r]
<1> DEFINE Part == {r} \X (1 .. Amount[r])
<1>1. Amount[r] \in Int /\ Amount[r] > 0
  BY LedgerAssumption DEF Positive
<1>2. IsFiniteSet(Part) /\ Cardinality(Part) = Amount[r]
  <2>1. IsFiniteSet(1 .. Amount[r]) /\ Cardinality(1 .. Amount[r]) = Amount[r]
    <3> DEFINE n == Amount[r]
    <3>1. n \in Int /\ n > 0
      BY <1>1
    <3> HIDE DEF n
    <3>2. /\ IsFiniteSet(1 .. n)
          /\ Cardinality(1 .. n) = IF 1 > n THEN 0 ELSE n - 1 + 1
      BY <3>1, FS_Interval
    <3>3. Cardinality(1 .. n) = n
      BY <3>1, <3>2
    <3> QED BY <3>2, <3>3 DEF n
  <2>2. IsFiniteSet({r}) /\ Cardinality({r}) = 1
    BY FS_Singleton
  <2>3. IsFiniteSet(Part) /\ Cardinality(Part) = 1 * Amount[r]
    BY <2>1, <2>2, FS_Product
  <2> QED BY <2>3, <1>1
<1>3. IsFiniteSet(Units(R))
  BY UnitsFinite
<1>4. Units(R \cup {r}) = Units(R) \cup Part
  BY DEF Units
<1>5. Units(R) \cap Part = {}
  BY DEF Units
<1> HIDE DEF Part
<1>6. Cardinality(Units(R)) \in Nat
  BY <1>3, FS_CardinalityType
<1>7. Cardinality(Units(R) \cup Part) = Cardinality(Units(R)) + Cardinality(Part)
  <2>1. Cardinality(Units(R) \cap Part) = 0
    BY <1>5, FS_EmptySet
  <2>2. Cardinality(Units(R) \cup Part)
          = Cardinality(Units(R)) + Cardinality(Part) - Cardinality(Units(R) \cap Part)
    BY <1>2, <1>3, FS_Union
  <2> QED BY <1>1, <1>2, <1>6, <2>1, <2>2
<1> QED BY <1>2, <1>4, <1>7 DEF Total

\* A reference that joins a set joins the part of its own account only.
LEMMA OfAdd ==
  ASSUME NEW R \in SUBSET References, NEW r \in References, NEW a
  PROVE  Of(a, R \cup {r}) = IF AccountOf[r] = a THEN Of(a, R) \cup {r} ELSE Of(a, R)
BY DEF Of

\* The account's total grows by the amount, every other account's stays.
LEMMA TotalOfAdd ==
  ASSUME NEW R \in SUBSET References, NEW r \in References, r \notin R, Positive(r),
         NEW a \in Accounts
  PROVE  Total(Of(a, R \cup {r}))
           = Total(Of(a, R)) + (IF AccountOf[r] = a THEN Amount[r] ELSE 0)
<1>1. Of(a, R) \in SUBSET References /\ r \notin Of(a, R)
  BY DEF Of
<1>2. Total(Of(a, R)) \in Nat
  BY <1>1, TotalType
<1>3. CASE AccountOf[r] = a
  <2>1. Of(a, R \cup {r}) = Of(a, R) \cup {r}
    BY <1>3, OfAdd
  <2>2. Total(Of(a, R) \cup {r}) = Total(Of(a, R)) + Amount[r]
    BY <1>1, TotalAdd
  <2> QED BY <1>3, <2>1, <2>2
<1>4. CASE AccountOf[r] # a
  <2>1. Of(a, R \cup {r}) = Of(a, R)
    BY <1>4, OfAdd
  <2> QED BY <1>2, <1>4, <2>1
<1> QED BY <1>3, <1>4

-----------------------------------------------------------------------------
LedgerInv == LedgerTypeOK /\ WalletMatchesLedger /\ NeverOverdrawn

LEMMA LedgerInitInv ==
  ASSUME LedgerInit PROVE LedgerInv
<1>1. LedgerTypeOK /\ NeverOverdrawn
  BY DEF LedgerInit, LedgerTypeOK, NeverOverdrawn
<1>2. \A a \in Accounts : Of(a, credits) = {} /\ Of(a, debits) = {}
  BY DEF LedgerInit, Of
<1>3. \A a \in Accounts : Net(a) = 0
  BY <1>2, TotalType DEF Net
<1>4. WalletMatchesLedger
  BY <1>3 DEF LedgerInit, WalletMatchesLedger
<1> QED BY <1>1, <1>4 DEF LedgerInv

\* What every proof about a movement of reference r starts from.
LEMMA LedgerFacts ==
  ASSUME LedgerInv, NEW a \in Accounts
  PROVE  /\ available[a] \in Int /\ pending[a] \in Int
         /\ Total(Of(a, credits)) \in Nat /\ Total(Of(a, debits)) \in Nat
         /\ available[a] + pending[a] = Total(Of(a, credits)) - Total(Of(a, debits))
         /\ available[a] >= 0 /\ pending[a] >= 0
<1>1. Of(a, credits) \in SUBSET References /\ Of(a, debits) \in SUBSET References
  BY DEF Of, LedgerInv, LedgerTypeOK
<1> QED BY <1>1, TotalType
        DEF LedgerInv, LedgerTypeOK, WalletMatchesLedger, NeverOverdrawn, Net

\* A step that leaves the ledger alone keeps its invariant.
LEMMA LedgerStutter ==
  ASSUME LedgerInv, UNCHANGED ledgerVars PROVE LedgerInv'
BY DEF LedgerInv, LedgerTypeOK, WalletMatchesLedger, NeverOverdrawn, Net, Of,
       Total, Units, ledgerVars

-----------------------------------------------------------------------------
(* One lemma per operation: what it does to the columns of account a and to *)
(* the totals of its entries.                                               *)

LEMMA CreditKeepsInv ==
  ASSUME LedgerInv, NEW r \in References, CreditPayment(r) PROVE LedgerInv'
<1>1. CASE r \in credits
  BY <1>1, LedgerStutter DEF CreditPayment
<1>2. CASE r \notin credits
  <2>1. /\ credits' = credits \cup {r} /\ debits' = debits /\ pending' = pending
        /\ available' = [available EXCEPT ![AccountOf[r]] = @ + Amount[r]]
        /\ Positive(r) /\ Amount[r] \in Int /\ Amount[r] > 0
        /\ AccountOf[r] \in Accounts
    BY <1>2, LedgerAssumption DEF CreditPayment, Positive
  <2>2. LedgerTypeOK'
    BY <2>1 DEF LedgerInv, LedgerTypeOK
  <2>3. ASSUME NEW a \in Accounts
        PROVE  /\ available'[a] + pending'[a]
                    = Total(Of(a, credits')) - Total(Of(a, debits'))
               /\ available'[a] >= 0 /\ pending'[a] >= 0
    <3>1. Total(Of(a, credits'))
            = Total(Of(a, credits)) + (IF AccountOf[r] = a THEN Amount[r] ELSE 0)
      BY <1>2, <2>1, TotalOfAdd DEF LedgerInv, LedgerTypeOK
    <3>2. /\ available'[a] = available[a] + (IF AccountOf[r] = a THEN Amount[r] ELSE 0)
          /\ pending'[a] = pending[a]
      BY <2>1, LedgerFacts DEF LedgerInv, LedgerTypeOK
    <3> QED BY <2>1, <3>1, <3>2, LedgerFacts
  <2> QED BY <2>2, <2>3 DEF LedgerInv, WalletMatchesLedger, NeverOverdrawn, Net
<1> QED BY <1>1, <1>2

LEMMA DebitKeepsInv ==
  ASSUME LedgerInv, NEW r \in References, Debit(r) PROVE LedgerInv'
<1>1. CASE UNCHANGED ledgerVars
  BY <1>1, LedgerStutter
<1>2. CASE ~UNCHANGED ledgerVars
  <2>1. /\ debits' = debits \cup {r} /\ credits' = credits /\ pending' = pending
        /\ available' = [available EXCEPT ![AccountOf[r]] = @ - Amount[r]]
        /\ r \notin debits /\ available[AccountOf[r]] >= Amount[r]
        /\ Positive(r) /\ Amount[r] \in Int /\ Amount[r] > 0
        /\ AccountOf[r] \in Accounts
    BY <1>2, LedgerAssumption DEF Debit, CanDebit, Positive
  <2>2. LedgerTypeOK'
    BY <2>1 DEF LedgerInv, LedgerTypeOK
  <2>3. ASSUME NEW a \in Accounts
        PROVE  /\ available'[a] + pending'[a]
                    = Total(Of(a, credits')) - Total(Of(a, debits'))
               /\ available'[a] >= 0 /\ pending'[a] >= 0
    <3>1. Total(Of(a, debits'))
            = Total(Of(a, debits)) + (IF AccountOf[r] = a THEN Amount[r] ELSE 0)
      BY <2>1, TotalOfAdd DEF LedgerInv, LedgerTypeOK
    <3>2. /\ available'[a] = available[a] - (IF AccountOf[r] = a THEN Amount[r] ELSE 0)
          /\ pending'[a] = pending[a]
      BY <2>1, LedgerFacts DEF LedgerInv, LedgerTypeOK
    <3> QED BY <2>1, <3>1, <3>2, LedgerFacts
  <2> QED BY <2>2, <2>3 DEF LedgerInv, WalletMatchesLedger, NeverOverdrawn, Net
<1> QED BY <1>1, <1>2

LEMMA ConfirmKeepsInv ==
  ASSUME LedgerInv, NEW r \in References, ConfirmDebit(r) PROVE LedgerInv'
<1>1. CASE r \in debits
  BY <1>1, LedgerStutter DEF ConfirmDebit
<1>2. CASE r \notin debits
  <2>1. /\ debits' = debits \cup {r} /\ credits' = credits /\ available' = available
        /\ pending' = [pending EXCEPT ![AccountOf[r]] = @ - Amount[r]]
        /\ pending[AccountOf[r]] >= Amount[r]
        /\ Positive(r) /\ Amount[r] \in Int /\ Amount[r] > 0
        /\ AccountOf[r] \in Accounts
    BY <1>2, LedgerAssumption DEF ConfirmDebit, CanConfirm, Positive
  <2>2. LedgerTypeOK'
    BY <2>1 DEF LedgerInv, LedgerTypeOK
  <2>3. ASSUME NEW a \in Accounts
        PROVE  /\ available'[a] + pending'[a]
                    = Total(Of(a, credits')) - Total(Of(a, debits'))
               /\ available'[a] >= 0 /\ pending'[a] >= 0
    <3>1. Total(Of(a, debits'))
            = Total(Of(a, debits)) + (IF AccountOf[r] = a THEN Amount[r] ELSE 0)
      BY <1>2, <2>1, TotalOfAdd DEF LedgerInv, LedgerTypeOK
    <3>2. /\ pending'[a] = pending[a] - (IF AccountOf[r] = a THEN Amount[r] ELSE 0)
          /\ available'[a] = available[a]
      BY <2>1, LedgerFacts DEF LedgerInv, LedgerTypeOK
    <3> QED BY <2>1, <3>1, <3>2, LedgerFacts
  <2> QED BY <2>2, <2>3 DEF LedgerInv, WalletMatchesLedger, NeverOverdrawn, Net
<1> QED BY <1>1, <1>2

LEMMA ReserveKeepsInv ==
  ASSUME LedgerInv, NEW r \in References, Reserve(r) PROVE LedgerInv'
<1>1. /\ credits' = credits /\ debits' = debits
      /\ available' = [available EXCEPT ![AccountOf[r]] = @ - Amount[r]]
      /\ pending' = [pending EXCEPT ![AccountOf[r]] = @ + Amount[r]]
      /\ available[AccountOf[r]] >= Amount[r]
      /\ Amount[r] \in Int /\ Amount[r] > 0
      /\ AccountOf[r] \in Accounts
  BY LedgerAssumption DEF Reserve, CanReserve, Positive
<1>2. LedgerTypeOK'
  BY <1>1 DEF LedgerInv, LedgerTypeOK
<1>3. ASSUME NEW a \in Accounts
      PROVE  /\ available'[a] + pending'[a]
                  = Total(Of(a, credits')) - Total(Of(a, debits'))
             /\ available'[a] >= 0 /\ pending'[a] >= 0
  <2>1. /\ available'[a] = available[a] - (IF AccountOf[r] = a THEN Amount[r] ELSE 0)
        /\ pending'[a] = pending[a] + (IF AccountOf[r] = a THEN Amount[r] ELSE 0)
    BY <1>1, LedgerFacts DEF LedgerInv, LedgerTypeOK
  <2> QED BY <1>1, <2>1, LedgerFacts
<1> QED BY <1>2, <1>3 DEF LedgerInv, WalletMatchesLedger, NeverOverdrawn, Net

LEMMA ReleaseKeepsInv ==
  ASSUME LedgerInv, NEW r \in References, Release(r) PROVE LedgerInv'
<1>1. /\ credits' = credits /\ debits' = debits
      /\ pending' = [pending EXCEPT ![AccountOf[r]] = @ - Amount[r]]
      /\ available' = [available EXCEPT ![AccountOf[r]] = @ + Amount[r]]
      /\ pending[AccountOf[r]] >= Amount[r]
      /\ Amount[r] \in Int /\ Amount[r] > 0
      /\ AccountOf[r] \in Accounts
  BY LedgerAssumption DEF Release, CanRelease, Positive
<1>2. LedgerTypeOK'
  BY <1>1 DEF LedgerInv, LedgerTypeOK
<1>3. ASSUME NEW a \in Accounts
      PROVE  /\ available'[a] + pending'[a]
                  = Total(Of(a, credits')) - Total(Of(a, debits'))
             /\ available'[a] >= 0 /\ pending'[a] >= 0
  <2>1. /\ available'[a] = available[a] + (IF AccountOf[r] = a THEN Amount[r] ELSE 0)
        /\ pending'[a] = pending[a] - (IF AccountOf[r] = a THEN Amount[r] ELSE 0)
    BY <1>1, LedgerFacts DEF LedgerInv, LedgerTypeOK
  <2> QED BY <1>1, <2>1, LedgerFacts
<1> QED BY <1>2, <1>3 DEF LedgerInv, WalletMatchesLedger, NeverOverdrawn, Net

-----------------------------------------------------------------------------
LEMMA LedgerNextInv ==
  ASSUME LedgerInv, [LedgerNext]_ledgerVars PROVE LedgerInv'
<1>1. CASE LedgerNext
  <2> PICK r \in References :
        CreditPayment(r) \/ Debit(r) \/ Reserve(r) \/ Release(r) \/ ConfirmDebit(r)
    BY <1>1 DEF LedgerNext
  <2> QED BY CreditKeepsInv, DebitKeepsInv, ReserveKeepsInv, ReleaseKeepsInv,
             ConfirmKeepsInv
<1>2. CASE UNCHANGED ledgerVars
  BY <1>2, LedgerStutter
<1> QED BY <1>1, <1>2

LEMMA LedgerInvariant == LedgerSpec => []LedgerInv
<1>1. LedgerInit => LedgerInv
  BY LedgerInitInv
<1>2. LedgerInv /\ [LedgerNext]_ledgerVars => LedgerInv'
  BY LedgerNextInv
<1> QED BY <1>1, <1>2, PTL DEF LedgerSpec

\* Every account's two columns add up to the net of its ledger entries, for
\* every sequence of the service's operations on any references (ADR 004).
THEOREM LedgerConservesMoney == LedgerSpec => []WalletMatchesLedger
<1>1. LedgerInv => WalletMatchesLedger
  BY DEF LedgerInv
<1> QED BY <1>1, LedgerInvariant, PTL

\* No sequence of operations drives available or pending below zero.
THEOREM LedgerNeverOverdraws == LedgerSpec => []NeverOverdrawn
<1>1. LedgerInv => NeverOverdrawn
  BY DEF LedgerInv
<1> QED BY <1>1, LedgerInvariant, PTL
=============================================================================
