------------------------------- MODULE Ledger -------------------------------
(***************************************************************************)
(* What BalancesService promises its callers: every operation on a         *)
(* partner's wallet is one atomic step of the transaction that makes it.   *)
(*                                                                         *)
(* A wallet is the row (partner, currency) of partner_balances; it is      *)
(* called an account here.  A reference is a payment or a payout: its      *)
(* account and its amount are columns that never change.  The ledger is    *)
(* append only and its entries are keyed by (reference, direction), so the *)
(* set of the references with a credit entry and the set of those with a   *)
(* debit entry say everything about it but the order.                      *)
(*                                                                         *)
(* Balances shows that the statements the service really issues, run by    *)
(* concurrent transactions, implement this module; Settlement and Payouts  *)
(* take their effects on money from its operations.                        *)
(***************************************************************************)
EXTENDS Integers, FiniteSets

CONSTANTS
  Accounts,     \* partner wallets, one per currency
  References,   \* payments and payouts, the rows a ledger entry refers to
  AccountOf,    \* the account a reference moves money of
  Amount        \* the minor units a reference moves

ASSUME LedgerAssumption ==
  /\ IsFiniteSet(References)
  /\ AccountOf \in [References -> Accounts]
  /\ Amount \in [References -> Int]

VARIABLES
  available,    \* per account: money the partner may spend
  pending,      \* per account: money held for queued payouts
  credits,      \* references with a CREDIT entry
  debits        \* references with a DEBIT entry

ledgerVars == <<available, pending, credits, debits>>

LedgerTypeOK ==
  /\ available \in [Accounts -> Int]
  /\ pending \in [Accounts -> Int]
  /\ credits \subseteq References
  /\ debits \subseteq References

LedgerInit ==
  /\ available = [a \in Accounts |-> 0]
  /\ pending = [a \in Accounts |-> 0]
  /\ credits = {}
  /\ debits = {}

-----------------------------------------------------------------------------
(* The operations.  Each one is a step of its caller's transaction; the     *)
(* conditions CanX are the guards that travel with the UPDATEs, and a       *)
(* caller sees their failure as a DomainException.                          *)

Positive(r) == Amount[r] > 0

\* Mutant: the credit does not claim its reference first.
CreditUnclaimed(r) ==
  /\ Positive(r)
  /\ credits' = credits \cup {r}
  /\ available' = [available EXCEPT ![AccountOf[r]] = @ + Amount[r]]
  /\ UNCHANGED <<pending, debits>>

\* Settlement credit.  A reference that was credited before moves nothing.
CreditPayment(r) ==
  /\ Positive(r)
  /\ \/ /\ r \in credits
        /\ UNCHANGED ledgerVars
     \/ /\ r \notin credits
        /\ credits' = credits \cup {r}
        /\ available' = [available EXCEPT ![AccountOf[r]] = @ + Amount[r]]
        /\ UNCHANGED <<pending, debits>>

CanDebit(r) == Positive(r) /\ available[AccountOf[r]] >= Amount[r]

\* Direct debit of the available money, once per reference.
Debit(r) ==
  \/ /\ Positive(r)
     /\ r \in debits
     /\ UNCHANGED ledgerVars
  \/ /\ CanDebit(r)
     /\ r \notin debits
     /\ debits' = debits \cup {r}
     /\ available' = [available EXCEPT ![AccountOf[r]] = @ - Amount[r]]
     /\ UNCHANGED <<pending, credits>>

CanReserve(r) == Positive(r) /\ available[AccountOf[r]] >= Amount[r]

\* Hold funds for a payout: no entry, the money is still the platform's.
Reserve(r) ==
  /\ CanReserve(r)
  /\ available' = [available EXCEPT ![AccountOf[r]] = @ - Amount[r]]
  /\ pending' = [pending EXCEPT ![AccountOf[r]] = @ + Amount[r]]
  /\ UNCHANGED <<credits, debits>>

CanRelease(r) == Positive(r) /\ pending[AccountOf[r]] >= Amount[r]

\* Give a hold back: no entry either.
Release(r) ==
  /\ CanRelease(r)
  /\ pending' = [pending EXCEPT ![AccountOf[r]] = @ - Amount[r]]
  /\ available' = [available EXCEPT ![AccountOf[r]] = @ + Amount[r]]
  /\ UNCHANGED <<credits, debits>>

\* A claimed reference confirms nothing; a new one needs the hold.
CanConfirm(r) ==
  /\ Positive(r)
  /\ r \in debits \/ pending[AccountOf[r]] >= Amount[r]

\* Consume a hold and write its debit, once per reference.
ConfirmDebit(r) ==
  /\ CanConfirm(r)
  /\ \/ /\ r \in debits
        /\ UNCHANGED ledgerVars
     \/ /\ r \notin debits
        /\ debits' = debits \cup {r}
        /\ pending' = [pending EXCEPT ![AccountOf[r]] = @ - Amount[r]]
        /\ UNCHANGED <<available, credits>>

LedgerNext ==
  \E r \in References :
    \/ CreditPayment(r)
    \/ Debit(r)
    \/ Reserve(r)
    \/ Release(r)
    \/ ConfirmDebit(r)

LedgerSpec == LedgerInit /\ [][LedgerNext]_ledgerVars

-----------------------------------------------------------------------------
(* The minor units of a set of references, each reference's kept apart from *)
(* the others', so that their number is the sum of the amounts.             *)

Units(R) == UNION {{r} \X (1 .. Amount[r]) : r \in R}

Total(R) == Cardinality(Units(R))

Of(a, R) == {r \in R : AccountOf[r] = a}

\* What the ledger says the account holds: the wallet_sum and ledger_sum of
\* the reconciliation query are compared by WalletMatchesLedger.
Net(a) == Total(Of(a, credits)) - Total(Of(a, debits))

\* available + pending equals the net of the account's ledger entries: a
\* hold moves money between the two columns and writes no entry, a credit
\* or a confirmed debit moves one column and writes exactly one (ADR 004).
WalletMatchesLedger ==
  \A a \in Accounts : available[a] + pending[a] = Net(a)

\* No interleaving of spenders overdraws an account or eats a hold twice:
\* the guards of the UPDATEs keep both columns non-negative.
NeverOverdrawn ==
  \A a \in Accounts : available[a] >= 0 /\ pending[a] >= 0
=============================================================================
