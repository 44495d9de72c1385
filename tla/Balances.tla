------------------------------ MODULE Balances ------------------------------
(***************************************************************************)
(* BalancesService statement by statement (src/balances/balances.service). *)
(*                                                                         *)
(* The service opens no transaction: a caller's transaction (a session)    *)
(* runs one operation and then commits or rolls back.  Sessions interleave *)
(* between any two statements, under READ COMMITTED:                       *)
(*   - a statement sees what is committed and what its session wrote;      *)
(*   - a row a session wrote stays locked until it ends, and an UPDATE of  *)
(*     it waits, then evaluates its WHERE on the version it waited for;    *)
(*   - an INSERT ... ON CONFLICT DO NOTHING waits for a session that has   *)
(*     inserted the same unique key and not ended, even if it has deleted  *)
(*     its row since, then inserts 0 or 1.                                 *)
(***************************************************************************)
EXTENDS Integers, Sequences, FiniteSets

CONSTANTS
  Accounts, References, AccountOf, Amount,   \* as in Ledger
  Sessions,     \* database transactions that may be open at once
  Calls,        \* the operations callers may run, [op, ref] records
  MaxCalls,     \* bound: transactions begun in a behaviour
  NoRow,        \* a partner_balances row that does not exist
  NoClaim       \* a session that holds no ledger entry of its own

Ops == {"credit", "debit", "reserve", "confirm"}

ASSUME BalancesAssumption ==
  /\ IsFiniteSet(References)
  /\ AccountOf \in [References -> Accounts]
  /\ Amount \in [References -> Int]
  /\ Calls \subseteq [op : Ops, ref : References] /\ Calls # {}
  /\ MaxCalls \in Nat
  /\ NoRow \notin [available : Nat, pending : Nat]
  /\ NoClaim \notin [op : Ops, ref : References, after : Int]

VARIABLES
  rows,     \* partner_balances, committed: a wallet or NoRow per account
  ledger,   \* balance_ledger, committed, in the order of the commits
  pc,       \* the statement a session runs next
  call,     \* the operation a session runs
  draft,    \* the version of the account's row a session wrote, or NoRow
  claim,    \* the ledger entry a session inserted, or NoClaim
  inserted, \* sessions that inserted one, be it deleted since
  begun     \* transactions begun so far

vars == <<rows, ledger, pc, call, draft, claim, inserted, begun>>

\* The guards keep both columns from going negative.
Wallet == [available : Nat, pending : Nat]
Empty == [available |-> 0, pending |-> 0]
Entry == [op : Ops, ref : References, after : Int]
Steps == {"idle", "ensure", "claim", "move", "stamp", "returned", "threw"}

BalancesTypeOK ==
  /\ rows \in [Accounts -> Wallet \cup {NoRow}]
  /\ ledger \in Seq(Entry)
  /\ pc \in [Sessions -> Steps]
  /\ call \in [Sessions -> [op : Ops, ref : References]]
  /\ draft \in [Sessions -> Wallet \cup {NoRow}]
  /\ claim \in [Sessions -> Entry \cup {NoClaim}]
  /\ inserted \subseteq Sessions
  /\ begun \in 0 .. MaxCalls

Init ==
  /\ rows = [a \in Accounts |-> NoRow]
  /\ ledger = <<>>
  /\ pc = [s \in Sessions |-> "idle"]
  /\ call \in [Sessions -> {CHOOSE c \in Calls : TRUE}]
  /\ draft = [s \in Sessions |-> NoRow]
  /\ claim = [s \in Sessions |-> NoClaim]
  /\ inserted = {}
  /\ begun = 0

-----------------------------------------------------------------------------
Account(s) == AccountOf[call[s].ref]
Sum(s) == Amount[call[s].ref]

Direction(op) == IF op = "credit" THEN "CREDIT" ELSE "DEBIT"

\* Sessions other than s that hold an uncommitted version of the row.
RowHolders(s) == {t \in Sessions \ {s} : draft[t] # NoRow /\ Account(t) = Account(s)}

\* The unique key (reference_type, reference_id, direction).
SameKey(op, ref, e) == e.ref = ref /\ Direction(e.op) = Direction(op)

\* Mutant: a check before the insert instead of a unique index.
NoClaimants(s) == {}

\* Sessions other than s that hold the key in the unique index.
Claimants(s) == {t \in inserted \ {s} : SameKey(call[s].op, call[s].ref, call[t])}

Recorded(s) == \E i \in DOMAIN ledger : SameKey(call[s].op, call[s].ref, ledger[i])

\* The newest version of the row s may read or write.
Row(s) == IF draft[s] # NoRow THEN draft[s] ELSE rows[Account(s)]

\* Mutant: the reservation checks the balance before the UPDATE, not in it.
UnguardedReserve(op, row, amount) ==
  op = "confirm" => row.pending >= amount

\* The WHERE clause of the UPDATE each operation issues.
Guard(op, row, amount) ==
  CASE op = "credit" -> TRUE
    [] op \in {"debit", "reserve"} -> row.available >= amount
    [] op = "confirm" -> row.pending >= amount

\* The SET clause.
Moved(op, row, amount) ==
  CASE op = "credit" -> [row EXCEPT !.available = @ + amount]
    [] op = "debit" -> [row EXCEPT !.available = @ - amount]
    [] op = "reserve" -> [available |-> row.available - amount,
                          pending |-> row.pending + amount]
    [] op = "confirm" -> [row EXCEPT !.pending = @ - amount]

\* Mutant: the confirmation stamps what credits and debits stamp.
StampedAvailable(op, row) == row.available

\* The balance_after an entry is stamped with.
Stamped(op, row) ==
  IF op = "confirm" THEN row.available + row.pending ELSE row.available

Goto(s, step) == pc' = [pc EXCEPT ![s] = step]

-----------------------------------------------------------------------------
(* A caller begins a transaction and calls the service, which refuses an    *)
(* amount that is not positive before it issues a statement.                *)
Begin(s, c) ==
  /\ pc[s] = "idle"
  /\ begun < MaxCalls
  /\ begun' = begun + 1
  /\ call' = [call EXCEPT ![s] = c]
  /\ Goto(s, IF Amount[c.ref] > 0 THEN "ensure" ELSE "threw")
  /\ UNCHANGED <<rows, ledger, draft, claim, inserted>>

\* INSERT INTO partner_balances ... ON CONFLICT DO NOTHING.
EnsureRow(s) ==
  /\ pc[s] = "ensure"
  /\ rows[Account(s)] = NoRow => RowHolders(s) = {}
  /\ draft' = [draft EXCEPT ![s] =
                 IF rows[Account(s)] = NoRow THEN Empty ELSE NoRow]
  /\ Goto(s, IF call[s].op = "reserve" THEN "move" ELSE "claim")
  /\ UNCHANGED <<rows, ledger, call, claim, inserted, begun>>

\* INSERT INTO balance_ledger ... ON CONFLICT DO NOTHING: a reference that is
\* already in the ledger ends the operation with null.
Claim(s) ==
  /\ pc[s] = "claim"
  /\ Claimants(s) = {}
  /\ \/ /\ Recorded(s)
        /\ Goto(s, "returned")
        /\ UNCHANGED <<claim, inserted>>
     \/ /\ ~Recorded(s)
        /\ inserted' = inserted \cup {s}
        /\ claim' = [claim EXCEPT ![s] =
                       [op |-> call[s].op, ref |-> call[s].ref, after |-> 0]]
        /\ Goto(s, "move")
  /\ UNCHANGED <<rows, ledger, call, draft, begun>>

\* Mutant: a refused debit does not give its claim back.
MoveKeepingClaim(s) ==
  /\ pc[s] = "move"
  /\ RowHolders(s) = {}
  /\ LET allowed == Guard(call[s].op, Row(s), Sum(s)) IN
     /\ draft' = IF allowed
                 THEN [draft EXCEPT ![s] = Moved(call[s].op, Row(s), Sum(s))]
                 ELSE draft
     /\ Goto(s, IF ~allowed THEN "threw"
                ELSE IF call[s].op = "reserve" THEN "returned" ELSE "stamp")
  /\ UNCHANGED <<rows, ledger, call, claim, inserted, begun>>

\* The guarded UPDATE of the wallet.  When it moves no row the claim is given
\* back and the operation throws.
Move(s) ==
  /\ pc[s] = "move"
  /\ RowHolders(s) = {}
  /\ \/ /\ Guard(call[s].op, Row(s), Sum(s))
        /\ draft' = [draft EXCEPT ![s] = Moved(call[s].op, Row(s), Sum(s))]
        /\ Goto(s, IF call[s].op = "reserve" THEN "returned" ELSE "stamp")
        /\ UNCHANGED claim
     \/ /\ ~Guard(call[s].op, Row(s), Sum(s))
        /\ claim' = [claim EXCEPT ![s] = NoClaim]
        /\ Goto(s, "threw")
        /\ UNCHANGED draft
  /\ UNCHANGED <<rows, ledger, call, inserted, begun>>

\* UPDATE balance_ledger SET balance_after, from the row the UPDATE returned.
Stamp(s) ==
  /\ pc[s] = "stamp"
  /\ claim' = [claim EXCEPT ![s].after = Stamped(call[s].op, draft[s])]
  /\ Goto(s, "returned")
  /\ UNCHANGED <<rows, ledger, call, draft, inserted, begun>>

\* The payout worker answers a refused confirmation by releasing the hold in
\* the same transaction; a refused release is swallowed.
Release(s) ==
  /\ pc[s] = "threw" /\ call[s].op = "confirm"
  /\ \/ /\ Sum(s) > 0
        /\ RowHolders(s) = {}
        /\ Row(s).pending >= Sum(s)
        /\ draft' = [draft EXCEPT ![s] =
                       [available |-> Row(s).available + Sum(s),
                        pending |-> Row(s).pending - Sum(s)]]
     \/ /\ \/ Sum(s) <= 0
           \/ RowHolders(s) = {} /\ Row(s).pending < Sum(s)
        /\ UNCHANGED draft
  /\ Goto(s, "returned")
  /\ UNCHANGED <<rows, ledger, call, claim, inserted, begun>>

\* Mutant: a connection goes back to the pool with its transaction open.
EndKeepingLocks(s) == Goto(s, "idle") /\ UNCHANGED <<draft, claim, inserted, call, begun>>

End(s) ==
  /\ Goto(s, "idle")
  /\ draft' = [draft EXCEPT ![s] = NoRow]
  /\ claim' = [claim EXCEPT ![s] = NoClaim]
  /\ inserted' = inserted \ {s}
  /\ UNCHANGED <<call, begun>>

\* The caller of a refused direct debit records the failure and commits.
Commit(s) ==
  /\ \/ pc[s] = "returned"
     \/ pc[s] = "threw" /\ call[s].op = "debit"
  /\ rows' = IF draft[s] = NoRow THEN rows
             ELSE [rows EXCEPT ![Account(s)] = draft[s]]
  /\ ledger' = IF claim[s] = NoClaim THEN ledger ELSE Append(ledger, claim[s])
  /\ End(s)

\* An error the caller rethrows, a transaction timeout or a lost connection.
Rollback(s) ==
  /\ pc[s] # "idle"
  /\ End(s)
  /\ UNCHANGED <<rows, ledger>>

Statement(s) == EnsureRow(s) \/ Claim(s) \/ Move(s) \/ Stamp(s) \/ Release(s)

\* Every transaction has ended and the bound allows no other.
Finished ==
  /\ begun = MaxCalls
  /\ \A s \in Sessions : pc[s] = "idle"
  /\ UNCHANGED vars

Next ==
  \/ \E s \in Sessions :
       \/ \E c \in Calls : Begin(s, c)
       \/ EnsureRow(s)
       \/ Claim(s)
       \/ Move(s)
       \/ Stamp(s)
       \/ Release(s)
       \/ Commit(s)
       \/ Rollback(s)
  \/ Finished

(* The database executes what it is sent and the client ends what it began: *)
(* a credit or a reservation that threw is rolled back, anything else goes  *)
(* on to its commit.  Nothing forces a rollback of a healthy transaction.   *)
Fairness ==
  \A s \in Sessions :
    WF_vars(Statement(s) \/ Commit(s) \/ (pc[s] = "threw" /\ Rollback(s)))

Spec == Init /\ [][Next]_vars /\ Fairness

-----------------------------------------------------------------------------
(* A wallet without a row is an empty one, and the ledger is the set of its *)
(* keys: seen so, a committed transaction is one step of Ledger.            *)
Column(a, field) == IF rows[a] = NoRow THEN 0 ELSE rows[a][field]

\* The references of a direction among the first n of the entries.
RecordedAmong(entries, n, direction) ==
  {entries[i].ref : i \in {j \in 1 .. n : Direction(entries[j].op) = direction}}

RecordedIn(direction) == RecordedAmong(ledger, Len(ledger), direction)

Abstract == INSTANCE Ledger WITH
  available <- [a \in Accounts |-> Column(a, "available")],
  pending <- [a \in Accounts |-> Column(a, "pending")],
  credits <- RecordedIn("CREDIT"),
  debits <- RecordedIn("DEBIT")

-----------------------------------------------------------------------------
\* A reference enters the ledger at most once per direction, whatever replays
\* of it run at once: the unique index makes a later claim wait for the
\* earlier one and then find it (balances.service 174-189, 256-270).
OneEntryPerReference ==
  \A i, j \in DOMAIN ledger :
    SameKey(ledger[i].op, ledger[i].ref, ledger[j]) => i = j

\* The net of the account's among the first n entries, each of them a
\* reference of its own in its direction (OneEntryPerReference).
RunningTotal(entries, n, a) ==
  Abstract!Total(Abstract!Of(a, RecordedAmong(entries, n, "CREDIT")))
    - Abstract!Total(Abstract!Of(a, RecordedAmong(entries, n, "DEBIT")))

StampIsTotal(i) ==
  ledger[i].after = RunningTotal(ledger, i, AccountOf[ledger[i].ref])

\* A payout's entry records the total the account stood at right after it, in
\* the order the entries commit: the row lock the UPDATE takes lives until the
\* commit, so no other entry of the account slips in between (line 215-218).
ConfirmStampIsRunningTotal ==
  \A i \in DOMAIN ledger : ledger[i].op = "confirm" => StampIsTotal(i)

\* The same of every entry, "the balance the entry actually produced".
StampIsRunningTotal == \A i \in DOMAIN ledger : StampIsTotal(i)

\* No transaction waits forever for a lock: the balance row is inserted before
\* the entry is claimed and the entry is claimed before the row is updated, in
\* every operation, and whoever holds a lock gets to its end.
EveryTransactionEnds == \A s \in Sessions : pc[s] # "idle" ~> pc[s] = "idle"

\* Concurrent transactions move money as if each ran alone: every commit is
\* one atomic operation of the ledger, or none when the reference was already
\* applied or the operation refused.
ImplementsLedger == Abstract!LedgerSpec
=============================================================================
