---------------------------- MODULE BalancesProofs ----------------------------
(***************************************************************************)
(* The statements of concurrent transactions implement the atomic          *)
(* operations of Ledger, for any accounts, references and callers.         *)
(*                                                                         *)
(* What a session wrote is a function of the statement it runs next and of *)
(* the committed row (Wrote).  The row lock keeps that row from changing   *)
(* between the UPDATE and the commit (LocksInv), and the unique index      *)
(* keeps the claimed key out of the ledger (ClaimsInv, FreshInv), so the   *)
(* commit adds to the committed state exactly one operation of Ledger.     *)
(*                                                                         *)
(* What LedgerProofs shows of Ledger then holds of the committed tables    *)
(* (Money), and dates the stamp of a confirmation: it is computed from the *)
(* row before the commit, and the row is the ledger's net after it.        *)
(***************************************************************************)
EXTENDS Balances, TLAPS

\* Ledger with its theorems, of the committed tables.
Money == INSTANCE LedgerProofs WITH
  available <- [a \in Accounts |-> Column(a, "available")],
  pending <- [a \in Accounts |-> Column(a, "pending")],
  credits <- RecordedIn("CREDIT"),
  debits <- RecordedIn("DEBIT")

\* The wallet an operation moves: a missing row is an empty one.
Base(row) == IF row = NoRow THEN Empty ELSE row

\* d changes nothing of the wallet: no version, or the inserted empty row.
Unmoved(d, row) == d = NoRow \/ (d = Empty /\ row = NoRow)

HasRow(d, row) == d # NoRow \/ row # NoRow

ClaimOf(c, e) ==
  IF c.op = "reserve" THEN e = NoClaim
  ELSE e # NoClaim /\ e.op = c.op /\ e.ref = c.ref

\* The row is locked, and is what the operation made of the wallet.
Applied(c, d, e, row) ==
  /\ Amount[c.ref] > 0
  /\ Guard(c.op, Base(row), Amount[c.ref])
  /\ d = Moved(c.op, Base(row), Amount[c.ref])
  /\ ClaimOf(c, e)

Released(c, d, e, row) ==
  /\ Amount[c.ref] > 0
  /\ Base(row).pending >= Amount[c.ref]
  /\ d = [available |-> Base(row).available + Amount[c.ref],
          pending |-> Base(row).pending - Amount[c.ref]]
  /\ e = NoClaim

\* What a session has written, by the statement it runs next: c its call, d
\* its version of the row, e its entry, row the committed version.
Wrote(step, c, d, e, row) ==
  /\ step \in {"idle", "ensure"} => d = NoRow /\ e = NoClaim
  /\ step \in {"ensure", "claim", "move"} => Amount[c.ref] > 0
  /\ step \in {"claim", "move"} => Unmoved(d, row) /\ HasRow(d, row)
  /\ step = "claim" => e = NoClaim /\ c.op # "reserve"
  /\ step = "move" => ClaimOf(c, e)
  /\ step = "stamp" => Applied(c, d, e, row) /\ c.op # "reserve"
  /\ step = "returned" => \/ Unmoved(d, row) /\ e = NoClaim
                          \/ /\ Applied(c, d, e, row)
                             /\ c.op = "confirm" => e.after = d.available + d.pending
                          \/ Released(c, d, e, row)
  /\ step = "threw" => /\ Unmoved(d, row) /\ e = NoClaim
                       /\ Amount[c.ref] > 0 => HasRow(d, row)

WrittenInv ==
  \A s \in Sessions :
    Wrote(pc[s], call[s], draft[s], claim[s], rows[AccountOf[call[s].ref]])

\* One session at a time holds a version of an account's row.
LocksInv ==
  \A s, t \in Sessions :
    draft[s] # NoRow /\ draft[t] # NoRow
    /\ AccountOf[call[s].ref] = AccountOf[call[t].ref] => s = t

\* One session at a time holds an entry of a key, and no key it holds is in
\* the ledger.
ClaimsInv ==
  \A s, t \in Sessions :
    claim[s] # NoClaim /\ claim[t] # NoClaim
    /\ SameKey(claim[s].op, claim[s].ref, claim[t]) => s = t

FreshInv ==
  \A s \in Sessions : claim[s] # NoClaim =>
    \A i \in DOMAIN ledger : ~SameKey(claim[s].op, claim[s].ref, ledger[i])

Inv == BalancesTypeOK /\ WrittenInv /\ LocksInv /\ ClaimsInv /\ FreshInv /\ OneEntryPerReference

\* Who inserted an entry of a key keeps the key to itself until it ends, and
\* has a row to move by then.
KeysInv ==
  /\ \A s \in Sessions : claim[s] # NoClaim => s \in inserted
  /\ \A s \in inserted : /\ pc[s] \in {"move", "stamp", "returned", "threw"}
                         /\ HasRow(draft[s], rows[AccountOf[call[s].ref]])
  /\ \A s, t \in inserted : SameKey(call[s].op, call[s].ref, call[t]) => s = t

-----------------------------------------------------------------------------
\* A guarded UPDATE leaves a wallet, never a negative column.
LEMMA MovedIsWallet ==
  ASSUME NEW op \in Ops, NEW row \in Wallet, NEW n \in Int, n > 0, Guard(op, row, n)
  PROVE  Moved(op, row, n) \in Wallet
<1>1. CASE op = "credit"
  BY <1>1 DEF Moved, Guard, Wallet
<1>2. CASE op = "debit"
  BY <1>2 DEF Moved, Guard, Wallet
<1>3. CASE op = "reserve"
  BY <1>3 DEF Moved, Guard, Wallet
<1>4. CASE op = "confirm"
  BY <1>4 DEF Moved, Guard, Wallet
<1>5. QED BY <1>1, <1>2, <1>3, <1>4 DEF Ops

\* A wallet and a missing row, an entry and no entry, are told apart.
LEMMA Apart == NoRow \notin Wallet /\ Empty \in Wallet /\ Empty # NoRow /\ NoClaim \notin Entry
BY BalancesAssumption DEF Wallet, Entry, Empty

\* What a session is, by its types.
LEMMA SessionTypes ==
  ASSUME BalancesTypeOK, NEW s \in Sessions
  PROVE  /\ call[s].op \in Ops /\ call[s].ref \in References
         /\ Account(s) \in Accounts /\ Sum(s) \in Int
         /\ rows[Account(s)] \in Wallet \cup {NoRow}
         /\ draft[s] \in Wallet \cup {NoRow}
         /\ claim[s] \in Entry \cup {NoClaim}
         /\ Base(rows[Account(s)]) \in Wallet
<1>1. call[s] \in [op : Ops, ref : References]
  BY DEF BalancesTypeOK
<1>2. call[s].op \in Ops /\ call[s].ref \in References
  BY <1>1
<1>3. Account(s) \in Accounts /\ Sum(s) \in Int
  BY <1>2, BalancesAssumption DEF Account, Sum
<1>4. rows[Account(s)] \in Wallet \cup {NoRow}
  BY <1>3 DEF BalancesTypeOK
<1>5. draft[s] \in Wallet \cup {NoRow} /\ claim[s] \in Entry \cup {NoClaim}
  BY DEF BalancesTypeOK
<1>6. QED BY <1>2, <1>3, <1>4, <1>5, Apart DEF Base

\* While a session holds an unmoved version, the row it reads is the wallet.
LEMMA RowIsBase ==
  ASSUME NEW s \in Sessions, Unmoved(draft[s], rows[Account(s)]), HasRow(draft[s], rows[Account(s)])
  PROVE  Row(s) = Base(rows[Account(s)])
BY Apart DEF Unmoved, HasRow, Row, Base

\* The entry a session holds is of the operation it runs.
LEMMA ClaimIsOfCall ==
  ASSUME Inv, NEW t \in Sessions, claim[t] # NoClaim
  PROVE  claim[t].op = call[t].op /\ claim[t].ref = call[t].ref
<1>1. BalancesTypeOK /\ Wrote(pc[t], call[t], draft[t], claim[t], rows[AccountOf[call[t].ref]])
  BY DEF Inv, WrittenInv
<1>2. ClaimOf(call[t], claim[t])
  BY <1>1 DEF BalancesTypeOK, Steps, Wrote, Applied, Released
<1>3. QED BY <1>2 DEF ClaimOf

-----------------------------------------------------------------------------
LEMMA InitInv == ASSUME Init PROVE Inv /\ KeysInv
<1>1. (CHOOSE c \in Calls : TRUE) \in [op : Ops, ref : References]
  BY BalancesAssumption
<1>2. BalancesTypeOK
  BY <1>1, BalancesAssumption DEF Init, BalancesTypeOK, Steps
<1>3. WrittenInv
  BY DEF Init, WrittenInv, Wrote
<1>4. LocksInv /\ ClaimsInv /\ FreshInv /\ OneEntryPerReference
  BY DEF Init, LocksInv, ClaimsInv, FreshInv, OneEntryPerReference
<1>5. KeysInv
  BY DEF Init, KeysInv
<1>6. QED BY <1>2, <1>3, <1>4, <1>5 DEF Inv

\* The steps that leave the other sessions and the committed state alone: the
\* invariant is a matter of the session that takes them.
LEMMA LocalStep ==
  ASSUME Inv, BalancesTypeOK', NEW s \in Sessions,
         UNCHANGED <<rows, ledger>>,
         \A t \in Sessions \ {s} : /\ pc'[t] = pc[t] /\ call'[t] = call[t]
                                   /\ draft'[t] = draft[t] /\ claim'[t] = claim[t],
         Wrote(pc'[s], call'[s], draft'[s], claim'[s], rows[AccountOf[call'[s].ref]]),
         draft'[s] # NoRow =>
           \A t \in Sessions \ {s} :
             draft[t] # NoRow => AccountOf[call[t].ref] # AccountOf[call'[s].ref],
         claim'[s] # NoClaim =>
           /\ \A t \in Sessions \ {s} :
                claim[t] # NoClaim => ~SameKey(claim'[s].op, claim'[s].ref, claim[t])
           /\ \A i \in DOMAIN ledger : ~SameKey(claim'[s].op, claim'[s].ref, ledger[i])
  PROVE  Inv'
<1>1. WrittenInv'
  BY DEF Inv, WrittenInv
<1>2. LocksInv'
  BY DEF Inv, LocksInv
<1>3. ClaimsInv'
  BY DEF Inv, ClaimsInv, SameKey
<1>4. FreshInv'
  BY DEF Inv, FreshInv
<1>5. OneEntryPerReference'
  BY DEF Inv, OneEntryPerReference
<1>6. QED BY <1>1, <1>2, <1>3, <1>4, <1>5 DEF Inv

LEMMA BeginInv ==
  ASSUME Inv, NEW s \in Sessions, NEW c \in Calls, Begin(s, c) PROVE Inv'
<1>1. BalancesTypeOK /\ c \in [op : Ops, ref : References]
  BY BalancesAssumption DEF Inv
<1>2. BalancesTypeOK'
  BY <1>1, BalancesAssumption DEF Begin, Goto, BalancesTypeOK, Steps
<1>3. draft[s] = NoRow /\ claim[s] = NoClaim
  BY DEF Inv, WrittenInv, Wrote, Begin
<1>4. call'[s] = c /\ pc'[s] = IF Amount[c.ref] > 0 THEN "ensure" ELSE "threw"
  BY <1>1 DEF Begin, Goto, BalancesTypeOK
<1>5. draft'[s] = NoRow /\ claim'[s] = NoClaim
  BY <1>3 DEF Begin
<1>6. Wrote(pc'[s], call'[s], draft'[s], claim'[s], rows[AccountOf[call'[s].ref]])
  BY <1>4, <1>5 DEF Wrote, Unmoved
<1>7. \A t \in Sessions \ {s} : /\ pc'[t] = pc[t] /\ call'[t] = call[t]
                                /\ draft'[t] = draft[t] /\ claim'[t] = claim[t]
  BY <1>1 DEF Begin, Goto, BalancesTypeOK
<1>8. UNCHANGED <<rows, ledger>>
  BY DEF Begin
<1>9. QED BY <1>2, <1>5, <1>6, <1>7, <1>8, LocalStep

LEMMA EnsureRowInv ==
  ASSUME Inv, NEW s \in Sessions, EnsureRow(s) PROVE Inv'
<1>1. BalancesTypeOK /\ draft[s] = NoRow /\ claim[s] = NoClaim /\ Sum(s) > 0
  BY DEF Inv, WrittenInv, Wrote, EnsureRow, Sum
<1>2. BalancesTypeOK'
  BY <1>1, Apart DEF EnsureRow, Goto, BalancesTypeOK, Steps
<1>3. /\ pc'[s] = IF call[s].op = "reserve" THEN "move" ELSE "claim"
      /\ call'[s] = call[s] /\ claim'[s] = NoClaim
      /\ draft'[s] = IF rows[Account(s)] = NoRow THEN Empty ELSE NoRow
  BY <1>1 DEF EnsureRow, Goto, BalancesTypeOK
<1>4. Wrote(pc'[s], call'[s], draft'[s], claim'[s], rows[AccountOf[call'[s].ref]])
  BY <1>1, <1>3, Apart DEF Wrote, Unmoved, HasRow, ClaimOf, Sum, Account
<1>5. \A t \in Sessions \ {s} : /\ pc'[t] = pc[t] /\ call'[t] = call[t]
                                /\ draft'[t] = draft[t] /\ claim'[t] = claim[t]
  BY <1>1 DEF EnsureRow, Goto, BalancesTypeOK
<1>6. draft'[s] # NoRow => RowHolders(s) = {}
  BY <1>3 DEF EnsureRow
<1>7. draft'[s] # NoRow =>
        \A t \in Sessions \ {s} :
          draft[t] # NoRow => AccountOf[call[t].ref] # AccountOf[call'[s].ref]
  BY <1>3, <1>6 DEF RowHolders, Account
<1>8. UNCHANGED <<rows, ledger>>
  BY DEF EnsureRow
<1>9. QED BY <1>2, <1>3, <1>4, <1>5, <1>7, <1>8, LocalStep

LEMMA ClaimInv ==
  ASSUME Inv, KeysInv, NEW s \in Sessions, Claim(s) PROVE Inv'
<1>1. /\ BalancesTypeOK /\ claim[s] = NoClaim /\ Sum(s) > 0 /\ call[s].op # "reserve"
      /\ Unmoved(draft[s], rows[Account(s)]) /\ HasRow(draft[s], rows[Account(s)])
  BY DEF Inv, WrittenInv, Wrote, Claim, Sum, Account
<1>2. UNCHANGED <<rows, ledger, call, draft>>
  BY DEF Claim
<1>3. \A t \in Sessions \ {s} : pc'[t] = pc[t] /\ claim'[t] = claim[t]
  BY <1>1 DEF Claim, Goto, BalancesTypeOK
<1>4. draft'[s] # NoRow =>
        \A t \in Sessions \ {s} :
          draft[t] # NoRow => AccountOf[call[t].ref] # AccountOf[call'[s].ref]
  BY <1>2 DEF Inv, LocksInv
<1>5. CASE Recorded(s)
  <2>1. pc'[s] = "returned" /\ claim' = claim
    BY <1>1, <1>5 DEF Claim, Goto, BalancesTypeOK
  <2>2. BalancesTypeOK'
    BY <1>1, <1>2, <1>5, <2>1 DEF Claim, Goto, BalancesTypeOK, Steps
  <2>3. Wrote(pc'[s], call'[s], draft'[s], claim'[s], rows[AccountOf[call'[s].ref]])
    BY <1>1, <1>2, <2>1 DEF Wrote, Account
  <2>4. QED BY <1>1, <1>2, <1>3, <1>4, <2>1, <2>2, <2>3, LocalStep
<1>6. CASE ~Recorded(s)
  <2> DEFINE e == [op |-> call[s].op, ref |-> call[s].ref, after |-> 0]
  <2>1. pc'[s] = "move" /\ claim' = [claim EXCEPT ![s] = e] /\ claim'[s] = e
    BY <1>1, <1>6 DEF Claim, Goto, BalancesTypeOK
  <2>2. e \in Entry /\ e # NoClaim
    BY <1>1, SessionTypes, Apart DEF Entry
  <2>3. BalancesTypeOK'
    BY <1>1, <1>2, <1>6, <2>1, <2>2 DEF Claim, Goto, BalancesTypeOK, Steps
  <2>4. Wrote(pc'[s], call'[s], draft'[s], claim'[s], rows[AccountOf[call'[s].ref]])
    BY <1>1, <1>2, <2>1, <2>2 DEF Wrote, Account, Sum, ClaimOf
  <2>5. Claimants(s) = {}
    BY DEF Claim
  <2>6. \A t \in Sessions \ {s} :
          claim[t] # NoClaim => ~SameKey(claim'[s].op, claim'[s].ref, claim[t])
    <3> SUFFICES ASSUME NEW t \in Sessions \ {s}, claim[t] # NoClaim
                 PROVE  ~SameKey(e.op, e.ref, claim[t])
      BY <2>1
    <3>1. t \in inserted /\ ~SameKey(call[s].op, call[s].ref, call[t])
      BY <2>5 DEF Claimants, KeysInv
    <3>2. claim[t].op = call[t].op /\ claim[t].ref = call[t].ref
      BY ClaimIsOfCall
    <3>3. QED BY <3>1, <3>2 DEF SameKey
  <2>7. \A i \in DOMAIN ledger : ~SameKey(claim'[s].op, claim'[s].ref, ledger[i])
    BY <1>6, <2>1 DEF Recorded
  <2>8. QED BY <1>2, <1>3, <1>4, <2>3, <2>4, <2>6, <2>7, LocalStep
<1>7. QED BY <1>5, <1>6

\* A lock the session needs is held by nobody else.
LEMMA LockIsFree ==
  ASSUME NEW s \in Sessions, RowHolders(s) = {}
  PROVE  \A t \in Sessions \ {s} :
           draft[t] # NoRow => AccountOf[call[t].ref] # AccountOf[call[s].ref]
BY DEF RowHolders, Account

LEMMA MoveInv ==
  ASSUME Inv, NEW s \in Sessions, Move(s) PROVE Inv'
<1>1. /\ BalancesTypeOK /\ Sum(s) > 0 /\ ClaimOf(call[s], claim[s])
      /\ Unmoved(draft[s], rows[Account(s)]) /\ HasRow(draft[s], rows[Account(s)])
  BY DEF Inv, WrittenInv, Wrote, Move, Sum, Account
<1>2. UNCHANGED <<rows, ledger, call, inserted>> /\ begun' = begun
  BY DEF Move
<1>3. \A t \in Sessions \ {s} : pc'[t] = pc[t] /\ claim'[t] = claim[t] /\ draft'[t] = draft[t]
  BY <1>1 DEF Move, Goto, BalancesTypeOK
<1>4. \A t \in Sessions \ {s} :
        draft[t] # NoRow => AccountOf[call[t].ref] # AccountOf[call'[s].ref]
  BY <1>2, LockIsFree DEF Move
<1>5. claim'[s] # NoClaim => claim'[s] = claim[s]
  BY <1>1 DEF Move, BalancesTypeOK
<1>6. claim'[s] # NoClaim =>
        /\ \A t \in Sessions \ {s} :
             claim[t] # NoClaim => ~SameKey(claim'[s].op, claim'[s].ref, claim[t])
        /\ \A i \in DOMAIN ledger : ~SameKey(claim'[s].op, claim'[s].ref, ledger[i])
  BY <1>5 DEF Inv, ClaimsInv, FreshInv
<1>7. Row(s) = Base(rows[Account(s)])
  BY <1>1, RowIsBase
<1>8. CASE Guard(call[s].op, Row(s), Sum(s))
  <2> DEFINE d == Moved(call[s].op, Row(s), Sum(s))
  <2>1. d \in Wallet
    BY <1>1, <1>7, <1>8, SessionTypes, MovedIsWallet
  <2>2. /\ pc' = [pc EXCEPT ![s] = IF call[s].op = "reserve" THEN "returned" ELSE "stamp"]
        /\ draft' = [draft EXCEPT ![s] = d] /\ claim' = claim
    BY <1>8 DEF Move, Goto
  <2> HIDE DEF d
  <2>3. BalancesTypeOK'
    BY <1>1, <1>2, <2>1, <2>2 DEF BalancesTypeOK, Steps
  <2>4. /\ pc'[s] = IF call[s].op = "reserve" THEN "returned" ELSE "stamp"
        /\ draft'[s] = d
    BY <1>1, <2>2 DEF BalancesTypeOK
  <2>5. Applied(call[s], d, claim[s], rows[Account(s)])
    BY <1>1, <1>7, <1>8 DEF Applied, Sum, d
  <2>6. Wrote(pc'[s], call'[s], draft'[s], claim'[s], rows[AccountOf[call'[s].ref]])
    BY <1>2, <2>2, <2>4, <2>5 DEF Wrote, Account
  <2>7. QED BY <1>2, <1>3, <1>4, <1>6, <2>3, <2>6, LocalStep
<1>9. CASE ~Guard(call[s].op, Row(s), Sum(s))
  <2>1. /\ pc' = [pc EXCEPT ![s] = "threw"] /\ draft' = draft
        /\ claim' = [claim EXCEPT ![s] = NoClaim]
    BY <1>9 DEF Move, Goto
  <2>2. BalancesTypeOK'
    BY <1>1, <1>2, <2>1 DEF BalancesTypeOK, Steps
  <2>3. pc'[s] = "threw" /\ claim'[s] = NoClaim
    BY <1>1, <2>1 DEF BalancesTypeOK
  <2>4. Wrote(pc'[s], call'[s], draft'[s], claim'[s], rows[AccountOf[call'[s].ref]])
    BY <1>1, <1>2, <2>1, <2>3 DEF Wrote, Account
  <2>5. QED BY <1>2, <1>3, <1>4, <1>6, <2>2, <2>4, LocalStep
<1>10. QED BY <1>8, <1>9

LEMMA StampInv ==
  ASSUME Inv, NEW s \in Sessions, Stamp(s) PROVE Inv'
<1>1. /\ BalancesTypeOK /\ Applied(call[s], draft[s], claim[s], rows[Account(s)])
      /\ call[s].op # "reserve" /\ claim[s] \in Entry
  BY SessionTypes DEF Inv, WrittenInv, Wrote, Stamp, Account, Applied, ClaimOf
<1>2. UNCHANGED <<rows, ledger, call, draft, inserted>> /\ begun' = begun
  BY DEF Stamp
<1>3. draft[s] \in Wallet
  BY <1>1, SessionTypes, MovedIsWallet DEF Applied, Sum
<1>4. Stamped(call[s].op, draft[s]) \in Int
  BY <1>3 DEF Stamped, Wallet
<1>5. claim'[s] = [claim[s] EXCEPT !.after = Stamped(call[s].op, draft[s])]
  BY <1>1 DEF Stamp, BalancesTypeOK
<1>6. claim'[s] \in Entry /\ claim'[s].op = claim[s].op /\ claim'[s].ref = claim[s].ref
  BY <1>1, <1>4, <1>5 DEF Entry
<1>7. pc'[s] = "returned"
  BY <1>1 DEF Stamp, Goto, BalancesTypeOK
<1>8. \A t \in Sessions \ {s} : pc'[t] = pc[t] /\ claim'[t] = claim[t]
  BY <1>1 DEF Stamp, Goto, BalancesTypeOK
<1>9. pc' = [pc EXCEPT ![s] = "returned"]
      /\ claim' = [claim EXCEPT ![s] = [claim[s] EXCEPT !.after = Stamped(call[s].op, draft[s])]]
  BY DEF Stamp, Goto
<1>10. BalancesTypeOK'
  BY <1>1, <1>2, <1>4, <1>5, <1>6, <1>9 DEF BalancesTypeOK, Steps
<1>11. Wrote(pc'[s], call'[s], draft'[s], claim'[s], rows[AccountOf[call'[s].ref]])
  <2>1. Applied(call[s], draft[s], claim'[s], rows[Account(s)])
    BY <1>1, <1>6, Apart DEF Applied, ClaimOf
  <2>2. call[s].op = "confirm" => claim'[s].after = draft[s].available + draft[s].pending
    BY <1>1, <1>5 DEF Stamped, Entry
  <2>3. QED BY <1>2, <1>7, <2>1, <2>2 DEF Wrote, Account
<1>12. claim[s] # NoClaim
  BY <1>1, Apart
<1>13. /\ \A t \in Sessions \ {s} :
            claim[t] # NoClaim => ~SameKey(claim'[s].op, claim'[s].ref, claim[t])
       /\ \A i \in DOMAIN ledger : ~SameKey(claim'[s].op, claim'[s].ref, ledger[i])
  BY <1>6, <1>12 DEF Inv, ClaimsInv, FreshInv
<1>14. draft'[s] # NoRow =>
        \A t \in Sessions \ {s} :
          draft[t] # NoRow => AccountOf[call[t].ref] # AccountOf[call'[s].ref]
  BY <1>2 DEF Inv, LocksInv
<1>15. QED BY <1>2, <1>8, <1>10, <1>11, <1>13, <1>14, LocalStep

LEMMA ReleaseInv ==
  ASSUME Inv, NEW s \in Sessions, Release(s) PROVE Inv'
<1>1. /\ BalancesTypeOK /\ claim[s] = NoClaim /\ Unmoved(draft[s], rows[Account(s)])
      /\ Sum(s) > 0 => HasRow(draft[s], rows[Account(s)])
  BY DEF Inv, WrittenInv, Wrote, Release, Sum, Account
<1>2. UNCHANGED <<rows, ledger, call, claim, inserted>> /\ begun' = begun
  BY DEF Release
<1>3. \A t \in Sessions \ {s} : pc'[t] = pc[t] /\ draft'[t] = draft[t]
  BY <1>1 DEF Release, Goto, BalancesTypeOK
<1>4. pc' = [pc EXCEPT ![s] = "returned"] /\ pc'[s] = "returned"
  BY <1>1 DEF Release, Goto, BalancesTypeOK
<1>5. CASE draft' = draft
  <2>1. BalancesTypeOK'
    BY <1>1, <1>2, <1>4, <1>5 DEF BalancesTypeOK, Steps
  <2>2. Wrote(pc'[s], call'[s], draft'[s], claim'[s], rows[AccountOf[call'[s].ref]])
    BY <1>1, <1>2, <1>4, <1>5 DEF Wrote, Account
  <2>3. draft'[s] # NoRow =>
          \A t \in Sessions \ {s} :
            draft[t] # NoRow => AccountOf[call[t].ref] # AccountOf[call'[s].ref]
    BY <1>2, <1>5 DEF Inv, LocksInv
  <2>4. QED BY <1>1, <1>2, <1>3, <2>1, <2>2, <2>3, LocalStep
<1>6. CASE draft' # draft
  <2> DEFINE d == [available |-> Row(s).available + Sum(s), pending |-> Row(s).pending - Sum(s)]
  <2>1. /\ Sum(s) > 0 /\ RowHolders(s) = {} /\ Row(s).pending >= Sum(s)
        /\ draft' = [draft EXCEPT ![s] = d]
    BY <1>6 DEF Release
  <2>2. Row(s) = Base(rows[Account(s)])
    BY <1>1, <2>1, RowIsBase
  <2>3. Row(s) \in Wallet /\ Sum(s) \in Int
    BY <1>1, <2>2, SessionTypes
  <2>4. d \in Wallet
    BY <2>1, <2>3 DEF Wallet
  <2>5. Released(call[s], d, claim[s], rows[Account(s)])
    BY <1>1, <2>1, <2>2 DEF Released, Sum
  <2> HIDE DEF d
  <2>6. BalancesTypeOK' /\ draft'[s] = d
    BY <1>1, <1>2, <1>4, <2>1, <2>4 DEF BalancesTypeOK, Steps
  <2>7. Wrote(pc'[s], call'[s], draft'[s], claim'[s], rows[AccountOf[call'[s].ref]])
    BY <1>2, <1>4, <2>5, <2>6 DEF Wrote, Account
  <2>8. \A t \in Sessions \ {s} :
          draft[t] # NoRow => AccountOf[call[t].ref] # AccountOf[call'[s].ref]
    BY <1>2, <2>1, LockIsFree
  <2>9. QED BY <1>1, <1>2, <1>3, <2>6, <2>7, <2>8, LocalStep
<1>7. QED BY <1>5, <1>6

LEMMA RollbackInv ==
  ASSUME Inv, NEW s \in Sessions, Rollback(s) PROVE Inv'
<1>1. BalancesTypeOK
  BY DEF Inv
<1>2. /\ pc' = [pc EXCEPT ![s] = "idle"] /\ draft' = [draft EXCEPT ![s] = NoRow]
      /\ claim' = [claim EXCEPT ![s] = NoClaim] /\ UNCHANGED <<rows, ledger, call, begun>>
      /\ inserted' = inserted \ {s}
  BY DEF Rollback, End, Goto
<1>3. BalancesTypeOK'
  BY <1>1, <1>2 DEF BalancesTypeOK, Steps
<1>4. pc'[s] = "idle" /\ draft'[s] = NoRow /\ claim'[s] = NoClaim
  BY <1>1, <1>2 DEF BalancesTypeOK
<1>5. \A t \in Sessions \ {s} : /\ pc'[t] = pc[t] /\ call'[t] = call[t]
                                /\ draft'[t] = draft[t] /\ claim'[t] = claim[t]
  BY <1>1, <1>2 DEF BalancesTypeOK
<1>6. Wrote(pc'[s], call'[s], draft'[s], claim'[s], rows[AccountOf[call'[s].ref]])
  BY <1>4 DEF Wrote
<1>7. QED BY <1>2, <1>3, <1>4, <1>5, <1>6, LocalStep

\* A version of the row is a wallet: a session with one that moved money
\* leaves a wallet to commit.
LEMMA VersionIsWallet ==
  ASSUME BalancesTypeOK, NEW s \in Sessions,
         Applied(call[s], draft[s], claim[s], rows[Account(s)])
         \/ Released(call[s], draft[s], claim[s], rows[Account(s)])
  PROVE  draft[s] \in Wallet /\ draft[s] # NoRow
<1>1. CASE Applied(call[s], draft[s], claim[s], rows[Account(s)])
  BY <1>1, SessionTypes, MovedIsWallet, Apart DEF Applied, Sum
<1>2. CASE Released(call[s], draft[s], claim[s], rows[Account(s)])
  BY <1>2, SessionTypes, Apart DEF Released, Sum, Wallet
<1>3. QED BY <1>1, <1>2

\* What commits, of the facts about the session that commits it.
LEMMA CommitFacts ==
  ASSUME Inv, NEW s \in Sessions, Commit(s)
  PROVE  /\ pc' = [pc EXCEPT ![s] = "idle"] /\ draft' = [draft EXCEPT ![s] = NoRow]
         /\ claim' = [claim EXCEPT ![s] = NoClaim] /\ UNCHANGED <<call, begun>>
         /\ inserted' = inserted \ {s}
         /\ rows' = IF draft[s] = NoRow THEN rows
                    ELSE [rows EXCEPT ![Account(s)] = draft[s]]
         /\ ledger' = IF claim[s] = NoClaim THEN ledger ELSE Append(ledger, claim[s])
         /\ \/ Unmoved(draft[s], rows[Account(s)]) /\ claim[s] = NoClaim
            \/ /\ Applied(call[s], draft[s], claim[s], rows[Account(s)])
               /\ call[s].op = "confirm" =>
                    claim[s].after = draft[s].available + draft[s].pending
            \/ Released(call[s], draft[s], claim[s], rows[Account(s)])
BY DEF Inv, WrittenInv, Wrote, Commit, End, Goto, Account

\* The committed entry's place in the ledger.
LEMMA AppendedEntries ==
  ASSUME BalancesTypeOK, NEW e \in Entry, ledger' = Append(ledger, e)
  PROVE  /\ DOMAIN ledger = 1 .. Len(ledger) /\ Len(ledger) \in Nat
         /\ DOMAIN ledger' = 1 .. Len(ledger) + 1
         /\ \A i \in DOMAIN ledger : ledger'[i] = ledger[i]
         /\ ledger'[Len(ledger) + 1] = e /\ Len(ledger') = Len(ledger) + 1
         /\ ledger' \in Seq(Entry)
BY DEF BalancesTypeOK

\* A commit of another session moves no row this one reads or holds, except
\* a row this one has seen and not locked.
LEMMA OthersStandUnderCommit ==
  ASSUME Inv, NEW s \in Sessions, NEW t \in Sessions \ {s}, Commit(s)
  PROVE  Wrote(pc[t], call[t], draft[t], claim[t], rows'[AccountOf[call[t].ref]])
<1>1. BalancesTypeOK /\ Wrote(pc[t], call[t], draft[t], claim[t], rows[AccountOf[call[t].ref]])
  BY DEF Inv, WrittenInv
<1>2. CASE draft[s] = NoRow \/ AccountOf[call[t].ref] # Account(s)
  <2>1. rows'[AccountOf[call[t].ref]] = rows[AccountOf[call[t].ref]]
    BY <1>1, <1>2, CommitFacts, SessionTypes DEF BalancesTypeOK, Account
  <2>2. QED BY <1>1, <2>1
<1>3. CASE draft[s] # NoRow /\ AccountOf[call[t].ref] = Account(s)
  <2>1. draft[t] = NoRow
    BY <1>3 DEF Inv, LocksInv, Account
  <2>2. rows'[AccountOf[call[t].ref]] = draft[s]
    BY <1>1, <1>3, CommitFacts, SessionTypes DEF BalancesTypeOK
  <2>3. ~Applied(call[t], draft[t], claim[t], rows[AccountOf[call[t].ref]])
        /\ ~Released(call[t], draft[t], claim[t], rows[AccountOf[call[t].ref]])
    BY <1>1, <2>1, VersionIsWallet DEF Account
  <2>4. QED BY <1>1, <1>3, <2>1, <2>2, <2>3 DEF Wrote, Unmoved, HasRow
<1>4. QED BY <1>2, <1>3

LEMMA CommitInv ==
  ASSUME Inv, NEW s \in Sessions, Commit(s) PROVE Inv'
<1>1. BalancesTypeOK /\ claim[s] \in Entry \cup {NoClaim}
  BY SessionTypes DEF Inv
<1>2. draft[s] = NoRow \/ draft[s] \in Wallet
  BY <1>1, SessionTypes
<1>3. ledger' \in Seq(Entry)
  <2>1. CASE claim[s] = NoClaim
    BY <1>1, <2>1, CommitFacts DEF BalancesTypeOK
  <2>2. CASE claim[s] # NoClaim
    BY <1>1, <2>2, CommitFacts, AppendedEntries
  <2>3. QED BY <2>1, <2>2
<1>4. rows' \in [Accounts -> Wallet \cup {NoRow}]
  BY <1>1, <1>2, CommitFacts DEF BalancesTypeOK
<1>5. BalancesTypeOK'
  BY <1>1, <1>3, <1>4, CommitFacts DEF BalancesTypeOK, Steps
<1>6. /\ pc'[s] = "idle" /\ draft'[s] = NoRow /\ claim'[s] = NoClaim
      /\ \A t \in Sessions \ {s} : /\ pc'[t] = pc[t] /\ draft'[t] = draft[t]
                                   /\ claim'[t] = claim[t]
      /\ call' = call
  BY <1>1, CommitFacts DEF BalancesTypeOK
<1>7. WrittenInv'
  <2> SUFFICES ASSUME NEW t \in Sessions
               PROVE  Wrote(pc'[t], call'[t], draft'[t], claim'[t], rows'[AccountOf[call'[t].ref]])
    BY DEF WrittenInv
  <2>1. CASE t = s
    BY <1>6, <2>1 DEF Wrote
  <2>2. CASE t # s
    BY <1>6, <2>2, OthersStandUnderCommit
  <2>3. QED BY <2>1, <2>2
<1>8. LocksInv' /\ ClaimsInv'
  BY <1>6 DEF Inv, LocksInv, ClaimsInv
<1>9. CASE claim[s] = NoClaim
  <2>1. ledger' = ledger
    BY <1>9, CommitFacts
  <2>2. FreshInv' /\ OneEntryPerReference'
    BY <1>6, <2>1 DEF Inv, FreshInv, OneEntryPerReference
  <2>3. QED BY <1>5, <1>7, <1>8, <2>2 DEF Inv
<1>10. CASE claim[s] # NoClaim
  <2>1. claim[s] \in Entry /\ ledger' = Append(ledger, claim[s])
    BY <1>1, <1>10, CommitFacts
  <2>2. /\ DOMAIN ledger = 1 .. Len(ledger) /\ Len(ledger) \in Nat
        /\ DOMAIN ledger' = 1 .. Len(ledger) + 1
        /\ \A i \in DOMAIN ledger : ledger'[i] = ledger[i]
        /\ ledger'[Len(ledger) + 1] = claim[s]
    BY <1>1, <2>1, AppendedEntries
  <2>3. \A i \in DOMAIN ledger' : i \in DOMAIN ledger \/ i = Len(ledger) + 1
    BY <2>2
  <2>4. \A i \in DOMAIN ledger : ~SameKey(claim[s].op, claim[s].ref, ledger[i])
    BY <1>10 DEF Inv, FreshInv
  <2>5. FreshInv'
    <3> SUFFICES ASSUME NEW t \in Sessions, claim'[t] # NoClaim, NEW i \in DOMAIN ledger'
                 PROVE  ~SameKey(claim'[t].op, claim'[t].ref, ledger'[i])
      BY DEF FreshInv
    <3>1. t # s /\ claim'[t] = claim[t]
      BY <1>6
    <3>2. CASE i \in DOMAIN ledger
      BY <2>2, <3>1, <3>2 DEF Inv, FreshInv
    <3>3. CASE i = Len(ledger) + 1
      BY <1>10, <2>2, <3>1, <3>3 DEF Inv, ClaimsInv
    <3>4. QED BY <2>3, <3>2, <3>3
  <2>6. OneEntryPerReference'
    <3> SUFFICES ASSUME NEW i \in DOMAIN ledger', NEW j \in DOMAIN ledger',
                        SameKey(ledger'[i].op, ledger'[i].ref, ledger'[j])
                 PROVE  i = j
      BY DEF OneEntryPerReference
    <3>1. CASE i \in DOMAIN ledger /\ j \in DOMAIN ledger
      BY <2>2, <3>1 DEF Inv, OneEntryPerReference
    <3>2. CASE i \in DOMAIN ledger /\ j = Len(ledger) + 1
      BY <2>2, <2>4, <3>2 DEF SameKey
    <3>3. CASE i = Len(ledger) + 1 /\ j \in DOMAIN ledger
      BY <2>2, <2>4, <3>3 DEF SameKey
    <3>4. QED BY <2>3, <3>1, <3>2, <3>3
  <2>7. QED BY <1>5, <1>7, <1>8, <2>5, <2>6 DEF Inv
<1>11. QED BY <1>9, <1>10

\* A version of the row is only replaced by another.
LEMMA MovedVersion ==
  ASSUME Inv, NEW s \in Sessions, Move(s) \/ Stamp(s) \/ Release(s), draft[s] # NoRow
  PROVE  draft'[s] # NoRow
<1>1. BalancesTypeOK /\ Sum(s) \in Int /\ call[s].op \in Ops /\ Row(s) \in Wallet
  BY SessionTypes DEF Inv, Row
<1>2. CASE draft' = draft
  BY <1>2
<1>3. CASE Move(s) /\ draft' # draft
  <2>1. Guard(call[s].op, Row(s), Sum(s)) /\ draft'[s] = Moved(call[s].op, Row(s), Sum(s))
    BY <1>1, <1>3 DEF Move, BalancesTypeOK
  <2>2. Sum(s) > 0
    BY <1>3 DEF Move, Inv, WrittenInv, Wrote, Sum
  <2>3. QED BY <1>1, <2>1, <2>2, MovedIsWallet, Apart
<1>4. CASE Release(s) /\ draft' # draft
  <2>1. /\ Sum(s) > 0 /\ Row(s).pending >= Sum(s)
        /\ draft'[s] = [available |-> Row(s).available + Sum(s), pending |-> Row(s).pending - Sum(s)]
    BY <1>1, <1>4 DEF Release, BalancesTypeOK
  <2>2. QED BY <1>1, <2>1, Apart DEF Wallet
<1>5. QED BY <1>2, <1>3, <1>4 DEF Stamp

LEMMA StutterInv == ASSUME Inv, KeysInv, UNCHANGED vars PROVE Inv' /\ KeysInv'
BY DEF Inv, vars, BalancesTypeOK, WrittenInv, LocksInv, ClaimsInv, FreshInv, KeysInv,
       OneEntryPerReference

\* A step of a session leaves the keys of the others to them: what the keys
\* ask is a matter of the session that takes it.
LEMMA LocalKeys ==
  ASSUME KeysInv, inserted \subseteq Sessions, inserted' \subseteq Sessions, NEW s \in Sessions,
         \A t \in Sessions \ {s} :
           /\ pc'[t] = pc[t] /\ call'[t] = call[t] /\ draft'[t] = draft[t] /\ claim'[t] = claim[t]
           /\ t \in inserted' <=> t \in inserted
           /\ rows[AccountOf[call[t].ref]] # NoRow => rows'[AccountOf[call[t].ref]] # NoRow,
         claim'[s] # NoClaim => s \in inserted',
         s \in inserted' =>
           /\ pc'[s] \in {"move", "stamp", "returned", "threw"}
           /\ HasRow(draft'[s], rows'[AccountOf[call'[s].ref]])
           /\ \A t \in inserted \ {s} : ~SameKey(call'[s].op, call'[s].ref, call[t])
  PROVE  KeysInv'
<1>1. (\A t \in Sessions : claim[t] # NoClaim => t \in inserted)'
  BY DEF KeysInv
<1>2. (\A t \in inserted : /\ pc[t] \in {"move", "stamp", "returned", "threw"}
                          /\ HasRow(draft[t], rows[AccountOf[call[t].ref]]))'
  BY DEF KeysInv, HasRow
<1>3. (\A t, u \in inserted : SameKey(call[t].op, call[t].ref, call[u]) => t = u)'
  BY DEF KeysInv, SameKey
<1>4. QED BY <1>1, <1>2, <1>3 DEF KeysInv

\* Nobody takes a key another has inserted and not ended, and only the end
\* gives it up.
LEMMA StepKeys ==
  ASSUME Inv, KeysInv, Inv', NEW s \in Sessions,
         \/ \E c \in Calls : Begin(s, c)
         \/ EnsureRow(s) \/ Claim(s) \/ Move(s) \/ Stamp(s) \/ Release(s)
         \/ Commit(s) \/ Rollback(s)
  PROVE  KeysInv'
<1>1. BalancesTypeOK /\ inserted \subseteq Sessions /\ inserted' \subseteq Sessions
  BY DEF Inv, BalancesTypeOK
<1>2. \A t \in inserted \ {s} : SameKey(call[s].op, call[s].ref, call[t]) => s \notin inserted
  BY DEF KeysInv
<1>3. ASSUME NEW c \in Calls, Begin(s, c) PROVE KeysInv'
  <2>1. s \notin inserted
    BY <1>3 DEF Begin, KeysInv
  <2>2. inserted' = inserted /\ claim' = claim /\ draft' = draft /\ rows' = rows
    BY <1>3 DEF Begin
  <2>3. \A t \in Sessions \ {s} : pc'[t] = pc[t] /\ call'[t] = call[t]
    BY <1>1, <1>3 DEF Begin, Goto, BalancesTypeOK
  <2>4. QED BY <1>1, <2>1, <2>2, <2>3, LocalKeys DEF KeysInv
<1>4. CASE EnsureRow(s)
  <2>1. s \notin inserted
    BY <1>4 DEF EnsureRow, KeysInv
  <2>2. inserted' = inserted /\ claim' = claim /\ call' = call /\ rows' = rows
    BY <1>4 DEF EnsureRow
  <2>3. \A t \in Sessions \ {s} : pc'[t] = pc[t] /\ draft'[t] = draft[t]
    BY <1>1, <1>4 DEF EnsureRow, Goto, BalancesTypeOK
  <2>4. QED BY <1>1, <2>1, <2>2, <2>3, LocalKeys DEF KeysInv
<1>5. CASE Claim(s)
  <2>1. s \notin inserted /\ HasRow(draft[s], rows[AccountOf[call[s].ref]])
    BY <1>5 DEF Claim, KeysInv, Inv, WrittenInv, Wrote
  <2>2. call' = call /\ draft' = draft /\ rows' = rows
    BY <1>5 DEF Claim
  <2>3. \A t \in Sessions \ {s} : pc'[t] = pc[t] /\ claim'[t] = claim[t]
    BY <1>1, <1>5 DEF Claim, Goto, BalancesTypeOK
  <2>4. \/ inserted' = inserted /\ claim' = claim
        \/ inserted' = inserted \cup {s} /\ pc'[s] = "move"
    BY <1>1, <1>5 DEF Claim, Goto, BalancesTypeOK
  <2>5. \A t \in inserted \ {s} : ~SameKey(call[s].op, call[s].ref, call[t])
    BY <1>5 DEF Claim, Claimants
  <2>6. CASE inserted' = inserted /\ claim' = claim
    BY <1>1, <2>1, <2>2, <2>3, <2>6, LocalKeys DEF KeysInv
  <2>7. CASE inserted' = inserted \cup {s} /\ pc'[s] = "move"
    BY <1>1, <2>1, <2>2, <2>3, <2>5, <2>7, LocalKeys
  <2>8. QED BY <2>4, <2>6, <2>7
<1>6. CASE Move(s) \/ Stamp(s) \/ Release(s)
  <2>1. inserted' = inserted /\ call' = call /\ rows' = rows
    BY <1>6 DEF Move, Stamp, Release
  <2>2. pc'[s] \in {"stamp", "returned", "threw"}
    BY <1>1, <1>6 DEF Move, Stamp, Release, Goto, BalancesTypeOK
  <2>3. \A t \in Sessions \ {s} : pc'[t] = pc[t] /\ claim'[t] = claim[t] /\ draft'[t] = draft[t]
    BY <1>1, <1>6 DEF Move, Stamp, Release, Goto, BalancesTypeOK
  <2>4. claim'[s] # NoClaim => claim[s] # NoClaim
    <3>1. Stamp(s) => claim[s] # NoClaim
      BY DEF Stamp, Inv, WrittenInv, Wrote, Applied, ClaimOf
    <3>2. Move(s) \/ Release(s) => claim'[s] \in {claim[s], NoClaim}
      BY <1>1 DEF Move, Release, BalancesTypeOK
    <3>3. QED BY <1>6, <3>1, <3>2
  <2>5. draft[s] # NoRow => draft'[s] # NoRow
    BY <1>1, <1>6, MovedVersion
  <2>6. QED BY <1>1, <1>2, <2>1, <2>2, <2>3, <2>4, <2>5, LocalKeys DEF KeysInv, HasRow
<1>7. CASE Commit(s) \/ Rollback(s)
  <2>1. inserted' = inserted \ {s} /\ call' = call /\ claim'[s] = NoClaim
    BY <1>1, <1>7 DEF Commit, Rollback, End, BalancesTypeOK
  <2>2. \A t \in Sessions \ {s} : pc'[t] = pc[t] /\ claim'[t] = claim[t] /\ draft'[t] = draft[t]
    BY <1>1, <1>7 DEF Commit, Rollback, End, Goto, BalancesTypeOK
  <2>3. \A a \in Accounts : rows[a] # NoRow => rows'[a] # NoRow
    BY <1>1, <1>7 DEF Commit, Rollback, BalancesTypeOK
  <2>4. \A t \in Sessions : AccountOf[call[t].ref] \in Accounts
    BY <1>1, SessionTypes DEF Account
  <2>5. QED BY <1>1, <2>1, <2>2, <2>3, <2>4, LocalKeys
<1>8. QED BY <1>3, <1>4, <1>5, <1>6, <1>7

LEMMA StepInv == ASSUME Inv, KeysInv, [Next]_vars PROVE Inv' /\ KeysInv'
<1>1. ASSUME NEW s \in Sessions, NEW c \in Calls, Begin(s, c) PROVE Inv' /\ KeysInv'
  BY <1>1, BeginInv, StepKeys
<1>2. ASSUME NEW s \in Sessions, EnsureRow(s) PROVE Inv' /\ KeysInv'
  BY <1>2, EnsureRowInv, StepKeys
<1>3. ASSUME NEW s \in Sessions, Claim(s) PROVE Inv' /\ KeysInv'
  BY <1>3, ClaimInv, StepKeys
<1>4. ASSUME NEW s \in Sessions, Move(s) PROVE Inv' /\ KeysInv'
  BY <1>4, MoveInv, StepKeys
<1>5. ASSUME NEW s \in Sessions, Stamp(s) PROVE Inv' /\ KeysInv'
  BY <1>5, StampInv, StepKeys
<1>6. ASSUME NEW s \in Sessions, Release(s) PROVE Inv' /\ KeysInv'
  BY <1>6, ReleaseInv, StepKeys
<1>7. ASSUME NEW s \in Sessions, Commit(s) PROVE Inv' /\ KeysInv'
  BY <1>7, CommitInv, StepKeys
<1>8. ASSUME NEW s \in Sessions, Rollback(s) PROVE Inv' /\ KeysInv'
  BY <1>8, RollbackInv, StepKeys
<1>9. QED BY <1>1, <1>2, <1>3, <1>4, <1>5, <1>6, <1>7, <1>8, StutterInv DEF Next, Finished

LEMMA Invariant == Spec => [](Inv /\ KeysInv)
<1>1. Init => Inv /\ KeysInv
  BY InitInv
<1>2. Inv /\ KeysInv /\ [Next]_vars => (Inv /\ KeysInv)'
  BY StepInv
<1>3. QED BY <1>1, <1>2, PTL DEF Spec

-----------------------------------------------------------------------------
\* Every session holds a wallet and an entry of its call, and a committed
\* wallet has no negative column, whatever the transactions do.
THEOREM BalancesTypes == Spec => []BalancesTypeOK
<1>1. Inv => BalancesTypeOK
  BY DEF Inv
<1>2. QED BY <1>1, Invariant, PTL

\* A reference enters the ledger at most once per direction: the claim waits
\* for a claim of the same key that has not ended, and a claim that has
\* committed is found in the ledger (balances.service 174-189, 256-270).
THEOREM ReferenceEntersOnce == Spec => []OneEntryPerReference
<1>1. Inv => OneEntryPerReference
  BY DEF Inv
<1>2. QED BY <1>1, Invariant, PTL

-----------------------------------------------------------------------------
(* The refinement: a commit is one operation of Ledger or a stutter.        *)

LEMMA InitRefines == ASSUME Init PROVE Abstract!LedgerInit
BY DEF Init, Abstract!LedgerInit, Column, RecordedIn, RecordedAmong

\* What another step than a commit leaves of the abstract state: all of it.
LEMMA SameCommitted ==
  ASSUME UNCHANGED <<rows, ledger>> PROVE UNCHANGED Abstract!ledgerVars
BY DEF Abstract!ledgerVars, Column, RecordedIn, RecordedAmong

\* The columns of the committed wallets, of the row that was moved.
LEMMA ColumnIsBase ==
  ASSUME NEW a \in Accounts
  PROVE  Column(a, "available") = Base(rows[a]).available
         /\ Column(a, "pending") = Base(rows[a]).pending
BY DEF Column, Base, Empty

\* The keys of the ledger after an entry is appended to it.
LEMMA RecordedAfter ==
  ASSUME BalancesTypeOK, NEW e \in Entry, ledger' = Append(ledger, e), NEW direction
  PROVE  RecordedIn(direction)' = IF Direction(e.op) = direction
                                  THEN RecordedIn(direction) \cup {e.ref}
                                  ELSE RecordedIn(direction)
<1>1. /\ DOMAIN ledger = 1 .. Len(ledger) /\ Len(ledger) \in Nat
      /\ DOMAIN ledger' = 1 .. Len(ledger) + 1
      /\ \A i \in DOMAIN ledger : ledger'[i] = ledger[i]
      /\ ledger'[Len(ledger) + 1] = e
  BY AppendedEntries
<1>2. DOMAIN ledger' = DOMAIN ledger \cup {Len(ledger) + 1}
  BY <1>1
<1>3. ASSUME NEW r
      PROVE  r \in RecordedIn(direction)' <=>
               (r \in RecordedIn(direction) \/ (Direction(e.op) = direction /\ r = e.ref))
  <2>1. r \in RecordedIn(direction)' <=>
          \E i \in DOMAIN ledger' : Direction(ledger'[i].op) = direction /\ ledger'[i].ref = r
    BY <1>1 DEF RecordedIn, RecordedAmong
  <2>2. r \in RecordedIn(direction) <=>
          \E i \in DOMAIN ledger : Direction(ledger[i].op) = direction /\ ledger[i].ref = r
    BY <1>1 DEF RecordedIn, RecordedAmong
  <2>3. QED BY <1>1, <1>2, <2>1, <2>2
<1>4. QED BY <1>3

\* What a session that moved money commits: its version, in its account's row.
LEMMA ColumnsAfter ==
  ASSUME BalancesTypeOK, NEW s \in Sessions, draft[s] \in Wallet,
         rows' = [rows EXCEPT ![Account(s)] = draft[s]]
  PROVE  \A a \in Accounts :
           /\ Column(a, "available")' = IF a = Account(s) THEN draft[s].available
                                        ELSE Column(a, "available")
           /\ Column(a, "pending")' = IF a = Account(s) THEN draft[s].pending
                                      ELSE Column(a, "pending")
<1>1. draft[s] # NoRow
  BY Apart
<1>2. \A a \in Accounts : rows'[a] = IF a = Account(s) THEN draft[s] ELSE rows[a]
  BY DEF BalancesTypeOK
<1>3. QED BY <1>1, <1>2 DEF Column

\* The inserted empty row of a wallet that had none changes no column.
LEMMA UnmovedStutters ==
  ASSUME Inv, NEW s \in Sessions, Commit(s),
         Unmoved(draft[s], rows[Account(s)]), claim[s] = NoClaim
  PROVE  UNCHANGED Abstract!ledgerVars
<1>1. BalancesTypeOK /\ ledger' = ledger
  BY CommitFacts DEF Inv
<1>2. CASE draft[s] = NoRow
  BY <1>1, <1>2, CommitFacts, SameCommitted
<1>3. CASE draft[s] # NoRow
  <2>1. draft[s] = Empty /\ rows[Account(s)] = NoRow /\ draft[s] \in Wallet
    BY <1>3, Apart DEF Unmoved
  <2>2. \A a \in Accounts :
           /\ Column(a, "available")' = IF a = Account(s) THEN draft[s].available
                                        ELSE Column(a, "available")
           /\ Column(a, "pending")' = IF a = Account(s) THEN draft[s].pending
                                      ELSE Column(a, "pending")
    BY <1>1, <1>3, <2>1, CommitFacts, ColumnsAfter
  <2>3. \A a \in Accounts : /\ Column(a, "available")' = Column(a, "available")
                            /\ Column(a, "pending")' = Column(a, "pending")
    BY <2>1, <2>2 DEF Column, Empty
  <2>4. RecordedIn("CREDIT")' = RecordedIn("CREDIT") /\ RecordedIn("DEBIT")' = RecordedIn("DEBIT")
    BY <1>1 DEF RecordedIn, RecordedAmong
  <2>5. QED BY <2>3, <2>4 DEF Abstract!ledgerVars
<1>4. QED BY <1>2, <1>3

\* An entry whose claim committed is a key the ledger did not hold.
LEMMA ClaimIsNew ==
  ASSUME Inv, NEW s \in Sessions, claim[s] # NoClaim
  PROVE  claim[s].ref \notin RecordedIn(Direction(claim[s].op))
BY DEF Inv, BalancesTypeOK, FreshInv, RecordedIn, RecordedAmong, SameKey

LEMMA AppliedRefines ==
  ASSUME Inv, NEW s \in Sessions, Commit(s),
         Applied(call[s], draft[s], claim[s], rows[Account(s)])
  PROVE  Abstract!LedgerNext
<1> DEFINE r == call[s].ref
           acc == Account(s)
           n == Sum(s)
           b == Base(rows[acc])
<1>1. /\ BalancesTypeOK /\ r \in References /\ acc = AccountOf[r] /\ n = Amount[r] /\ acc \in Accounts
      /\ n \in Int /\ n > 0 /\ call[s].op \in Ops /\ b \in Wallet
      /\ claim[s] \in Entry \cup {NoClaim}
  BY SessionTypes DEF Inv, Applied, Sum, Account
<1>2. /\ Guard(call[s].op, b, n) /\ draft[s] = Moved(call[s].op, b, n)
      /\ ClaimOf(call[s], claim[s])
  BY DEF Applied, Sum
<1>3. draft[s] \in Wallet /\ draft[s] # NoRow
  BY <1>1, VersionIsWallet
<1>4. \A a \in Accounts :
         /\ Column(a, "available")' = IF a = acc THEN draft[s].available
                                      ELSE Column(a, "available")
         /\ Column(a, "pending")' = IF a = acc THEN draft[s].pending
                                    ELSE Column(a, "pending")
  BY <1>1, <1>3, CommitFacts, ColumnsAfter
<1>5. Column(acc, "available") = b.available /\ Column(acc, "pending") = b.pending
  BY <1>1, ColumnIsBase
<1>6. b.available \in Int /\ b.pending \in Int
  BY <1>1 DEF Wallet
<1>7. call[s].op # "reserve" =>
        /\ claim[s] \in Entry /\ claim[s].op = call[s].op /\ claim[s].ref = r
        /\ ledger' = Append(ledger, claim[s])
        /\ r \notin RecordedIn(Direction(call[s].op))
  BY <1>1, <1>2, CommitFacts, ClaimIsNew DEF ClaimOf
<1>8. call[s].op # "reserve" => \A direction :
        RecordedIn(direction)' = IF Direction(call[s].op) = direction
                                 THEN RecordedIn(direction) \cup {r}
                                 ELSE RecordedIn(direction)
  BY <1>1, <1>7, RecordedAfter
<1> HIDE DEF r, acc, n, b
<1>9. CASE call[s].op = "credit"
  <2>1. draft[s] = [b EXCEPT !.available = b.available + n]
    BY <1>2, <1>9 DEF Moved
  <2>2. draft[s].available = b.available + n /\ draft[s].pending = b.pending
    BY <1>1, <2>1 DEF Wallet
  <2>3. RecordedIn("CREDIT")' = RecordedIn("CREDIT") \cup {r} /\ r \notin RecordedIn("CREDIT")
        /\ RecordedIn("DEBIT")' = RecordedIn("DEBIT")
    BY <1>7, <1>8, <1>9 DEF Direction
  <2>4. Abstract!CreditPayment(r)
    BY <1>1, <1>4, <1>5, <2>2, <2>3 DEF Abstract!CreditPayment, Abstract!Positive
  <2>5. QED BY <1>1, <2>4 DEF Abstract!LedgerNext
<1>10. CASE call[s].op = "debit"
  <2>1. draft[s] = [b EXCEPT !.available = b.available - n] /\ b.available >= n
    BY <1>2, <1>10 DEF Moved, Guard
  <2>2. draft[s].available = b.available - n /\ draft[s].pending = b.pending
    BY <1>1, <2>1 DEF Wallet
  <2>3. RecordedIn("DEBIT")' = RecordedIn("DEBIT") \cup {r} /\ r \notin RecordedIn("DEBIT")
        /\ RecordedIn("CREDIT")' = RecordedIn("CREDIT")
    BY <1>7, <1>8, <1>10 DEF Direction
  <2>4. Abstract!Debit(r)
    BY <1>1, <1>4, <1>5, <2>1, <2>2, <2>3 DEF Abstract!Debit, Abstract!CanDebit, Abstract!Positive
  <2>5. QED BY <1>1, <2>4 DEF Abstract!LedgerNext
<1>11. CASE call[s].op = "reserve"
  <2>1. /\ draft[s] = [available |-> b.available - n, pending |-> b.pending + n]
        /\ b.available >= n
    BY <1>2, <1>11 DEF Moved, Guard
  <2>2. draft[s].available = b.available - n /\ draft[s].pending = b.pending + n
    BY <2>1
  <2>3. ledger' = ledger
    BY <1>2, <1>11, CommitFacts DEF ClaimOf
  <2>4. RecordedIn("DEBIT")' = RecordedIn("DEBIT") /\ RecordedIn("CREDIT")' = RecordedIn("CREDIT")
    BY <2>3 DEF RecordedIn, RecordedAmong
  <2>5. Abstract!Reserve(r)
    BY <1>1, <1>4, <1>5, <2>1, <2>2, <2>4 DEF Abstract!Reserve, Abstract!CanReserve, Abstract!Positive
  <2>6. QED BY <1>1, <2>5 DEF Abstract!LedgerNext
<1>12. CASE call[s].op = "confirm"
  <2>1. draft[s] = [b EXCEPT !.pending = b.pending - n] /\ b.pending >= n
    BY <1>2, <1>12 DEF Moved, Guard
  <2>2. draft[s].available = b.available /\ draft[s].pending = b.pending - n
    BY <1>1, <2>1 DEF Wallet
  <2>3. RecordedIn("DEBIT")' = RecordedIn("DEBIT") \cup {r} /\ r \notin RecordedIn("DEBIT")
        /\ RecordedIn("CREDIT")' = RecordedIn("CREDIT")
    BY <1>7, <1>8, <1>12 DEF Direction
  <2>4. Abstract!ConfirmDebit(r)
    BY <1>1, <1>4, <1>5, <2>1, <2>2, <2>3
    DEF Abstract!ConfirmDebit, Abstract!CanConfirm, Abstract!Positive
  <2>5. QED BY <1>1, <2>4 DEF Abstract!LedgerNext
<1>13. QED BY <1>1, <1>9, <1>10, <1>11, <1>12 DEF Ops

LEMMA ReleasedRefines ==
  ASSUME Inv, NEW s \in Sessions, Commit(s),
         Released(call[s], draft[s], claim[s], rows[Account(s)])
  PROVE  Abstract!LedgerNext
<1> DEFINE r == call[s].ref
           acc == Account(s)
           n == Sum(s)
           b == Base(rows[acc])
<1>1. /\ BalancesTypeOK /\ r \in References /\ acc = AccountOf[r] /\ n = Amount[r] /\ acc \in Accounts
      /\ n \in Int /\ n > 0 /\ b \in Wallet /\ b.pending >= n
      /\ claim[s] = NoClaim
      /\ draft[s] = [available |-> b.available + n, pending |-> b.pending - n]
  BY SessionTypes DEF Inv, Released, Sum, Account
<1>2. draft[s] \in Wallet /\ draft[s] # NoRow
  BY <1>1, VersionIsWallet
<1>3. \A a \in Accounts :
         /\ Column(a, "available")' = IF a = acc THEN draft[s].available
                                      ELSE Column(a, "available")
         /\ Column(a, "pending")' = IF a = acc THEN draft[s].pending
                                    ELSE Column(a, "pending")
  BY <1>1, <1>2, CommitFacts, ColumnsAfter
<1>4. Column(acc, "available") = b.available /\ Column(acc, "pending") = b.pending
  BY <1>1, ColumnIsBase
<1>5. ledger' = ledger
  BY <1>1, CommitFacts
<1>6. RecordedIn("DEBIT")' = RecordedIn("DEBIT") /\ RecordedIn("CREDIT")' = RecordedIn("CREDIT")
  BY <1>5 DEF RecordedIn, RecordedAmong
<1>7. draft[s].available = b.available + n /\ draft[s].pending = b.pending - n
  BY <1>1
<1> HIDE DEF r, acc, n, b
<1>8. Abstract!Release(r)
  BY <1>1, <1>3, <1>4, <1>6, <1>7 DEF Abstract!Release, Abstract!CanRelease, Abstract!Positive
<1>9. QED BY <1>1, <1>8 DEF Abstract!LedgerNext

LEMMA StepRefines ==
  ASSUME Inv, [Next]_vars PROVE [Abstract!LedgerNext]_(Abstract!ledgerVars)
<1>1. ASSUME NEW s \in Sessions, Commit(s)
      PROVE  [Abstract!LedgerNext]_(Abstract!ledgerVars)
  <2>1. \/ Unmoved(draft[s], rows[Account(s)]) /\ claim[s] = NoClaim
        \/ Applied(call[s], draft[s], claim[s], rows[Account(s)])
        \/ Released(call[s], draft[s], claim[s], rows[Account(s)])
    BY <1>1, CommitFacts
  <2>2. QED BY <1>1, <2>1, UnmovedStutters, AppliedRefines, ReleasedRefines
<1>2. CASE UNCHANGED <<rows, ledger>>
  BY <1>2, SameCommitted
<1>3. (\E s \in Sessions : Commit(s)) \/ UNCHANGED <<rows, ledger>>
  BY DEF Next, Finished, vars, Begin, EnsureRow, Claim, Move, Stamp, Release, Rollback
<1>4. QED BY <1>1, <1>2, <1>3

\* Concurrent transactions move money as if each ran alone: every commit is
\* one atomic operation of Ledger, or none when the reference was applied
\* before or the operation refused (balances.service 17-22, 249-331).
THEOREM BalancesImplementLedger == Spec => ImplementsLedger
<1>1. Init => Abstract!LedgerInit
  BY InitRefines
<1>2. Inv /\ [Next]_vars => [Abstract!LedgerNext]_(Abstract!ledgerVars)
  BY StepRefines
<1>3. QED BY <1>1, <1>2, Invariant, PTL DEF Spec, ImplementsLedger, Abstract!LedgerSpec

-----------------------------------------------------------------------------
(* The committed tables keep the invariants of the ledger they implement.   *)
(* Money names what Abstract names, with the proofs.                        *)

LEMMA MoneyAssumption ==
  /\ Money!IsFiniteSet(References)
  /\ AccountOf \in [References -> Accounts]
  /\ Amount \in [References -> Int]
BY BalancesAssumption DEF IsFiniteSet, Money!IsFiniteSet

LEMMA SameTotals ==
  /\ \A R : Money!Total(R) = Abstract!Total(R)
  /\ \A a, R : Money!Of(a, R) = Abstract!Of(a, R)
  /\ \A a : Money!Net(a) = Abstract!Net(a)
BY DEF Money!Net, Money!Total, Money!Units, Money!Of,
       Abstract!Net, Abstract!Total, Abstract!Units, Abstract!Of,
       Money!Cardinality, Abstract!Cardinality

LEMMA SameSteps ==
  /\ Abstract!LedgerInit => Money!LedgerInit
  /\ [Abstract!LedgerNext]_(Abstract!ledgerVars) => [Money!LedgerNext]_(Money!ledgerVars)
<1>1. Abstract!LedgerInit => Money!LedgerInit
  BY DEF Abstract!LedgerInit, Money!LedgerInit
<1>2. Money!ledgerVars = Abstract!ledgerVars
  BY DEF Abstract!ledgerVars, Money!ledgerVars
<1>3. Money!ledgerVars' = Abstract!ledgerVars'
  BY DEF Abstract!ledgerVars, Money!ledgerVars
<1>4. \A r : /\ Abstract!CreditPayment(r) => Money!CreditPayment(r)
             /\ Abstract!Debit(r) => Money!Debit(r)
             /\ Abstract!Reserve(r) => Money!Reserve(r)
             /\ Abstract!Release(r) => Money!Release(r)
             /\ Abstract!ConfirmDebit(r) => Money!ConfirmDebit(r)
  BY DEF Abstract!CreditPayment, Abstract!Debit, Abstract!Reserve, Abstract!Release,
         Abstract!ConfirmDebit, Abstract!Positive, Abstract!CanDebit, Abstract!CanReserve,
         Abstract!CanRelease, Abstract!CanConfirm, Abstract!ledgerVars,
         Money!CreditPayment, Money!Debit, Money!Reserve, Money!Release,
         Money!ConfirmDebit, Money!Positive, Money!CanDebit, Money!CanReserve,
         Money!CanRelease, Money!CanConfirm, Money!ledgerVars
<1>5. QED BY <1>1, <1>2, <1>3, <1>4 DEF Abstract!LedgerNext, Money!LedgerNext

LEMMA TablesInvariant == Spec => []Money!LedgerInv
<1>1. Init => Money!LedgerInv
  BY InitRefines, SameSteps, Money!LedgerInitInv, MoneyAssumption
<1>2. Inv /\ Money!LedgerInv /\ [Next]_vars => Money!LedgerInv'
  BY StepRefines, SameSteps, Money!LedgerNextInv, MoneyAssumption
<1>3. QED BY <1>1, <1>2, Invariant, PTL DEF Spec

\* What the reconciliation compares agrees at every moment, on the tables as
\* concurrent transactions commit them (cli/reconcile.ts 28-36).
THEOREM TablesConserveMoney == Spec => []Abstract!WalletMatchesLedger
<1>1. Money!LedgerInv => Abstract!WalletMatchesLedger
  BY SameTotals DEF Money!LedgerInv, Money!WalletMatchesLedger, Abstract!WalletMatchesLedger
<1>2. QED BY <1>1, TablesInvariant, PTL

-----------------------------------------------------------------------------
(* The stamp of a confirmation.                                             *)

\* Entries that are appended later change no running total.
LEMMA EarlierTotalsStand ==
  ASSUME BalancesTypeOK, NEW e \in Entry, ledger' = Append(ledger, e), NEW i \in DOMAIN ledger, NEW a
  PROVE  RunningTotal(ledger', i, a) = RunningTotal(ledger, i, a)
<1>1. /\ DOMAIN ledger = 1 .. Len(ledger) /\ Len(ledger) \in Nat
      /\ \A j \in DOMAIN ledger : ledger'[j] = ledger[j]
  BY AppendedEntries
<1>2. \A j \in 1 .. i : ledger'[j] = ledger[j]
  BY <1>1
<1>3. \A direction : RecordedAmong(ledger', i, direction) = RecordedAmong(ledger, i, direction)
  BY <1>2 DEF RecordedAmong
<1>4. QED BY <1>3 DEF RunningTotal

\* The running total of the last entry is what the account's wallet holds.
LEMMA LastTotalIsWallet ==
  ASSUME Money!LedgerInv', NEW a \in Accounts
  PROVE  RunningTotal(ledger', Len(ledger'), a)
           = (Column(a, "available") + Column(a, "pending"))'
<1>1. (Column(a, "available") + Column(a, "pending") = Abstract!Net(a))'
  BY SameTotals DEF Money!LedgerInv, Money!WalletMatchesLedger, Money!Net, Abstract!Net
<1>2. QED BY <1>1 DEF Abstract!Net, RunningTotal, RecordedIn

\* The entry a commit appends is stamped with what the commit leaves in the
\* account's wallet, when it is a confirmation's.
LEMMA CommittedStamp ==
  ASSUME Inv, NEW s \in Sessions, Commit(s), claim[s] # NoClaim, claim[s].op = "confirm",
         NEW a \in Accounts, a = Account(s)
  PROVE  /\ claim[s].after = (Column(a, "available") + Column(a, "pending"))'
         /\ AccountOf[claim[s].ref] = a
<1>1. BalancesTypeOK
  BY DEF Inv
<1>2. /\ Applied(call[s], draft[s], claim[s], rows[Account(s)])
      /\ call[s].op = "confirm" => claim[s].after = draft[s].available + draft[s].pending
  BY CommitFacts DEF Released
<1>3. claim[s].op = call[s].op /\ claim[s].ref = call[s].ref
  BY <1>2 DEF Applied, ClaimOf
<1>4. draft[s] \in Wallet /\ draft[s] # NoRow
  BY <1>1, <1>2, VersionIsWallet
<1>5. /\ Column(a, "available")' = draft[s].available
      /\ Column(a, "pending")' = draft[s].pending
  BY <1>1, <1>4, CommitFacts, ColumnsAfter
<1>6. QED BY <1>2, <1>3, <1>5 DEF Account

LEMMA StampsStep ==
  ASSUME Inv, Money!LedgerInv', ConfirmStampIsRunningTotal, [Next]_vars
  PROVE  ConfirmStampIsRunningTotal'
<1>1. CASE UNCHANGED ledger
  BY <1>1 DEF ConfirmStampIsRunningTotal, StampIsTotal, RunningTotal, RecordedAmong
<1>2. ASSUME NEW s \in Sessions, Commit(s), claim[s] # NoClaim
      PROVE  ConfirmStampIsRunningTotal'
  <2> SUFFICES ASSUME NEW i \in DOMAIN ledger', ledger'[i].op = "confirm"
               PROVE  ledger'[i].after = RunningTotal(ledger', i, AccountOf[ledger'[i].ref])
    BY DEF ConfirmStampIsRunningTotal, StampIsTotal
  <2>1. BalancesTypeOK /\ claim[s] \in Entry /\ ledger' = Append(ledger, claim[s])
    BY <1>2, CommitFacts, SessionTypes DEF Inv
  <2>2. /\ DOMAIN ledger' = 1 .. Len(ledger) + 1 /\ Len(ledger) \in Nat
        /\ DOMAIN ledger = 1 .. Len(ledger)
        /\ \A j \in DOMAIN ledger : ledger'[j] = ledger[j]
        /\ ledger'[Len(ledger) + 1] = claim[s] /\ Len(ledger') = Len(ledger) + 1
    BY <2>1, AppendedEntries
  <2>3. CASE i \in DOMAIN ledger
    BY <2>1, <2>2, <2>3, EarlierTotalsStand DEF ConfirmStampIsRunningTotal, StampIsTotal
  <2>4. CASE i = Len(ledger')
    <3>1. ledger'[i] = claim[s]
      BY <2>2, <2>4
    <3>2. PICK a \in Accounts : a = Account(s)
      BY <2>1, SessionTypes
    <3>3. /\ claim[s].after = (Column(a, "available") + Column(a, "pending"))'
          /\ AccountOf[claim[s].ref] = a
      BY <1>2, <3>1, <3>2, CommittedStamp
    <3>4. QED BY <2>4, <3>1, <3>3, LastTotalIsWallet
  <2>5. QED BY <2>2, <2>3, <2>4
<1>3. (\E s \in Sessions : Commit(s) /\ claim[s] # NoClaim) \/ UNCHANGED ledger
  BY DEF Next, Finished, vars, Begin, EnsureRow, Claim, Move, Stamp, Release, Rollback, Commit
<1>4. QED BY <1>1, <1>2, <1>3

\* A payout's entry records the total the account stood at right after it, in
\* the order the entries commit (balances.service 215-218).
THEOREM ConfirmationsStampTheTotal == Spec => []ConfirmStampIsRunningTotal
<1>1. Init => ConfirmStampIsRunningTotal
  BY DEF Init, ConfirmStampIsRunningTotal
<1>2. Inv /\ Money!LedgerInv' /\ ConfirmStampIsRunningTotal /\ [Next]_vars
        => ConfirmStampIsRunningTotal'
  BY StampsStep
<1>3. QED BY <1>1, <1>2, Invariant, TablesInvariant, PTL DEF Spec

-----------------------------------------------------------------------------
(* Locks.  Every operation takes its locks in one order, the row it inserts *)
(* first, then the key of its entry, then the row it moves; but a session   *)
(* that has a version of the row waits for nobody.                          *)

\* The sessions whose locks the next statement of s waits for.
Blockers(s) ==
  {t \in Sessions :
     \/ /\ \/ pc[s] = "ensure" /\ rows[Account(s)] = NoRow
           \/ pc[s] = "move"
           \/ pc[s] = "threw" /\ call[s].op = "confirm" /\ Sum(s) > 0
        /\ t \in RowHolders(s)
     \/ pc[s] = "claim" /\ t \in Claimants(s)}

\* How far a session is in that order.
Rank(s) ==
  IF draft[s] # NoRow THEN 3
  ELSE IF pc[s] \in {"move", "threw", "returned"} THEN 2
  ELSE IF pc[s] = "claim" THEN 1
  ELSE 0

LocksAreOrdered == \A s, t \in Sessions : t \in Blockers(s) => Rank(t) > Rank(s)

\* No sessions wait for each other in a circle: in any set of them there is
\* one that waits for none of the others.
NoDeadlock ==
  \A D \in SUBSET Sessions : D # {} => \E s \in D : Blockers(s) \cap D = {}

LEMMA RowHolderRanks ==
  ASSUME Inv, NEW s \in Sessions, NEW t \in RowHolders(s)
  PROVE  Rank(t) = 3 /\ Rank(s) <= 2
<1>1. t \in Sessions /\ t # s /\ draft[t] # NoRow /\ Account(t) = Account(s)
  BY DEF RowHolders
<1>2. draft[s] = NoRow
  BY <1>1 DEF Inv, LocksInv, Account
<1>3. QED BY <1>1, <1>2 DEF Rank

LEMMA ClaimantRanks ==
  ASSUME Inv, KeysInv, NEW s \in Sessions, pc[s] = "claim", NEW t \in Claimants(s)
  PROVE  Rank(t) >= 2 /\ Rank(s) = 1
<1>1. t \in inserted /\ t \in Sessions /\ t # s /\ Account(t) = Account(s)
  BY DEF Claimants, SameKey, Account, Inv, BalancesTypeOK
<1>2. /\ pc[t] \in {"move", "stamp", "returned", "threw"}
      /\ HasRow(draft[t], rows[Account(s)])
  BY <1>1 DEF KeysInv, Account
<1>3. Unmoved(draft[s], rows[Account(s)])
  BY DEF Inv, WrittenInv, Wrote, Account
<1>4. draft[s] = NoRow
  BY <1>1, <1>2, <1>3 DEF HasRow, Unmoved, Inv, LocksInv, Account
<1>5. Rank(s) = 1
  BY <1>4 DEF Rank
<1>6. pc[t] = "stamp" => draft[t] # NoRow
  <2>1. pc[t] = "stamp" => Applied(call[t], draft[t], claim[t], rows[Account(t)])
    BY <1>1 DEF Inv, WrittenInv, Wrote, Account
  <2>2. QED BY <1>1, <2>1, VersionIsWallet DEF Inv
<1>7. Rank(t) >= 2
  BY <1>2, <1>6 DEF Rank
<1>8. QED BY <1>5, <1>7

LEMMA OrderOfLocks == ASSUME Inv, KeysInv PROVE LocksAreOrdered
<1> SUFFICES ASSUME NEW s \in Sessions, NEW t \in Sessions, t \in Blockers(s)
             PROVE  Rank(t) > Rank(s)
  BY DEF LocksAreOrdered
<1>1. Rank(s) \in 0 .. 3 /\ Rank(t) \in 0 .. 3
  BY DEF Rank
<1>2. CASE t \in RowHolders(s)
  BY <1>1, <1>2, RowHolderRanks
<1>3. CASE t \notin RowHolders(s)
  <2>1. pc[s] = "claim" /\ t \in Claimants(s)
    BY <1>3 DEF Blockers
  <2>2. QED BY <1>1, <2>1, ClaimantRanks
<1>4. QED BY <1>2, <1>3

\* Locks are only waited for in one order, for any sessions and callers: the
\* row that is inserted, then the key, then the row that is moved
\* (balances.service 249-283).
THEOREM LocksTakenInOrder == Spec => []LocksAreOrdered
<1>1. Inv /\ KeysInv => LocksAreOrdered
  BY OrderOfLocks
<1>2. QED BY <1>1, Invariant, PTL

\* So no transactions ever wait for each other in a circle.  With the
\* fairness of Spec this is what EveryTransactionEnds rests on.
THEOREM TransactionsNeverDeadlock == Spec => []NoDeadlock
<1>1. ASSUME LocksAreOrdered PROVE NoDeadlock
  <2> SUFFICES ASSUME NEW D \in SUBSET Sessions, D # {}
               PROVE  \E s \in D : Blockers(s) \cap D = {}
    BY DEF NoDeadlock
  <2>1. \A s \in D : Rank(s) \in 0 .. 3
    BY DEF Rank
  <2>2. PICK s \in D : \A t \in D : Rank(t) <= Rank(s)
    <3>1. CASE \E s \in D : Rank(s) = 3
      BY <2>1, <3>1
    <3>2. CASE (\E s \in D : Rank(s) = 2) /\ ~(\E s \in D : Rank(s) = 3)
      BY <2>1, <3>2
    <3>3. CASE (\E s \in D : Rank(s) = 1) /\ ~(\E s \in D : Rank(s) \in {2, 3})
      BY <2>1, <3>3
    <3>4. CASE ~(\E s \in D : Rank(s) \in {1, 2, 3})
      BY <2>1, <3>4
    <3>5. QED BY <3>1, <3>2, <3>3, <3>4
  <2>3. ASSUME NEW t \in Blockers(s) \cap D PROVE FALSE
    <3>1. Rank(t) > Rank(s)
      BY <1>1 DEF LocksAreOrdered
    <3>2. Rank(t) <= Rank(s) /\ Rank(t) \in 0 .. 3 /\ Rank(s) \in 0 .. 3
      BY <2>1, <2>2
    <3>3. QED BY <3>1, <3>2
  <2>4. QED BY <2>3
<1>2. Inv /\ KeysInv => NoDeadlock
  BY <1>1, OrderOfLocks
<1>3. QED BY <1>2, Invariant, PTL
=============================================================================
