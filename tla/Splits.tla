-------------------------------- MODULE Splits --------------------------------
(***************************************************************************)
(* The split lines of one payment: SplitsService.define, which replaces    *)
(* them in a transaction, and the settlement that reads them               *)
(* (assertValidForSettlement, called by markPaid).                         *)
(*                                                                         *)
(* The transaction is READ COMMITTED: it reads the payment's status        *)
(* without a lock, its DELETE finds the lines that are committed when it   *)
(* starts and locks them one by one, and each INSERT waits for whoever     *)
(* holds its party in the unique index (payment_id, party).  The           *)
(* settlement reads the lines on another connection than the one it writes *)
(* the status with.                                                        *)
(***************************************************************************)
EXTENDS Integers, Sequences, FiniteSets, FiniteSetsExt, PaymentStates

CONSTANTS
  Definitions,  \* POSTs of split lines
  LinesOf,      \* the lines of each, in its order: party and amount
  Amount        \* the payment's

ASSUME SplitsAssumption ==
  /\ IsFiniteSet(Definitions)
  /\ \A d \in Definitions : LinesOf[d] \in Seq([party : STRING, amount : Int])

VARIABLES
  status,       \* of the payment
  lines,        \* payment_splits, committed
  pc,           \* what a definition does next
  found,        \* lines its DELETE found and has yet to come to, in its order
  gone,         \* lines it has deleted, not yet committed
  written,      \* lines it has inserted, not yet committed
  met,          \* history: definitions that were open while it was
  settling,     \* what the settlement does next
  read          \* the lines it read last

defineVars == <<lines, pc, found, gone, written, met>>
settleVars == <<status, settling, read>>
vars == <<defineVars, settleVars>>

\* A line is named by the definition that wrote it and its place there.
LinesBy(d) == {<<d, i>> : i \in DOMAIN LinesOf[d]}
AllLines == UNION {LinesBy(d) : d \in Definitions}
Party(l) == LinesOf[l[1]][l[2]].party
Total(L) == MapThenSumSet(LAMBDA l : LinesOf[l[1]][l[2]].amount, L)

Open(d) == pc[d] \in {"start", "delete", "insert"}

\* What each variable holds; the unique index keeps one line per party.
SplitsTypeOK ==
  /\ status \in {"PENDING", "PAID", "FAILED", "EXPIRED"}
  /\ lines \subseteq AllLines
  /\ pc \in [Definitions -> {"unsent", "start", "delete", "insert", "done", "refused"}]
  /\ found \in [Definitions -> Seq(AllLines)]
  /\ gone \in [Definitions -> SUBSET lines]
  /\ written \in [Definitions -> SUBSET AllLines]
  /\ \A d \in Definitions : written[d] \subseteq LinesBy(d)
  /\ met \in [Definitions -> SUBSET Definitions]
  /\ settling \in {"read", "write"} /\ read \subseteq AllLines
  /\ \A l, m \in lines : Party(l) = Party(m) => l = m

Init ==
  /\ status = "PENDING" /\ lines = {}
  /\ pc = [d \in Definitions |-> "unsent"]
  /\ found = [d \in Definitions |-> <<>>]
  /\ gone = [d \in Definitions |-> {}]
  /\ written = [d \in Definitions |-> {}]
  /\ met = [d \in Definitions |-> {}]
  /\ settling = "read" /\ read = {}

-----------------------------------------------------------------------------
(* define.                                                                  *)

Goto(d, step) == pc' = [pc EXCEPT ![d] = step]

\* Mutant: the sum is left to the settlement to check.
AcceptedAnySum(d) == ~IsTerminal(status)

Accepted(d) == ~IsTerminal(status) /\ Total(LinesBy(d)) = Amount

\* The status and the sum of the lines are checked.
Read(d) ==
  /\ pc[d] = "unsent"
  /\ \/ /\ ~Accepted(d)
        /\ Goto(d, "refused")
        /\ UNCHANGED met
     \/ /\ Accepted(d)
        /\ Goto(d, "start")
        /\ met' = [e \in Definitions |->
                     IF e = d THEN {f \in Definitions : Open(f)}
                     ELSE IF Open(e) THEN met[e] \cup {d} ELSE met[e]]
  /\ UNCHANGED <<lines, found, gone, written, settleVars>>

\* The orders a DELETE may come to the lines L in: its plan's.
ScansOf(L) == {scan \in [1 .. Cardinality(L) -> L] : Range(scan) = L}

\* Mutant: only the lines of the parties that are written again are deleted.
StartDeleteOwnParties(d) ==
  /\ pc[d] = "start"
  /\ Goto(d, "delete")
  /\ \E scan \in ScansOf({l \in lines : \E m \in LinesBy(d) : Party(l) = Party(m)}) :
       found' = [found EXCEPT ![d] = scan]
  /\ UNCHANGED <<lines, gone, written, met, settleVars>>

\* deleteMany takes its snapshot.
StartDelete(d) ==
  /\ pc[d] = "start"
  /\ Goto(d, "delete")
  /\ \E scan \in ScansOf(lines) : found' = [found EXCEPT ![d] = scan]
  /\ UNCHANGED <<lines, gone, written, met, settleVars>>

\* d has come to a line that e has deleted, uncommitted.
DeleteWaits(d, e) ==
  /\ pc[d] = "delete" /\ found[d] # <<>> /\ e # d
  /\ Head(found[d]) \in gone[e]

\* It deletes a line once nobody else does, and skips one that is no longer
\* stored.  What others have inserted since its start it has not found.
DeleteLine(d) ==
  /\ pc[d] = "delete" /\ found[d] # <<>>
  /\ \A e \in Definitions : ~DeleteWaits(d, e)
  /\ gone' = [gone EXCEPT ![d] = @ \cup ({Head(found[d])} \cap lines)]
  /\ found' = [found EXCEPT ![d] = Tail(@)]
  /\ UNCHANGED <<lines, pc, written, met, settleVars>>

EndDelete(d) ==
  /\ pc[d] = "delete" /\ found[d] = <<>>
  /\ Goto(d, "insert")
  /\ UNCHANGED <<lines, found, gone, written, met, settleVars>>

\* Everything that a definition holds is let go.
End(d, step) ==
  /\ Goto(d, step)
  /\ found' = [found EXCEPT ![d] = <<>>]
  /\ gone' = [gone EXCEPT ![d] = {}]
  /\ written' = [written EXCEPT ![d] = {}]
  /\ UNCHANGED <<met, settleVars>>

\* The line that d inserts next, if any: they are inserted in order.
NextLine(d) ==
  {l \in LinesBy(d) \ written[d] :
     \A m \in LinesBy(d) \ written[d] : l[2] <= m[2]}
SameParty(l, L) == \E m \in L : Party(m) = Party(l)

\* d's next line is of a party that e has written or deleted, uncommitted.
InsertWaits(d, e) ==
  /\ pc[d] = "insert" /\ e # d
  /\ \E l \in NextLine(d) : SameParty(l, written[e] \cup gone[e])

\* A line is inserted, once its party is free.
Add(d, l) ==
  /\ ~SameParty(l, (lines \ gone[d]) \cup written[d])
  /\ written' = [written EXCEPT ![d] = @ \cup {l}]
  /\ UNCHANGED <<lines, pc, found, gone, met, settleVars>>

\* Or the index refuses it (P2002): another definition has committed the party
\* in between, or this one names it twice.
Refuse(d, l) ==
  /\ SameParty(l, (lines \ gone[d]) \cup written[d])
  /\ End(d, "refused")
  /\ UNCHANGED lines

\* Mutant: a line that the index refuses is tried again.
InsertRetrying(d) ==
  /\ pc[d] = "insert"
  /\ \A e \in Definitions : ~InsertWaits(d, e)
  /\ \E l \in NextLine(d) : Add(d, l)

\* Mutant: the table has no unique index.
InsertUnindexed(d) ==
  /\ pc[d] = "insert"
  /\ written' = [written EXCEPT ![d] = @ \cup NextLine(d)]
  /\ UNCHANGED <<lines, pc, found, gone, met, settleVars>>

\* Mutant: deletions and insertions are committed one by one.
InsertAlone(d) ==
  /\ pc[d] = "insert"
  /\ lines' = (lines \ gone[d]) \cup NextLine(d)
  /\ written' = [written EXCEPT ![d] = @ \cup NextLine(d)]
  /\ gone' = [gone EXCEPT ![d] = {}]
  /\ UNCHANGED <<pc, found, met, settleVars>>

Insert(d) ==
  /\ pc[d] = "insert"
  /\ \A e \in Definitions : ~InsertWaits(d, e)
  /\ \E l \in NextLine(d) : Add(d, l) \/ Refuse(d, l)

Commit(d) ==
  /\ pc[d] = "insert" /\ written[d] = LinesBy(d)
  /\ lines' = (lines \ gone[d]) \cup written[d]
  /\ End(d, "done")

\* A statement fails, or the transaction takes too long.
Rollback(d) ==
  /\ Open(d)
  /\ End(d, "refused")
  /\ UNCHANGED lines

Waits(d, e) == DeleteWaits(d, e) \/ InsertWaits(d, e)

\* Definitions that wait for each other: PostgreSQL makes one of them fail.
Deadlocked(d) ==
  \E W \in SUBSET Definitions :
    d \in W /\ \A e \in W : \E f \in W : Waits(e, f)

BreakDeadlock(d) == Open(d) /\ Deadlocked(d) /\ Rollback(d)

Define(d) ==
  \/ Read(d)
  \/ StartDelete(d)
  \/ DeleteLine(d)
  \/ EndDelete(d)
  \/ Insert(d)
  \/ Commit(d)

-----------------------------------------------------------------------------
(* The payment's closure, by the one worker that has its event.             *)

\* markPaid up to assertValidForSettlement's findMany.
ReadLines ==
  /\ settling = "read" /\ CanTransition(status, "PAID")
  /\ settling' = "write"
  /\ read' = lines
  /\ UNCHANGED <<status, defineVars>>

\* Its verdict, written and committed.
Settle ==
  /\ settling = "write"
  /\ settling' = "read"
  /\ status' = IF read = {} \/ Total(read) = Amount THEN "PAID" ELSE "FAILED"
  /\ UNCHANGED <<read, defineVars>>

\* The attempt fails; the job runs again.
Retry ==
  /\ settling = "write"
  /\ settling' = "read"
  /\ UNCHANGED <<status, read, defineVars>>

\* markStatus: another event closes the payment.
Expire ==
  /\ settling = "read" /\ CanTransition(status, "EXPIRED")
  /\ status' = "EXPIRED"
  /\ UNCHANGED <<settling, read, defineVars>>

Next ==
  \/ \E d \in Definitions :
       \/ Read(d)
       \/ StartDelete(d)
       \/ DeleteLine(d)
       \/ EndDelete(d)
       \/ Insert(d)
       \/ Commit(d)
       \/ Rollback(d)
  \/ ReadLines
  \/ Settle
  \/ Retry
  \/ Expire

Spec == Init /\ [][Next]_vars

\* PostgreSQL runs a statement whose locks are free, and ends a deadlock.
Fairness ==
  /\ \A d \in Definitions : WF_vars(Define(d) /\ Open(d))
  /\ WF_vars(\E d \in Definitions : BreakDeadlock(d))

FairSpec == Spec /\ Fairness

-----------------------------------------------------------------------------
\* The lines that are stored, and those a settlement has read, are of whole
\* definitions, whatever ran at once or failed in the middle (splits.service
\* 57-71).
DefinitionsAreWhole ==
  \A L \in {lines, read} : \A l \in L : LinesBy(l[1]) \subseteq L

\* Lines of two definitions are stored side by side only if the two were open
\* at once and have no party in common: one that starts later deletes all it
\* finds.
DoubledOnlyByOverlap ==
  \A l, m \in lines : l[1] # m[1] =>
    /\ m[1] \in met[l[1]]
    /\ {Party(k) : k \in LinesBy(l[1])} \cap {Party(k) : k \in LinesBy(m[1])} = {}

\* A settlement is refused for its splits (splits.service 94-105) only when it
\* has read the lines of several definitions: one alone adds up.
FailsOnlyOnDoubledLines ==
  status = "FAILED" => \E l, m \in read : l[1] # m[1]

\* A definition that was begun ends, also when it waits for another that waits
\* for it.
DefinitionsEnd == \A d \in Definitions : Open(d) ~> ~Open(d)

\* "Rewriting them after the money moved would leave the ledger describing a
\* split that never happened" (splits.service 31-33): the lines of a closed
\* payment do not change.
LinesFixedWhenClosed == [][IsTerminal(status) => lines' = lines]_vars
=============================================================================
