------------------------------ MODULE Payouts -------------------------------
(***************************************************************************)
(* Payouts: a request reserves the money and inserts a QUEUED row in one   *)
(* transaction, then adds a job; the job's worker locks the row, confirms  *)
(* the hold and marks the payout (src/payouts/payouts.service).            *)
(*                                                                         *)
(* A request inserts a row with a fresh id, which also names the job, so   *)
(* the payout stands for the request, the row and the job.  Each of the    *)
(* two transactions holds from its first write to its commit every lock    *)
(* its outcome depends on, and is one step here (Balances has their        *)
(* statements); what lies between them is not.                             *)
(***************************************************************************)
EXTENDS Ledger, JobQueue

CONSTANTS
  Payments,     \* settled charges, whose credits fund the wallets
  External,     \* per payout: the partner's external_id, or NoExternal
  NoExternal    \* a request without an external_id

Payouts == Jobs

ASSUME PayoutsAssumption ==
  /\ Payments \subseteq References
  /\ Payouts \subseteq References
  /\ Payments \cap Payouts = {}
  /\ \A q \in Payouts : Amount[q] > 0

VARIABLES
  status,       \* status of the payout's row, or NONE
  request,      \* where the POST /payouts stands
  pc            \* what a worker does next with its job

vars == <<status, request, pc, queueVars, ledgerVars>>

PayoutStatus == {"QUEUED", "COMPLETED", "FAILED"}
RequestStates == {"unsent", "committed", "answered", "refused", "conflict", "lost"}
Steps == {"idle", "lock", "confirm", "ack"}

TypeOK ==
  /\ LedgerTypeOK
  /\ QueueTypeOK
  /\ status \in [Payouts -> PayoutStatus \cup {"NONE"}]
  /\ request \in [Payouts -> RequestStates]
  /\ pc \in [Workers -> Steps]

Init ==
  /\ LedgerInit
  /\ QueueInit
  /\ status = [q \in Payouts |-> "NONE"]
  /\ request = [q \in Payouts |-> "unsent"]
  /\ pc = [w \in Workers |-> "idle"]

-----------------------------------------------------------------------------
\* A settlement credits the partner (Settlement has the steps it takes).
Fund(p) ==
  /\ CreditPayment(p)
  /\ UNCHANGED <<status, request, pc, queueVars>>

\* The partner already has a payout of this external_id.
ExternalTaken(q) ==
  /\ External[q] # NoExternal
  /\ \E o \in Payouts : /\ status[o] # "NONE"
                        /\ External[o] = External[q]
                        /\ AccountOf[o] = AccountOf[q]

Answer(q, state) == request' = [request EXCEPT ![q] = state]

\* The transaction of create: the row and its hold, or neither.
Create(q) ==
  /\ request[q] = "unsent"
  /\ \/ /\ ExternalTaken(q)
        /\ Answer(q, "conflict")
        /\ UNCHANGED <<status, ledgerVars>>
     \/ /\ ~ExternalTaken(q) /\ ~CanReserve(q)
        /\ Answer(q, "refused")
        /\ UNCHANGED <<status, ledgerVars>>
     \/ /\ ~ExternalTaken(q)
        /\ Reserve(q)
        /\ status' = [status EXCEPT ![q] = "QUEUED"]
        /\ Answer(q, "committed")
  /\ UNCHANGED <<pc, queueVars>>

\* The job is added after the commit.
Enqueue(q) ==
  /\ request[q] = "committed"
  /\ AddJob(q)
  /\ Answer(q, "answered")
  /\ UNCHANGED <<status, pc, ledgerVars>>

\* Mutant: a failed enqueue gives the hold back and leaves the row QUEUED.
LoseRequestReleasing(q) ==
  /\ request[q] = "committed"
  /\ AddJob(q) \/ UNCHANGED queueVars
  /\ Release(q)
  /\ Answer(q, "lost")
  /\ UNCHANGED <<status, pc>>

\* Redis refuses the job, or takes it and the answer is lost, or the process
\* dies first: the client gets no 202, the row and its hold stay.
LoseRequest(q) ==
  /\ request[q] = "committed"
  /\ AddJob(q) \/ UNCHANGED queueVars
  /\ Answer(q, "lost")
  /\ UNCHANGED <<status, pc, ledgerVars>>

-----------------------------------------------------------------------------
(* ProcessPayoutProcessor, run by worker w.                                 *)

Goto(w, step) == pc' = [pc EXCEPT ![w] = step]

Take(w, q) ==
  /\ TakeJob(w, q)
  /\ Goto(w, "lock")
  /\ UNCHANGED <<status, request, ledgerVars>>

\* The row lock is held from SELECT ... FOR UPDATE to the end of the run's
\* transaction.
Locked(q) == \E v \in Workers : pc[v] = "confirm" /\ task[v] = q

\* Mutant: the status change commits before the confirmation.
LockPayoutClosing(w) ==
  LET q == task[w] IN
  /\ pc[w] = "lock"
  /\ ~Locked(q)
  /\ Goto(w, IF status[q] = "QUEUED" THEN "confirm" ELSE "ack")
  /\ status' = [status EXCEPT ![q] = IF @ = "QUEUED" THEN "COMPLETED" ELSE @]
  /\ UNCHANGED <<request, queueVars, ledgerVars>>

\* Whoever gets the lock reads what the previous holder committed.
LockPayout(w) ==
  LET q == task[w] IN
  /\ pc[w] = "lock"
  /\ ~Locked(q)
  /\ Goto(w, IF status[q] = "QUEUED" THEN "confirm" ELSE "ack")
  /\ UNCHANGED <<status, request, queueVars, ledgerVars>>

\* PROCESSING, the confirmation and the outcome commit together: COMPLETED
\* or, on a domain failure, FAILED with the hold given back if it is there.
Confirm(w) ==
  LET q == task[w] IN
  /\ pc[w] = "confirm"
  /\ Goto(w, "ack")
  /\ status' = [status EXCEPT ![q] = IF CanConfirm(q) THEN "COMPLETED" ELSE "FAILED"]
  /\ IF CanConfirm(q) THEN ConfirmDebit(q)
     ELSE IF CanRelease(q) THEN Release(q)
     ELSE UNCHANGED ledgerVars
  /\ UNCHANGED <<request, queueVars>>

Leave(w) == Goto(w, "idle") /\ UNCHANGED <<status, request, ledgerVars>>

Complete(w) == pc[w] = "ack" /\ CompleteJob(w) /\ Leave(w)

\* Any error but a domain failure is rethrown: the transaction rolls back, or
\* had committed without the worker knowing.
Fail(w) == FailJob(w) /\ Leave(w)

Crash(w) == CrashWorker(w) /\ Leave(w)

Stall(q) == StallJob(q) /\ UNCHANGED <<status, request, pc, ledgerVars>>

Work(w) ==
  \/ \E q \in Payouts : Take(w, q)
  \/ LockPayout(w)
  \/ Confirm(w)
  \/ Complete(w)
  \/ Fail(w)
  \/ Crash(w)

Next ==
  \/ \E p \in Payments : Fund(p)
  \/ \E q \in Payouts : Create(q) \/ Enqueue(q) \/ LoseRequest(q) \/ Stall(q)
  \/ \E w \in Workers : Work(w)

(* As in Settlement; a request that has committed goes on, or is lost.      *)
Fairness ==
  /\ \A q \in Payouts : WF_vars(Enqueue(q) \/ LoseRequest(q))
  /\ \A w \in Workers : WF_vars(Work(w))
  /\ \A q \in Payouts : WF_vars(Stall(q) /\ Abandoned(q))

Spec == Init /\ [][Next]_vars

FairSpec == Spec /\ Fairness

-----------------------------------------------------------------------------
Queued(a) == {q \in Payouts : AccountOf[q] = a /\ status[q] = "QUEUED"}

\* The held money of an account is exactly what its QUEUED payouts hold: the
\* row and the hold appear in one commit, and the hold is consumed in the
\* commit that closes the row, whatever stalls, crashes or runs twice.
HoldsCoverQueued == \A a \in Accounts : pending[a] = Total(Queued(a))

\* A payout is COMPLETED exactly when the ledger has its debit: the runbook's
\* two repairs (incidents.md) have nothing to repair.
CompletedIffDebited == \A q \in Payouts : status[q] = "COMPLETED" <=> q \in debits

\* The hold of a queued payout is always there to confirm, so the branch that
\* records FAILED is never taken (payouts.service 116-142).
NoPayoutFails == \A q \in Payouts : status[q] # "FAILED"

\* A payout the API answered 202 for is completed, or its job is kept failed.
AnsweredPayoutsEnd ==
  \A q \in Payouts :
    request[q] = "answered" ~> status[q] = "COMPLETED" \/ job[q] = "failed"
=============================================================================
