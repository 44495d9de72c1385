------------------------------ MODULE Checkout -------------------------------
(***************************************************************************)
(* What the requests of Idempotency execute.  POST /payments charges the   *)
(* payment's UUID at the provider and then inserts the payment             *)
(* (PaymentsService.create, FakePixProvider.createCharge); POST /payouts   *)
(* commits the payout with its hold and then adds its job to the queue     *)
(* (PayoutsService.create).  Neither pair is one transaction.              *)
(***************************************************************************)
EXTENDS Idempotency

VARIABLES
  stage,        \* how far a request's execution got
  charges,      \* payments charged at the provider, which creates or finds one
  jobs          \* payouts with a job

checkoutVars == <<vars, stage, charges, jobs>>

Stages == {"begun", "half", "complete"}

CheckoutTypeOK ==
  /\ TypeOK
  /\ stage \in [Requests -> Stages]
  /\ charges \subseteq Requests
  /\ jobs \subseteq created

CheckoutInit ==
  /\ Init
  /\ stage = [r \in Requests |-> "begun"]
  /\ charges = {}
  /\ jobs = {}

Reach(r, s) == stage' = [stage EXCEPT ![r] = s]

\* Mutant: the charge is for a UUID of its own.
ChargeAfresh(r) ==
  /\ pc[r] = "execute" /\ Retain[r] /\ stage[r] = "begun"
  /\ charges' = charges \cup {r}
  /\ Reach(r, "half")
  /\ UNCHANGED <<vars, jobs>>

\* createCharge, with the UUID as payment_id.  The provider may act on a call
\* that times out or whose answer is refused: Fail after it is that outcome.
Charge(r) ==
  /\ pc[r] = "execute" /\ Retain[r] /\ stage[r] = "begun"
  /\ charges' = charges \cup {target[r]}
  /\ Reach(r, "half")
  /\ UNCHANGED <<vars, jobs>>

\* Mutant: the payment is inserted under a UUID of its own.
InsertPaymentAfresh(r) ==
  /\ pc[r] = "execute" /\ Retain[r] /\ stage[r] = "half"
  /\ created' = created \cup {r}
  /\ Reach(r, "complete")
  /\ UNCHANGED <<row, pc, target, answer, charges, jobs>>

\* payment.create, or the row that its P2002 leads to.
InsertPayment(r) ==
  /\ Retain[r] /\ stage[r] = "half"
  /\ Create(r)
  /\ Reach(r, "complete")
  /\ UNCHANGED <<charges, jobs>>

\* The transaction of payout.create and reserve.
InsertPayout(r) ==
  /\ ~Retain[r] /\ stage[r] = "begun"
  /\ Create(r)
  /\ Reach(r, "half")
  /\ UNCHANGED <<charges, jobs>>

\* Mutant: the job is added without waiting for the commit.
EnqueueUncommitted(r) ==
  /\ pc[r] = "execute" /\ ~Retain[r] /\ stage[r] \in {"begun", "half"}
  /\ jobs' = jobs \cup {target[r]}
  /\ Reach(r, "complete")
  /\ UNCHANGED <<vars, charges>>

\* payoutQueue.add, with the payout's id as the job's.
Enqueue(r) ==
  /\ pc[r] = "execute" /\ ~Retain[r] /\ stage[r] = "half"
  /\ jobs' = jobs \cup {target[r]}
  /\ Reach(r, "complete")
  /\ UNCHANGED <<vars, charges>>

\* Mutant: the job is added without waiting for it.
SucceedEarly(r) ==
  /\ stage[r] = "complete" \/ (stage[r] = "half" /\ ~Retain[r])
  /\ Return(r)
  /\ UNCHANGED <<stage, charges, jobs>>

Succeed(r) ==
  /\ stage[r] = "complete"
  /\ Return(r)
  /\ UNCHANGED <<stage, charges, jobs>>

\* The call, the statement or the queue fails, or did its work and fails.
Fail(r) ==
  /\ Throw(r)
  /\ UNCHANGED <<stage, charges, jobs>>

\* The steps around the execution.
Wrap(r) ==
  /\ \/ Start(r) \/ Persist(r) \/ Undo(r)
     \/ Lookup(r) \/ Poll(r) \/ Timeout(r) \/ Crash(r)
  /\ UNCHANGED <<stage, charges, jobs>>

CheckoutNext ==
  \E r \in Requests :
    \/ Charge(r)
    \/ InsertPayment(r)
    \/ InsertPayout(r)
    \/ Enqueue(r)
    \/ Succeed(r)
    \/ Fail(r)
    \/ Wrap(r)

CheckoutSpec == CheckoutInit /\ [][CheckoutNext]_checkoutVars

-----------------------------------------------------------------------------
\* Whatever payments and payouts do in the middle, a key's requests behave as
\* Idempotency says: an execution is its commit, then a return or an error.
ImplementsIdempotency == Spec

\* What a client was told of, or will be from a snapshot, is there in both of
\* the systems it lives in: the payment and its charge, the payout and its job
\* (payments.service 47-71, payouts.service 45-75).
Whole == {s \in created : IF Retain[s] THEN s \in charges ELSE s \in jobs}

AnswersAreWhole ==
  /\ \A r \in Requests : answer[r] \in Requests => answer[r] \in Whole
  /\ \A k \in Keys : row[k] # None /\ row[k].saved # None => row[k].saved \in Whole

\* "keeps one local payment and one Go charge on retry of the same
\* `Idempotency-Key`" (fase-10 12), whatever failed before it.
OneChargePerKey ==
  \A s, t \in charges : SameKey(s, t) => s = t

\* A payment is never inserted before it is charged, and a charge whose
\* payment is missing can still get it: the key retains its UUID, with no
\* response, for the next request to resume.
ChargesAreRecoverable ==
  /\ \A s \in created : Retain[s] => s \in charges
  /\ \A s \in charges \ created : Keyed(s) =>
       RowOf(s) # None /\ RowOf(s).resource = s /\ RowOf(s).saved = None
=============================================================================
