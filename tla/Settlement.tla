----------------------------- MODULE Settlement -----------------------------
(***************************************************************************)
(* How a provider's event becomes money: the webhook endpoint, the queue   *)
(* process-payment-webhook and its workers (src/webhooks).                 *)
(*                                                                         *)
(* A delivery is one signed POST of an event; the row it inserts gets a    *)
(* fresh id, so the delivery also names the row and the job that carries   *)
(* the row's id.  The job is added inside the transaction that inserts the *)
(* row, so a worker may hold the job of a row nobody can see yet.          *)
(*                                                                         *)
(* A worker reads in several steps and its writes take effect in one, the  *)
(* commit: rows it has written are locked until then, nobody else sees     *)
(* them, and the reads of Settlement never follow a write.                 *)
(***************************************************************************)
EXTENDS Ledger, PaymentStates, JobQueue

CONSTANTS
  Payments,     \* charges; each is a reference of the ledger
  BadSplits,    \* payments whose split lines do not add up to the amount
  Events,       \* provider events, (provider, event_id)
  Event,        \* per event: its type, its payment, whether its data match
  EventOf       \* the event a delivery carries

\* POSTs of events: one row and one job each.
Deliveries == Jobs

EventTypes == {"payment.paid", "payment.expired", "payment.failed"}

ASSUME SettlementAssumption ==
  /\ Payments \subseteq References
  /\ BadSplits \subseteq Payments
  /\ Event \in [Events -> [type : EventTypes, payment : Payments, matches : BOOLEAN]]
  /\ EventOf \in [Deliveries -> Events]

VARIABLES
  payment,      \* status of a payment's row, or NONE
  request,      \* where the handling of a delivery stands
  processed,    \* rows with a processed_at
  pc,           \* what a worker does next with its job
  decision,     \* the status it will write, or KEEP
  readEarly     \* history: deliveries whose row a worker looked for too early

workerVars == <<pc, decision>>
webhookVars == <<payment, request, processed, readEarly>>
vars == <<webhookVars, queueVars, workerVars, ledgerVars>>

RequestStates ==
  {"unsent", "inserted", "enqueued", "accepted", "duplicate", "error"}
Steps == {"idle", "readEvent", "readPayment", "settle", "ack"}
Decisions == PaymentStatus \cup {"KEEP"}

PaymentOf(d) == Event[EventOf[d]].payment
TypeOf(d) == Event[EventOf[d]].type
Matches(d) == Event[EventOf[d]].matches

TypeOK ==
  /\ LedgerTypeOK
  /\ QueueTypeOK
  /\ payment \in [Payments -> PaymentStatus \cup {"NONE"}]
  /\ request \in [Deliveries -> RequestStates]
  /\ processed \subseteq Deliveries
  /\ pc \in [Workers -> Steps]
  /\ decision \in [Workers -> Decisions]
  /\ readEarly \subseteq Deliveries

Init ==
  /\ LedgerInit
  /\ QueueInit
  /\ payment = [p \in Payments |-> "NONE"]
  /\ request = [d \in Deliveries |-> "unsent"]
  /\ processed = {}
  /\ pc = [w \in Workers |-> "idle"]
  /\ decision = [w \in Workers |-> "KEEP"]
  /\ readEarly = {}

-----------------------------------------------------------------------------
(* The partner's POST /payments inserts the charge, PENDING.                *)
CreatePayment(p) ==
  /\ payment[p] = "NONE"
  /\ payment' = [payment EXCEPT ![p] = "PENDING"]
  /\ UNCHANGED <<request, processed, readEarly, queueVars, workerVars, ledgerVars>>

(* acceptPaymentWebhook: insert the row, add the job, commit.               *)

\* Mutant: a lookup that sees committed rows only, in place of the index.
CommittedTwins(d, states) ==
  {e \in Deliveries \ {d} :
     EventOf[e] = EventOf[d] /\ request[e] \in states \cap {"accepted"}}

\* Other deliveries of the same event whose row is in one of the states.
Twins(d, states) ==
  {e \in Deliveries \ {d} : EventOf[e] = EventOf[d] /\ request[e] \in states}

Answer(d, state) ==
  /\ request' = [request EXCEPT ![d] = state]
  /\ UNCHANGED <<payment, processed, readEarly, workerVars, ledgerVars>>

\* The unique index makes the insert wait for an open transaction that has
\* inserted the event, and fail (P2002) on a committed one; an event of a
\* payment that is not there fails its foreign key (P2003).
Insert(d) ==
  /\ request[d] = "unsent"
  /\ Twins(d, {"inserted", "enqueued"}) = {}
  /\ \/ /\ Twins(d, {"accepted"}) # {}
        /\ Answer(d, "duplicate")
     \/ /\ Twins(d, {"accepted"}) = {}
        /\ payment[PaymentOf(d)] = "NONE"
        /\ Answer(d, "error")
     \/ /\ Twins(d, {"accepted"}) = {}
        /\ payment[PaymentOf(d)] # "NONE"
        /\ Answer(d, "inserted")
  /\ UNCHANGED queueVars

Enqueue(d) ==
  /\ request[d] = "inserted"
  /\ Answer(d, "enqueued")
  /\ AddJob(d)

CommitRow(d) ==
  /\ request[d] = "enqueued"
  /\ Answer(d, "accepted")
  /\ UNCHANGED queueVars

\* Redis refuses the job, the transaction times out, the database or the
\* process goes away: the row is rolled back, a job that was added stays.  (A
\* request that fails before its insert leaves nothing, as if never sent.)
Abort(d) ==
  /\ request[d] \in {"inserted", "enqueued"}
  /\ Answer(d, "error")
  /\ UNCHANGED queueVars

-----------------------------------------------------------------------------
(* ProcessPaymentWebhookProcessor.process, run by worker w.                 *)

Goto(w, step) == pc' = [pc EXCEPT ![w] = step]

Take(w, d) ==
  /\ TakeJob(w, d)
  /\ Goto(w, "readEvent")
  /\ UNCHANGED <<webhookVars, decision, ledgerVars>>

\* Mutant: the job carries the event and the row is not looked for.
ReadEventFromJob(w) ==
  /\ pc[w] = "readEvent"
  /\ Goto(w, IF task[w] \in processed THEN "ack" ELSE "readPayment")
  /\ UNCHANGED <<webhookVars, queueVars, decision, ledgerVars>>

\* A row that is not there, or has been processed, ends the job at once.
ReadEvent(w) ==
  LET d == task[w] IN
  /\ pc[w] = "readEvent"
  /\ \/ /\ request[d] # "accepted" \/ d \in processed
        /\ Goto(w, "ack")
     \/ /\ request[d] = "accepted" /\ d \notin processed
        /\ Goto(w, "readPayment")
  /\ readEarly' = IF request[d] = "accepted" THEN readEarly ELSE readEarly \cup {d}
  /\ UNCHANGED <<payment, request, processed, queueVars, decision, ledgerVars>>

\* Mutant: markPaid does not look at the status.
PaidWhateverStatus(d, status) ==
  IF ~Matches(d) THEN "KEEP"
  ELSE IF PaymentOf(d) \in BadSplits THEN "FAILED"
  ELSE "PAID"

\* markPaid: closed, or not what was charged, or splits that do not add up.
PaidDecision(d, status) ==
  IF ~CanTransition(status, "PAID") \/ ~Matches(d) THEN "KEEP"
  ELSE IF PaymentOf(d) \in BadSplits THEN "FAILED"
  ELSE "PAID"

\* Mutant: markStatus does not look at the status.
CloseWhateverStatus(status, to) == to

\* markStatus.
CloseDecision(status, to) == IF CanTransition(status, to) THEN to ELSE "KEEP"

Decide(d, status) ==
  CASE TypeOf(d) = "payment.paid" -> PaidDecision(d, status)
    [] TypeOf(d) = "payment.expired" -> CloseDecision(status, "EXPIRED")
    [] TypeOf(d) = "payment.failed" -> CloseDecision(status, "FAILED")

\* Mutant: the row is marked processed first, in a commit of its own.
ReadPaymentMarking(w) ==
  /\ pc[w] = "readPayment"
  /\ Goto(w, "settle")
  /\ decision' = [decision EXCEPT ![w] =
                    Decide(task[w], payment[PaymentOf(task[w])])]
  /\ processed' = processed \cup {task[w]}
  /\ UNCHANGED <<payment, request, readEarly, queueVars, ledgerVars>>

\* The last read of the payment before the decision: it locks nothing.
ReadPayment(w) ==
  /\ pc[w] = "readPayment"
  /\ Goto(w, "settle")
  /\ decision' = [decision EXCEPT ![w] =
                    Decide(task[w], payment[PaymentOf(task[w])])]
  /\ UNCHANGED <<webhookVars, queueVars, ledgerVars>>

\* The status is written whatever it has become meanwhile, a payment that is
\* marked PAID is credited, and the row is marked, in one commit.
Settle(w) ==
  LET p == PaymentOf(task[w]) IN
  /\ pc[w] = "settle"
  /\ Goto(w, "ack")
  /\ payment' = IF decision[w] = "KEEP" THEN payment
                ELSE [payment EXCEPT ![p] = decision[w]]
  /\ \/ decision[w] = "PAID" /\ CreditPayment(p)
     \/ decision[w] # "PAID" /\ UNCHANGED ledgerVars
  /\ processed' = processed \cup {task[w]}
  /\ UNCHANGED <<request, readEarly, queueVars, decision>>

\* The run is over and its locals are gone.
Leave(w) ==
  /\ Goto(w, "idle")
  /\ decision' = [decision EXCEPT ![w] = "KEEP"]
  /\ UNCHANGED <<webhookVars, ledgerVars>>

Complete(w) == pc[w] = "ack" /\ CompleteJob(w) /\ Leave(w)

\* The transaction throws: it rolls back, or its commit is not acknowledged.
Fail(w) == FailJob(w) /\ Leave(w)

\* The process dies: its transaction is rolled back if it was not committed.
Crash(w) == CrashWorker(w) /\ Leave(w)

Stall(d) == StallJob(d) /\ UNCHANGED <<webhookVars, workerVars, ledgerVars>>

Work(w) ==
  \/ \E d \in Deliveries : Take(w, d)
  \/ ReadEvent(w)
  \/ ReadPayment(w)
  \/ Settle(w)
  \/ Complete(w)
  \/ Fail(w)
  \/ Crash(w)

Handle(d) == Enqueue(d) \/ CommitRow(d) \/ Abort(d)

Next ==
  \/ \E p \in Payments : CreatePayment(p)
  \/ \E d \in Deliveries : Insert(d) \/ Handle(d) \/ Stall(d)
  \/ \E w \in Workers : Work(w)

(* A request that is being handled ends, a worker with something to do does *)
(* it, and BullMQ's stalled check finds the active job of a dead worker.    *)
Fairness ==
  /\ \A d \in Deliveries : WF_vars(Handle(d))
  /\ \A w \in Workers : WF_vars(Work(w))
  /\ \A d \in Deliveries : WF_vars(Stall(d) /\ Abandoned(d))

Spec == Init /\ [][Next]_vars

FairSpec == Spec /\ Fairness

-----------------------------------------------------------------------------
(* What holds however many workers run.  WalletMatchesLedger (Ledger) is    *)
(* checked of this module too: a payment is credited once, whatever races.  *)

\* An event has one row, whatever redeliveries of it are handled at once, so
\* one job may apply it: the insert waits for a rival's transaction to end
\* (webhooks.service 20-28, 43-46).
OneRowPerEvent ==
  \A d, e \in Deliveries :
    /\ request[d] = "accepted"
    /\ request[e] = "accepted"
    /\ EventOf[d] = EventOf[e]
    => d = e

\* An event that closes its payment has closed it once its row is marked
\* processed: the mark and the effect commit together, so no replay is needed
\* and none is made (processor 32-57).
ProcessedMeansClosed ==
  \A d \in processed :
    (TypeOf(d) = "payment.paid" => Matches(d)) =>
      payment[PaymentOf(d)] \notin {"NONE", "PENDING"}

\* Money moves only for a paid event that a committed row recorded, that was
\* processed, and that reports what was charged, on splits that add up: never
\* for a webhook whose transaction rolled back after its job was queued.
CreditsAreBacked ==
  \A p \in credits :
    /\ p \notin BadSplits
    /\ \E d \in processed :
         /\ request[d] = "accepted"
         /\ TypeOf(d) = "payment.paid" /\ PaymentOf(d) = p /\ Matches(d)

(* What holds of a single worker, and fails with two.                       *)

\* The status and the wallet tell one story: PAID exactly when credited.
PaidIffCredited == \A p \in Payments : payment[p] = "PAID" <=> p \in credits

\* A closed payment stays as it is: "a late or replayed provider event must
\* never be able to reopen it and move money" (payment-state-machine 4-6).
ClosedForGood ==
  [][\A p \in Payments :
       payment[p] \in PaymentStatus /\ IsTerminal(payment[p])
         => /\ payment'[p] = payment[p]
            /\ p \in credits' => p \in credits]_vars

(* What the order of enqueue and commit decides.                            *)

\* Giving up silently is not safe (queue.config 6-9): an accepted event that
\* is not processed has a job that will run, or a failed one to look at.
AcceptedEventHasJob ==
  \A d \in Deliveries :
    request[d] = "accepted" /\ d \notin processed =>
      job[d] \in {"waiting", "active", "failed"}

\* An accepted event is processed, or its job is kept as failed, through
\* crashes, stalls and retries, if no worker looked for its row too early.
AcceptedEventsSettle ==
  \A d \in Deliveries :
    request[d] = "accepted" /\ d \notin readEarly ~>
      d \in processed \/ job[d] = "failed"

\* Every job comes to an end, a crashed worker's too.
JobsEnd ==
  \A d \in Deliveries : job[d] = "waiting" ~> job[d] \in {"completed", "failed"}
=============================================================================
