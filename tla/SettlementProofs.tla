-------------------------- MODULE SettlementProofs --------------------------
(***************************************************************************)
(* The safety of Settlement, for any deliveries, workers, attempts and     *)
(* amounts.  Inv is inductive: the invariants the runs check, and what     *)
(* they need about rows that are not committed yet and about workers in    *)
(* the middle of a job.  It is kept part by part, one lemma for each.      *)
(***************************************************************************)
EXTENDS Settlement, LedgerProofs, QueueProofs

OpenRow == {"inserted", "enqueued", "accepted"}
Closed == {"PAID", "EXPIRED", "FAILED", "CANCELLED"}

\* A row, committed or not, has a payment, and its event has no other row.
RowsInv ==
  /\ \A d \in Deliveries : request[d] \in OpenRow => payment[PaymentOf(d)] # "NONE"
  /\ \A d, e \in Deliveries :
       request[d] \in OpenRow /\ request[e] \in OpenRow /\ EventOf[d] = EventOf[e]
         => d = e

\* A worker that got past the row has seen it committed.
WorkersInv ==
  \A w \in Workers :
    /\ pc[w] = "idle" <=> task[w] = NoTask
    /\ pc[w] \in {"readPayment", "settle"} => request[task[w]] = "accepted"

\* A decision stands on the event, or on a payment that has closed for good.
Sound(d, to) ==
  /\ to \in {"KEEP", "PAID", "EXPIRED", "FAILED"}
  /\ to = "PAID" => /\ TypeOf(d) = "payment.paid" /\ Matches(d)
                    /\ PaymentOf(d) \notin BadSplits
  /\ to = "KEEP" => \/ TypeOf(d) = "payment.paid" /\ ~Matches(d)
                    \/ payment[PaymentOf(d)] \in Closed

DecisionsInv == \A w \in Workers : pc[w] = "settle" => Sound(task[w], decision[w])

\* ProcessedMeansClosed, with the payment known not to be missing.
ProcessedInv ==
  \A d \in processed :
    (TypeOf(d) = "payment.paid" => Matches(d)) => payment[PaymentOf(d)] \in Closed

\* A row's job is added before the row commits, and is completed only by a
\* worker that marked the row, found it marked, or found no row.
JobsInv ==
  /\ \A d \in Deliveries : request[d] \in {"enqueued", "accepted"} => job[d] # "none"
  /\ \A w \in Workers : pc[w] = "ack" => task[w] \in processed \cup readEarly
  /\ \A d \in Deliveries : job[d] = "completed" => d \in processed \cup readEarly

Inv ==
  /\ TypeOK
  /\ LedgerInv
  /\ QueueInv
  /\ RowsInv
  /\ WorkersInv
  /\ JobsInv
  /\ DecisionsInv
  /\ ProcessedInv
  /\ CreditsAreBacked

\* What the assumptions say of a delivery.
LEMMA DeliveryFacts ==
  ASSUME NEW d \in Deliveries
  PROVE  /\ PaymentOf(d) \in Payments /\ PaymentOf(d) \in References
         /\ TypeOf(d) \in EventTypes /\ Matches(d) \in BOOLEAN
<1>1. EventOf[d] \in Events
  BY SettlementAssumption
<1>2. Event[EventOf[d]] \in [type : EventTypes, payment : Payments, matches : BOOLEAN]
  BY <1>1, SettlementAssumption
<1> QED BY <1>2, SettlementAssumption DEF PaymentOf, TypeOf, Matches

\* A worker that runs a job runs one of the deliveries'.
LEMMA TaskFacts ==
  ASSUME TypeOK, WorkersInv, NEW w \in Workers, pc[w] # "idle"
  PROVE  task[w] \in Deliveries
BY DEF TypeOK, QueueTypeOK, WorkersInv, Deliveries

LEMMA InitInv == ASSUME Init PROVE Inv
<1>1. LedgerInv /\ QueueInv
  BY LedgerInitInv, QueueInitInv DEF Init
<1>2. TypeOK
  BY <1>1 DEF Init, TypeOK, LedgerInv, QueueInv, RequestStates, Steps, Decisions
<1>3. RowsInv
  BY DEF Init, RowsInv, OpenRow
<1>4. WorkersInv /\ DecisionsInv /\ JobsInv
  BY DEF Init, QueueInit, WorkersInv, DecisionsInv, JobsInv, Deliveries
<1>5. ProcessedInv /\ CreditsAreBacked
  BY DEF Init, LedgerInit, ProcessedInv, CreditsAreBacked
<1> QED BY <1>1, <1>2, <1>3, <1>4, <1>5 DEF Inv

-----------------------------------------------------------------------------
\* Every step moves the ledger by one credit of a payment, or not at all.
LEMMA LedgerStep ==
  ASSUME Inv, [Next]_vars
  PROVE  (\E p \in Payments : CreditPayment(p)) \/ UNCHANGED ledgerVars
<1>1. ASSUME NEW w \in Workers, Settle(w)
      PROVE  (\E p \in Payments : CreditPayment(p)) \/ UNCHANGED ledgerVars
  <2>1. task[w] \in Deliveries
    BY <1>1, TaskFacts DEF Inv, Settle
  <2> QED BY <1>1, <2>1, DeliveryFacts DEF Settle
<1>2. CASE UNCHANGED vars
  BY <1>2 DEF vars
<1>3. CASE Next
  BY <1>1, <1>3
  DEF Next, CreatePayment, Insert, Handle, Enqueue, CommitRow, Abort, Answer, Stall,
      Work, Take, ReadEvent, ReadPayment, Complete, Fail, Crash, Leave
<1> QED BY <1>2, <1>3

LEMMA LedgerInvStep == ASSUME Inv, [Next]_vars PROVE LedgerInv'
<1>1. CASE UNCHANGED ledgerVars
  BY <1>1, LedgerStutter DEF Inv
<1>2. ASSUME NEW p \in Payments, CreditPayment(p) PROVE LedgerInv'
  BY <1>2, SettlementAssumption, CreditKeepsInv DEF Inv
<1> QED BY <1>1, <1>2, LedgerStep

\* Whatever a step does to the queue, it is one of the queue's operations.
LEMMA UsesQueue ==
  ASSUME [Next]_vars
  PROVE  [GoOn]_queueVars \/ \E w \in Workers : Complete(w) /\ CompleteJob(w)
<1> USE DEF Deliveries, GoOn
<1>1. ASSUME NEW d \in Deliveries, Insert(d) \/ Handle(d) \/ Stall(d)
      PROVE  [GoOn]_queueVars
  BY <1>1 DEF Insert, Handle, Enqueue, CommitRow, Abort, Stall
<1>2. ASSUME NEW w \in Workers, Work(w), ~Complete(w) PROVE [GoOn]_queueVars
  BY <1>2 DEF Work, Take, ReadEvent, ReadPayment, Settle, Fail, Crash
<1>3. ASSUME NEW p \in Payments, CreatePayment(p) PROVE [GoOn]_queueVars
  BY <1>3 DEF CreatePayment
<1>4. CASE UNCHANGED vars
  BY <1>4 DEF vars
<1>5. ASSUME NEW w \in Workers, Complete(w) PROVE CompleteJob(w)
  BY <1>5 DEF Complete
<1> QED BY <1>1, <1>2, <1>3, <1>4, <1>5 DEF Next

LEMMA QueueInvStep == ASSUME Inv, [Next]_vars PROVE QueueInv'
BY UsesQueue, QueueStepInv DEF Inv, QueueStep

-----------------------------------------------------------------------------
\* What Settle does to payments: the decided status, or nothing.
LEMMA SettleFacts ==
  ASSUME Inv, NEW w \in Workers, Settle(w)
  PROVE  /\ task[w] \in Deliveries
         /\ request[task[w]] = "accepted"
         /\ Sound(task[w], decision[w])
         /\ \/ decision[w] = "KEEP" /\ payment' = payment
            \/ /\ decision[w] \in {"PAID", "EXPIRED", "FAILED"}
               /\ payment' = [payment EXCEPT ![PaymentOf(task[w])] = decision[w]]
BY TaskFacts DEF Inv, Settle, WorkersInv, DecisionsInv, Sound

\* A decision is sound when it is made, on the status just read.
LEMMA DecideSound ==
  ASSUME NEW d \in Deliveries, TypeOK, payment[PaymentOf(d)] # "NONE"
  PROVE  Sound(d, Decide(d, payment[PaymentOf(d)]))
<1> DEFINE status == payment[PaymentOf(d)]
<1>1. status \in PaymentStatus
  BY DeliveryFacts DEF TypeOK
<1>2. CASE TypeOf(d) = "payment.paid"
  BY <1>1, <1>2, DeliveryFacts
  DEF Decide, PaidDecision, CanTransition, AllowedTransitions, PaymentStatus, Sound,
      Closed
<1>3. CASE TypeOf(d) = "payment.expired"
  BY <1>1, <1>3
  DEF Decide, CloseDecision, CanTransition, AllowedTransitions, PaymentStatus, Sound,
      Closed
<1>4. CASE TypeOf(d) = "payment.failed"
  BY <1>1, <1>4
  DEF Decide, CloseDecision, CanTransition, AllowedTransitions, PaymentStatus, Sound,
      Closed
<1> QED BY <1>2, <1>3, <1>4, DeliveryFacts DEF EventTypes

\* A payment that exists never vanishes, and one that is closed stays closed,
\* though two workers may still disagree on how.
LEMMA ClosedStays ==
  ASSUME Inv, [Next]_vars, NEW p \in Payments
  PROVE  /\ payment[p] # "NONE" => payment'[p] # "NONE"
         /\ payment[p] \in Closed => payment'[p] \in Closed
<1>1. CASE payment' = payment
  BY <1>1
<1>2. ASSUME NEW q \in Payments, CreatePayment(q)
      PROVE  /\ payment[p] # "NONE" => payment'[p] # "NONE"
             /\ payment[p] \in Closed => payment'[p] \in Closed
  BY <1>2 DEF CreatePayment, Closed, Inv, TypeOK
<1>3. ASSUME NEW w \in Workers, Settle(w)
      PROVE  /\ payment[p] # "NONE" => payment'[p] # "NONE"
             /\ payment[p] \in Closed => payment'[p] \in Closed
  BY <1>3, SettleFacts, DeliveryFacts DEF Closed, Inv, TypeOK
<1>4. ASSUME NEW w \in Workers, Work(w), ~Settle(w) PROVE payment' = payment
  BY <1>4 DEF Work, Take, ReadEvent, ReadPayment, Complete, Fail, Crash, Leave,
              webhookVars
<1>5. ASSUME NEW d \in Deliveries, Insert(d) \/ Handle(d) \/ Stall(d)
      PROVE  payment' = payment
  BY <1>5 DEF Insert, Handle, Enqueue, CommitRow, Abort, Answer, Stall, webhookVars
<1>6. CASE UNCHANGED vars
  BY <1>1, <1>6 DEF vars, webhookVars
<1> QED BY <1>1, <1>2, <1>3, <1>4, <1>5, <1>6 DEF Next

LEMMA TypeStep == ASSUME Inv, [Next]_vars PROVE TypeOK'
<1> USE DEF RequestStates, Steps, Decisions
<1>1. LedgerTypeOK' /\ QueueTypeOK'
  BY LedgerInvStep, QueueInvStep DEF LedgerInv, QueueInv
<1> DEFINE Rest == /\ payment \in [Payments -> PaymentStatus \cup {"NONE"}]
                   /\ request \in [Deliveries -> RequestStates]
                   /\ processed \subseteq Deliveries
                   /\ pc \in [Workers -> Steps]
                   /\ decision \in [Workers -> Decisions]
                   /\ readEarly \subseteq Deliveries
<1> USE DEF Inv, TypeOK
<1>2. ASSUME NEW p \in Payments, CreatePayment(p) PROVE Rest'
  BY <1>2 DEF CreatePayment, PaymentStatus, workerVars
<1>3. ASSUME NEW d \in Deliveries, Insert(d) PROVE Rest'
  BY <1>3 DEF Insert, Answer, workerVars
<1>4. ASSUME NEW d \in Deliveries, Handle(d) PROVE Rest'
  BY <1>4 DEF Handle, Enqueue, CommitRow, Abort, Answer, workerVars
<1>5. ASSUME NEW d \in Deliveries, Stall(d) PROVE Rest'
  BY <1>5 DEF Stall, workerVars, webhookVars
<1>6. ASSUME NEW w \in Workers, Work(w), ~Settle(w), ~ReadPayment(w) PROVE Rest'
  <2>1. CASE ReadEvent(w)
    <3>1. task[w] \in Deliveries
      BY <2>1, TaskFacts DEF ReadEvent
    <3> QED BY <2>1, <3>1 DEF ReadEvent, Goto
  <2>2. CASE ~ReadEvent(w)
    BY <1>6, <2>2
    DEF Work, Take, Complete, Fail, Crash, Leave, Goto, webhookVars
  <2> QED BY <2>1, <2>2
<1>7. ASSUME NEW w \in Workers, ReadPayment(w) PROVE Rest'
  <2>1. task[w] \in Deliveries /\ payment[PaymentOf(task[w])] # "NONE"
    BY <1>7, TaskFacts DEF ReadPayment, WorkersInv, RowsInv, OpenRow
  <2>2. Decide(task[w], payment[PaymentOf(task[w])]) \in Decisions
    BY <2>1, DecideSound DEF Sound, PaymentStatus
  <2> QED BY <1>7, <2>2 DEF ReadPayment, Goto, webhookVars
<1>8. ASSUME NEW w \in Workers, Settle(w) PROVE Rest'
  <2>1. payment' \in [Payments -> PaymentStatus \cup {"NONE"}]
    BY <1>8, SettleFacts DEF PaymentStatus
  <2>2. /\ processed' = processed \cup {task[w]}
        /\ pc' = [pc EXCEPT ![w] = "ack"]
        /\ UNCHANGED <<request, readEarly, decision>>
    BY <1>8 DEF Settle, Goto
  <2>3. task[w] \in Deliveries
    BY <1>8, SettleFacts
  <2> QED BY <2>1, <2>2, <2>3
<1>9. ASSUME UNCHANGED vars PROVE Rest'
  BY <1>9 DEF vars, webhookVars, workerVars
<1>10. Rest'
  BY <1>2, <1>3, <1>4, <1>5, <1>6, <1>7, <1>8, <1>9 DEF Next
<1> QED BY <1>1, <1>10 DEF TypeOK

-----------------------------------------------------------------------------
\* A request moves on only until its row is committed, and a row comes into
\* being only where its event has no other.
LEMMA RequestStep ==
  ASSUME Inv, [Next]_vars
  PROVE  \/ request' = request
         \/ \E d \in Deliveries, state \in RequestStates :
              /\ request' = [request EXCEPT ![d] = state]
              /\ request[d] # "accepted"
              /\ state \in OpenRow =>
                   \/ request[d] \in OpenRow
                   \/ /\ payment[PaymentOf(d)] # "NONE"
                      /\ \A e \in Deliveries \ {d} :
                           EventOf[e] = EventOf[d] => request[e] \notin OpenRow
<1> DEFINE Moved(d, state) ==
             /\ request' = [request EXCEPT ![d] = state]
             /\ request[d] # "accepted"
             /\ state \in OpenRow =>
                  \/ request[d] \in OpenRow
                  \/ /\ payment[PaymentOf(d)] # "NONE"
                     /\ \A e \in Deliveries \ {d} :
                          EventOf[e] = EventOf[d] => request[e] \notin OpenRow
<1>1. ASSUME NEW d \in Deliveries, Insert(d)
      PROVE  \E state \in RequestStates : Moved(d, state)
  <2>1. CASE request' = [request EXCEPT ![d] = "inserted"]
    BY <1>1, <2>1 DEF Insert, Answer, Twins, OpenRow, RequestStates
  <2>2. CASE request' = [request EXCEPT ![d] = "duplicate"]
    BY <1>1, <2>2 DEF Insert, OpenRow, RequestStates
  <2>3. CASE request' = [request EXCEPT ![d] = "error"]
    BY <1>1, <2>3 DEF Insert, OpenRow, RequestStates
  <2>4. \E state \in {"inserted", "duplicate", "error"} : Answer(d, state)
    BY <1>1 DEF Insert
  <2> QED BY <2>1, <2>2, <2>3, <2>4 DEF Answer
<1>2. ASSUME NEW d \in Deliveries, Handle(d)
      PROVE  \E state \in RequestStates : Moved(d, state)
  BY <1>2 DEF Handle, Enqueue, CommitRow, Abort, Answer, OpenRow, RequestStates
<1>3. ASSUME NEW d \in Deliveries, Stall(d) PROVE request' = request
  BY <1>3 DEF Stall, webhookVars
<1>4. ASSUME NEW p \in Payments, CreatePayment(p) PROVE request' = request
  BY <1>4 DEF CreatePayment
<1>5. ASSUME NEW w \in Workers, Work(w) PROVE request' = request
  BY <1>5 DEF Work, Take, ReadEvent, ReadPayment, Settle, Complete, Fail, Crash,
              Leave, webhookVars
<1>6. CASE UNCHANGED vars
  BY <1>6 DEF vars, webhookVars
<1>7. Next => \/ request' = request
              \/ \E d \in Deliveries, state \in RequestStates : Moved(d, state)
  BY <1>1, <1>2, <1>3, <1>4, <1>5 DEF Next
<1> QED BY <1>6, <1>7

LEMMA AcceptedStays ==
  ASSUME Inv, [Next]_vars, NEW d \in Deliveries, request[d] = "accepted"
  PROVE  request'[d] = "accepted"
BY RequestStep DEF Inv, TypeOK

LEMMA RowsStep == ASSUME Inv, [Next]_vars PROVE RowsInv'
<1>1. \A d \in Deliveries : payment[PaymentOf(d)] # "NONE" => payment'[PaymentOf(d)] # "NONE"
  BY ClosedStays, DeliveryFacts
<1>2. CASE request' = request
  BY <1>1, <1>2 DEF Inv, RowsInv, PaymentOf
<1>3. ASSUME NEW d \in Deliveries, NEW state \in RequestStates,
             request' = [request EXCEPT ![d] = state],
             state \in OpenRow =>
               \/ request[d] \in OpenRow
               \/ /\ payment[PaymentOf(d)] # "NONE"
                  /\ \A e \in Deliveries \ {d} :
                       EventOf[e] = EventOf[d] => request[e] \notin OpenRow
      PROVE  RowsInv'
  <2>1. request'[d] = state /\ \A e \in Deliveries \ {d} : request'[e] = request[e]
    BY <1>3 DEF Inv, TypeOK
  <2>2. ASSUME NEW e \in Deliveries, request'[e] \in OpenRow
        PROVE  payment'[PaymentOf(e)] # "NONE"
    BY <1>1, <1>3, <2>1, <2>2 DEF Inv, RowsInv
  <2>3. ASSUME NEW e \in Deliveries, NEW f \in Deliveries, request'[e] \in OpenRow,
               request'[f] \in OpenRow, EventOf[e] = EventOf[f]
        PROVE  e = f
    BY <1>3, <2>1, <2>3 DEF Inv, RowsInv
  <2> QED BY <2>2, <2>3 DEF RowsInv, PaymentOf, OpenRow
<1> QED BY <1>2, <1>3, RequestStep

-----------------------------------------------------------------------------
\* What a step does to a worker: it takes a job, goes on with the one it has,
\* or is done with it.  Steps of others leave it alone.
LEMMA WorkerStep ==
  ASSUME Inv, [Next]_vars, NEW w \in Workers
  PROVE  \/ pc'[w] = pc[w] /\ task'[w] = task[w] /\ decision'[w] = decision[w]
         \/ pc'[w] = "readEvent" /\ task'[w] \in Deliveries
         \/ /\ pc[w] = "readEvent" /\ task'[w] = task[w]
            /\ \/ pc'[w] = "ack" /\ task[w] \in processed \cup readEarly'
               \/ pc'[w] = "readPayment" /\ request[task[w]] = "accepted"
         \/ /\ pc[w] = "readPayment" /\ pc'[w] = "settle" /\ task'[w] = task[w]
            /\ decision'[w] = Decide(task[w], payment[PaymentOf(task[w])])
            /\ payment' = payment
         \/ /\ pc[w] = "settle" /\ pc'[w] = "ack" /\ task'[w] = task[w]
            /\ task[w] \in processed'
         \/ pc'[w] = "idle" /\ task'[w] = NoTask
<1> USE DEF Deliveries, Goto
<1>1. /\ pc \in [Workers -> Steps] /\ decision \in [Workers -> Decisions]
      /\ task \in [Workers -> Deliveries \cup {NoTask}]
  BY DEF Inv, TypeOK, QueueTypeOK
<1>2. ASSUME UNCHANGED <<pc, task, decision>>
      PROVE  pc'[w] = pc[w] /\ task'[w] = task[w] /\ decision'[w] = decision[w]
  BY <1>2
<1>3. ASSUME NEW p \in Payments, CreatePayment(p) PROVE UNCHANGED <<pc, task, decision>>
  BY <1>3 DEF CreatePayment, workerVars, queueVars
<1>4. ASSUME NEW d \in Deliveries, Insert(d) \/ Handle(d) \/ Stall(d)
      PROVE  UNCHANGED <<pc, task, decision>>
  BY <1>4 DEF Insert, Handle, Enqueue, CommitRow, Abort, Answer, AddJob, Stall,
              StallJob, workerVars, queueVars
<1>5. ASSUME NEW v \in Workers, v # w, Work(v)
      PROVE  pc'[w] = pc[w] /\ task'[w] = task[w] /\ decision'[w] = decision[w]
  BY <1>1, <1>5
  DEF Work, Take, TakeJob, ReadEvent, ReadPayment, Settle, Complete, CompleteJob, Fail,
      FailJob, Crash, CrashWorker, Report, Leave, workerVars, queueVars
<1>6. ASSUME NEW d \in Deliveries, Take(w, d)
      PROVE  pc'[w] = "readEvent" /\ task'[w] \in Deliveries
  BY <1>1, <1>6 DEF Take, TakeJob
<1>7. ASSUME ReadEvent(w)
      PROVE  /\ pc[w] = "readEvent" /\ task'[w] = task[w]
             /\ \/ pc'[w] = "ack" /\ task[w] \in processed \cup readEarly'
                \/ pc'[w] = "readPayment" /\ request[task[w]] = "accepted"
  BY <1>1, <1>7 DEF ReadEvent, queueVars
<1>8. ASSUME ReadPayment(w)
      PROVE  /\ pc[w] = "readPayment" /\ pc'[w] = "settle" /\ task'[w] = task[w]
             /\ decision'[w] = Decide(task[w], payment[PaymentOf(task[w])])
             /\ payment' = payment
  BY <1>1, <1>8 DEF ReadPayment, queueVars, webhookVars
<1>9. ASSUME Settle(w)
      PROVE  /\ pc[w] = "settle" /\ pc'[w] = "ack" /\ task'[w] = task[w]
             /\ task[w] \in processed'
  BY <1>1, <1>9 DEF Settle, queueVars
<1>10. ASSUME Complete(w) \/ Fail(w) \/ Crash(w) PROVE pc'[w] = "idle" /\ task'[w] = NoTask
  BY <1>1, <1>10
  DEF Complete, CompleteJob, Fail, FailJob, Crash, CrashWorker, Report, Leave
<1>11. CASE UNCHANGED vars
  BY <1>2, <1>11 DEF vars, workerVars, queueVars
<1>12. CASE \E v \in Workers : Work(v)
  BY <1>5, <1>6, <1>7, <1>8, <1>9, <1>10, <1>12 DEF Work
<1> QED BY <1>2, <1>3, <1>4, <1>11, <1>12 DEF Next

LEMMA WorkersStep == ASSUME Inv, [Next]_vars PROVE WorkersInv'
<1> SUFFICES ASSUME NEW w \in Workers
             PROVE  /\ pc'[w] = "idle" <=> task'[w] = NoTask
                    /\ pc'[w] \in {"readPayment", "settle"} =>
                         request'[task'[w]] = "accepted"
  BY DEF WorkersInv
<1>1. /\ pc[w] = "idle" <=> task[w] = NoTask
      /\ pc[w] \in {"readPayment", "settle"} => request[task[w]] = "accepted"
  BY DEF Inv, WorkersInv
<1>2. pc[w] # "idle" => task[w] \in Deliveries
  BY TaskFacts DEF Inv
<1>3. NoTask \notin Deliveries
  BY QueueAssumption DEF Deliveries
<1>4. request[task[w]] = "accepted" /\ pc[w] # "idle" => request'[task[w]] = "accepted"
  BY <1>2, AcceptedStays
<1> QED BY <1>1, <1>2, <1>3, <1>4, WorkerStep

LEMMA DecisionsStep == ASSUME Inv, [Next]_vars PROVE DecisionsInv'
<1> SUFFICES ASSUME NEW w \in Workers, pc'[w] = "settle"
             PROVE  Sound(task[w], decision[w])'
  BY DEF DecisionsInv
<1>1. CASE pc[w] = "settle" /\ task'[w] = task[w] /\ decision'[w] = decision[w]
  <2>1. task[w] \in Deliveries
    BY <1>1, TaskFacts DEF Inv
  <2>2. Sound(task[w], decision[w])
    BY <1>1 DEF Inv, DecisionsInv
  <2>3. payment[PaymentOf(task[w])] \in Closed => payment'[PaymentOf(task[w])] \in Closed
    BY <2>1, ClosedStays, DeliveryFacts
  <2> QED BY <1>1, <2>2, <2>3 DEF Sound, TypeOf, Matches, PaymentOf, Closed
<1>2. CASE /\ pc[w] = "readPayment" /\ task'[w] = task[w]
           /\ decision'[w] = Decide(task[w], payment[PaymentOf(task[w])])
           /\ payment' = payment
  <2>1. task[w] \in Deliveries
    BY <1>2, TaskFacts DEF Inv
  <2>2. payment[PaymentOf(task[w])] # "NONE"
    BY <1>2, <2>1 DEF Inv, WorkersInv, RowsInv, OpenRow
  <2>3. Sound(task[w], Decide(task[w], payment[PaymentOf(task[w])]))
    BY <2>1, <2>2, DecideSound DEF Inv
  <2> QED BY <1>2, <2>3 DEF Sound, TypeOf, Matches, PaymentOf, Closed
<1> QED BY <1>1, <1>2, WorkerStep

-----------------------------------------------------------------------------
\* Only Settle marks rows.
LEMMA ProcessedFrame ==
  ASSUME Inv, [Next]_vars, \A w \in Workers : ~Settle(w)
  PROVE  processed' = processed
BY DEF Next, CreatePayment, Insert, Handle, Enqueue, CommitRow, Abort, Answer, Stall,
       Work, Take, ReadEvent, ReadPayment, Complete, Fail, Crash, Leave, webhookVars,
       vars

LEMMA ProcessedStep == ASSUME Inv, [Next]_vars PROVE ProcessedInv'
<1> SUFFICES ASSUME NEW d \in processed',
                    TypeOf(d) = "payment.paid" => Matches(d)
             PROVE  payment'[PaymentOf(d)] \in Closed
  BY DEF ProcessedInv, TypeOf, Matches, PaymentOf, Closed
<1>1. CASE d \in processed
  BY <1>1, ClosedStays, DeliveryFacts DEF Inv, TypeOK, ProcessedInv
<1>2. ASSUME NEW w \in Workers, Settle(w), d \notin processed
      PROVE  payment'[PaymentOf(d)] \in Closed
  <2>1. d = task[w]
    BY <1>2 DEF Settle
  <2>2. PaymentOf(d) \in Payments
    BY <1>2, <2>1, SettleFacts, DeliveryFacts
  <2>3. Sound(d, decision[w])
    BY <1>2, <2>1, SettleFacts
  <2>4. CASE decision[w] = "KEEP" /\ payment' = payment
    BY <2>3, <2>4 DEF Sound
  <2>5. CASE /\ decision[w] \in {"PAID", "EXPIRED", "FAILED"}
             /\ payment' = [payment EXCEPT ![PaymentOf(d)] = decision[w]]
    BY <2>2, <2>5 DEF Closed, Inv, TypeOK
  <2> QED BY <1>2, <2>1, <2>4, <2>5, SettleFacts
<1> QED BY <1>1, <1>2, ProcessedFrame

LEMMA CreditsStep == ASSUME Inv, [Next]_vars PROVE CreditsAreBacked'
<1>1. \A d \in Deliveries : request[d] = "accepted" => request'[d] = "accepted"
  BY AcceptedStays
<1>2. processed \subseteq Deliveries
  BY DEF Inv, TypeOK
<1>3. ASSUME UNCHANGED credits, processed \subseteq processed' PROVE CreditsAreBacked'
  BY <1>1, <1>2, <1>3 DEF Inv, CreditsAreBacked, TypeOf, Matches, PaymentOf
<1>4. ASSUME NEW w \in Workers, Settle(w) PROVE CreditsAreBacked'
  <2>1. processed' = processed \cup {task[w]}
    BY <1>4 DEF Settle
  <2>2. CASE decision[w] # "PAID"
    BY <1>3, <1>4, <2>1, <2>2 DEF Settle, ledgerVars
  <2>3. CASE decision[w] = "PAID"
    <3>1. credits' \subseteq credits \cup {PaymentOf(task[w])}
      BY <1>4, <2>3 DEF Settle, CreditPayment, ledgerVars
    <3>2. /\ task[w] \in Deliveries /\ request'[task[w]] = "accepted"
          /\ TypeOf(task[w]) = "payment.paid" /\ Matches(task[w])
          /\ PaymentOf(task[w]) \notin BadSplits
      BY <1>1, <1>4, <2>3, SettleFacts DEF Sound
    <3> QED BY <1>1, <1>2, <2>1, <3>1, <3>2
            DEF Inv, CreditsAreBacked, TypeOf, Matches, PaymentOf
  <2> QED BY <2>2, <2>3
<1>5. CASE \A w \in Workers : ~Settle(w)
  <2>1. UNCHANGED credits
    BY <1>5
    DEF Next, CreatePayment, Insert, Handle, Enqueue, CommitRow, Abort, Answer, Stall,
        Work, Take, ReadEvent, ReadPayment, Complete, Fail, Crash, Leave, ledgerVars,
        vars
  <2> QED BY <1>3, <1>5, <2>1, ProcessedFrame
<1> QED BY <1>4, <1>5

-----------------------------------------------------------------------------
\* The marks and the early looks of workers are never taken back.
LEMMA MarksStay ==
  ASSUME Inv, [Next]_vars
  PROVE  processed \subseteq processed' /\ readEarly \subseteq readEarly'
BY DEF Next, CreatePayment, Insert, Handle, Enqueue, CommitRow, Abort, Answer, Stall,
       Work, Take, ReadEvent, ReadPayment, Settle, Complete, Fail, Crash, Leave,
       webhookVars, vars

\* What a step does to a job: only a worker that is through completes one.
LEMMA JobStep ==
  ASSUME Inv, [Next]_vars, NEW d \in Deliveries
  PROVE  JobMoves(d) \/ \E w \in Workers : pc[w] = "ack" /\ task[w] = d
<1>1. CASE [GoOn]_queueVars
  BY <1>1, JobGoesOn DEF Inv, Deliveries
<1>2. ASSUME NEW w \in Workers, Complete(w), CompleteJob(w)
      PROVE  JobMoves(d) \/ (pc[w] = "ack" /\ task[w] = d)
  BY <1>2, JobCompletes DEF Inv, Deliveries, Complete, JobMoves
<1> QED BY <1>1, <1>2, UsesQueue

LEMMA JobsStep == ASSUME Inv, [Next]_vars PROVE JobsInv'
<1>1. ASSUME NEW d \in Deliveries, request'[d] \in {"enqueued", "accepted"}
      PROVE  job'[d] # "none"
  <2>1. job[d] # "none" => job'[d] # "none"
    BY UsesQueue, JobGoesOn, JobCompletes DEF Inv, Deliveries, JobMoves
  <2>2. CASE request[d] \in {"enqueued", "accepted"}
    BY <2>1, <2>2 DEF Inv, JobsInv
  <2>3. CASE Enqueue(d)
    BY <2>3 DEF Enqueue, AddJob, Inv, TypeOK, QueueTypeOK, Deliveries
  <2>4. ASSUME request[d] \notin {"enqueued", "accepted"}, ~Enqueue(d) PROVE FALSE
    BY <1>1, <2>4
    DEF Next, CreatePayment, Insert, Handle, Enqueue, CommitRow, Abort, Answer, Stall,
        Work, Take, ReadEvent, ReadPayment, Settle, Complete, Fail, Crash, Leave,
        webhookVars, vars, Inv, TypeOK
  <2> QED BY <2>2, <2>3, <2>4
<1>2. ASSUME NEW w \in Workers, pc'[w] = "ack"
      PROVE  task'[w] \in processed' \cup readEarly'
  BY <1>2, WorkerStep, MarksStay DEF Inv, JobsInv
<1>3. ASSUME NEW d \in Deliveries, job'[d] = "completed"
      PROVE  d \in processed' \cup readEarly'
  BY <1>3, JobStep, MarksStay DEF Inv, JobsInv, JobMoves
<1> QED BY <1>1, <1>2, <1>3 DEF JobsInv

LEMMA Invariant == Spec => []Inv
<1>1. Init => Inv
  BY InitInv
<1>2. Inv /\ [Next]_vars => Inv'
  BY TypeStep, LedgerInvStep, QueueInvStep, RowsStep, WorkersStep, DecisionsStep,
     ProcessedStep, CreditsStep, JobsStep DEF Inv
<1> QED BY <1>1, <1>2, PTL DEF Spec

\* Every variable keeps to its type: in particular no job outlives its
\* attempts, whatever fails, crashes or stalls (queue.config 11-16).
THEOREM SettlementTypes == Spec => []TypeOK
<1>1. Inv => TypeOK
  BY DEF Inv
<1> QED BY <1>1, Invariant, PTL

\* However deliveries, retries, stalls and crashes interleave, each wallet
\* holds what its ledger entries say: a payment is credited once.
THEOREM SettlementConservesMoney == Spec => []WalletMatchesLedger
<1>1. Inv => WalletMatchesLedger
  BY DEF Inv, LedgerInv
<1> QED BY <1>1, Invariant, PTL

\* The unique index keeps one committed row per event, through any number of
\* redeliveries (webhooks.service 20-28).
THEOREM SettlementKeepsOneRow == Spec => []OneRowPerEvent
<1>1. Inv => OneRowPerEvent
  BY DEF Inv, RowsInv, OpenRow, OneRowPerEvent
<1> QED BY <1>1, Invariant, PTL

\* The processed mark is never ahead of the effect it stands for (processor
\* 32-57).
THEOREM SettlementClosesProcessed == Spec => []ProcessedMeansClosed
<1>1. Inv => ProcessedMeansClosed
  BY DEF Inv, ProcessedInv, ProcessedMeansClosed, Closed
<1> QED BY <1>1, Invariant, PTL

\* No credit without a committed, processed and matching paid event, on
\* splits that add up (processor 65-112).
THEOREM SettlementBacksCredits == Spec => []CreditsAreBacked
<1>1. Inv => CreditsAreBacked
  BY DEF Inv
<1> QED BY <1>1, Invariant, PTL

\* The credits of this module are operations of the ledger that Balances
\* implements, and it does nothing else to money (processor 99-111).
THEOREM SettlementImplementsLedger == Spec => LedgerSpec
<1>1. Init => LedgerInit
  BY DEF Init
<1>2. Inv /\ [Next]_vars => [LedgerNext]_ledgerVars
  BY LedgerStep, SettlementAssumption DEF LedgerNext
<1> QED BY <1>1, <1>2, Invariant, PTL DEF Spec, LedgerSpec

\* The safety part of AcceptedEventsSettle: an accepted event whose row nobody
\* looked for too early is processed, or its job is waiting, in the hands of a
\* worker, or kept as failed with all its tries used (queue.config 6-16).
EventsAreKept ==
  \A d \in Deliveries :
    request[d] = "accepted" => d \in processed \cup readEarly \/ Kept(d)

\* No accepted event is lost on the way, for any number of workers, attempts
\* and stalls: the one way to lose it is a worker that reads before the commit.
THEOREM SettlementKeepsEvents == Spec => []EventsAreKept
<1>1. Inv => EventsAreKept
  <2> SUFFICES ASSUME Inv, NEW d \in Deliveries, request[d] = "accepted",
                      d \notin processed \cup readEarly
               PROVE  Kept(d)
    BY DEF EventsAreKept
  <2>1. job[d] \notin {"none", "completed"}
    BY DEF Inv, JobsInv
  <2> QED BY <2>1, KeptFacts DEF Inv, Deliveries
<1> QED BY <1>1, Invariant, PTL

\* A job that has ended is not run again: a worker that is slow and has lost
\* its lock cannot revive it, or turn its failure into success.
JobsEndForGood == [][\A d \in Deliveries : job[d] \in Ended => job'[d] = job[d]]_vars

\* Every interleaving of reports, stalls and crashes ends a job at most once.
THEOREM SettlementEndsJobsOnce == Spec => JobsEndForGood
<1>1. Inv /\ [Next]_vars => [\A d \in Deliveries : job[d] \in Ended => job'[d] = job[d]]_vars
  BY UsesQueue, EndedStays DEF Inv, QueueStep, Deliveries
<1> QED BY <1>1, Invariant, PTL DEF Spec, JobsEndForGood

\* The safety part of JobsEnd: a job can be taken, fail and stall only so many
\* times before it ends (queue.config 11-16).
JobsCountDown == [][\A d \in Deliveries : CountsDown(d)]_vars

\* A job's count is a natural number that each of its moves lowers, so no
\* interleaving of workers, failures, crashes and stalls runs it forever.
THEOREM SettlementJobsRunOut ==
  Spec => [](\A d \in Deliveries : MovesLeft(d) \in Nat) /\ JobsCountDown
<1>1. Inv => \A d \in Deliveries : MovesLeft(d) \in Nat
  BY MovesLeftNat DEF Inv, Deliveries
<1>2. Inv /\ [Next]_vars => [\A d \in Deliveries : CountsDown(d)]_vars
  BY UsesQueue, JobCountsDown DEF Inv, QueueStep, Deliveries
<1> QED BY <1>1, <1>2, Invariant, PTL DEF Spec, JobsCountDown

-----------------------------------------------------------------------------
(* What holds while no two workers are between their read of one payment    *)
(* and the end of the transaction that writes it.  A lock on the row, taken *)
(* by the read, would see to it; so does a single worker, which is what     *)
(* docker-compose deploys.  MCSettlementRace shows that nothing else does.  *)

OnePerPayment ==
  \A v, w \in Workers :
    pc[v] = "settle" /\ pc[w] = "settle" /\ PaymentOf(task[v]) = PaymentOf(task[w])
      => v = w

\* Nobody closes the payment between a worker's read and its write.
AloneInv ==
  /\ \A w \in Workers :
       pc[w] = "settle" /\ decision[w] # "KEEP" =>
         payment[PaymentOf(task[w])] = "PENDING"
  /\ PaidIffCredited

\* A decision to write a status is made of a payment that is PENDING.
LEMMA DecidePending ==
  ASSUME NEW d \in Deliveries, NEW status, Decide(d, status) # "KEEP"
  PROVE  status = "PENDING"
BY DeliveryFacts
DEF Decide, PaidDecision, CloseDecision, CanTransition, AllowedTransitions, EventTypes

\* Payments and credits that a step leaves alone.
LEMMA PaymentFrame ==
  ASSUME Inv, [Next]_vars, \A w \in Workers : ~Settle(w)
  PROVE  /\ credits' = credits
         /\ \/ payment' = payment
            \/ \E p \in Payments : /\ payment[p] = "NONE"
                                   /\ payment' = [payment EXCEPT ![p] = "PENDING"]
BY DEF Next, CreatePayment, Insert, Handle, Enqueue, CommitRow, Abort, Answer, Stall,
       Work, Take, ReadEvent, ReadPayment, Complete, Fail, Crash, Leave, webhookVars,
       ledgerVars, vars

\* What Settle does to payments and credits when nobody else decides.
LEMMA SettleAlone ==
  ASSUME Inv, AloneInv, NEW w \in Workers, Settle(w)
  PROVE  LET p == PaymentOf(task[w]) IN
         \/ UNCHANGED <<payment, credits>>
         \/ /\ payment[p] = "PENDING" /\ p \in Payments
            /\ \/ /\ payment' = [payment EXCEPT ![p] = "PAID"]
                  /\ credits' = credits \cup {p}
               \/ \E state \in {"EXPIRED", "FAILED"} :
                    /\ payment' = [payment EXCEPT ![p] = state]
                    /\ credits' = credits
<1>1. task[w] \in Deliveries /\ PaymentOf(task[w]) \in Payments
  BY SettleFacts, DeliveryFacts
<1>2. CASE decision[w] = "KEEP"
  BY <1>2 DEF Settle, ledgerVars
<1>3. CASE decision[w] = "PAID"
  BY <1>1, <1>3 DEF Settle, AloneInv, CreditPayment, ledgerVars
<1>4. CASE decision[w] \in {"EXPIRED", "FAILED"}
  BY <1>1, <1>4 DEF Settle, AloneInv, ledgerVars
<1> QED BY <1>2, <1>3, <1>4, SettleFacts DEF Sound

LEMMA AloneStep == ASSUME OnePerPayment, Inv, AloneInv, [Next]_vars PROVE AloneInv'
<1>1. PaidIffCredited'
  <2>1. CASE \A w \in Workers : ~Settle(w)
    BY <2>1, PaymentFrame DEF Inv, TypeOK, AloneInv, PaidIffCredited
  <2>2. ASSUME NEW w \in Workers, Settle(w) PROVE PaidIffCredited'
    BY <2>2, SettleAlone DEF Inv, TypeOK, AloneInv, PaidIffCredited
  <2> QED BY <2>1, <2>2
<1>2. ASSUME NEW w \in Workers, pc'[w] = "settle", decision'[w] # "KEEP"
      PROVE  payment'[PaymentOf(task'[w])] = "PENDING"
  <2>1. CASE /\ pc[w] = "readPayment" /\ task'[w] = task[w]
             /\ decision'[w] = Decide(task[w], payment[PaymentOf(task[w])])
             /\ payment' = payment
    <3>1. task[w] \in Deliveries
      BY <2>1, TaskFacts DEF Inv
    <3> QED BY <1>2, <2>1, <3>1, DecidePending
  <2>2. CASE pc[w] = "settle" /\ task'[w] = task[w] /\ decision'[w] = decision[w]
    <3>1. /\ payment[PaymentOf(task[w])] = "PENDING" /\ task[w] \in Deliveries
          /\ PaymentOf(task[w]) \in Payments
      BY <1>2, <2>2, TaskFacts, DeliveryFacts DEF Inv, AloneInv
    <3>2. CASE \A v \in Workers : ~Settle(v)
      BY <2>2, <3>1, <3>2, PaymentFrame DEF Inv, TypeOK
    <3>3. ASSUME NEW v \in Workers, Settle(v)
          PROVE  payment'[PaymentOf(task[w])] = payment[PaymentOf(task[w])]
      <4>1. v # w
        BY <1>2, <3>3 DEF Settle, Goto, Inv, TypeOK
      <4>2. pc[v] = "settle" /\ pc[w] = "settle" /\ PaymentOf(task[v]) \in Payments
        BY <2>2, <3>3, SettleFacts, DeliveryFacts DEF Settle
      <4>3. PaymentOf(task[v]) # PaymentOf(task[w])
        BY <4>1, <4>2 DEF OnePerPayment
      <4> QED BY <3>1, <3>3, <4>2, <4>3, SettleAlone DEF Inv, TypeOK
    <3> QED BY <2>2, <3>1, <3>2, <3>3
  <2> QED BY <1>2, <2>1, <2>2, WorkerStep
<1> QED BY <1>1, <1>2 DEF AloneInv, PaymentOf

LEMMA AloneInvariant == Spec /\ []OnePerPayment => [](Inv /\ AloneInv)
<1>1. Init => AloneInv
  BY DEF Init, LedgerInit, AloneInv, PaidIffCredited
<1>2. Inv /\ AloneInv /\ OnePerPayment /\ [Next]_vars => AloneInv'
  BY AloneStep
<1> QED BY <1>1, <1>2, Invariant, PTL DEF Spec

\* A closed payment keeps its status and moves no money: what ClosedForGood
\* says of a step.
ClosedKept ==
  \A p \in Payments :
    payment[p] \in PaymentStatus /\ IsTerminal(payment[p])
      => /\ payment'[p] = payment[p]
         /\ p \in credits' => p \in credits

LEMMA ClosedStep == ASSUME Inv, AloneInv, [Next]_vars PROVE [ClosedKept]_vars
<1> SUFFICES ASSUME NEW p \in Payments,
                    payment[p] \in PaymentStatus, IsTerminal(payment[p])
             PROVE  /\ payment'[p] = payment[p]
                    /\ p \in credits' => p \in credits
  BY DEF ClosedKept
<1>1. payment[p] \notin {"NONE", "PENDING"}
  BY DEF IsTerminal, AllowedTransitions, PaymentStatus
<1>2. CASE \A w \in Workers : ~Settle(w)
  <2>1. payment'[p] = payment[p]
    BY <1>1, <1>2, PaymentFrame DEF Inv, TypeOK
  <2> QED BY <1>2, <2>1, PaymentFrame
<1>3. ASSUME NEW w \in Workers, Settle(w)
      PROVE  /\ payment'[p] = payment[p]
             /\ p \in credits' => p \in credits
  BY <1>1, <1>3, SettleAlone DEF Inv, TypeOK
<1> QED BY <1>2, <1>3

\* If workers decide on one payment one at a time, it is PAID exactly when its
\* partner was credited, and no late or replayed event reopens a closed one or
\* moves money for it (processor 65-111, payment-state-machine 4-6).
THEOREM ApartPaymentsSettleRight ==
  Spec /\ []OnePerPayment => []PaidIffCredited /\ ClosedForGood
<1>1. AloneInv => PaidIffCredited
  BY DEF AloneInv
<1>2. Inv /\ AloneInv /\ [Next]_vars => [ClosedKept]_vars
  BY ClosedStep
<1> QED BY <1>1, <1>2, AloneInvariant, PTL DEF Spec, ClosedForGood, ClosedKept

OneWorker == \A v, w \in Workers : v = w

LEMMA AloneIsApart == ASSUME OneWorker PROVE OnePerPayment
BY DEF OneWorker, OnePerPayment

\* With one worker, a payment is PAID exactly when its partner was credited
\* (processor 99-111).
THEOREM OneWorkerPaysOnce == ASSUME OneWorker PROVE Spec => []PaidIffCredited
BY AloneIsApart, ApartPaymentsSettleRight, PTL

\* With one worker, no late or replayed event reopens a closed payment or
\* moves money for it (payment-state-machine 4-6).
THEOREM OneWorkerClosesForGood == ASSUME OneWorker PROVE Spec => ClosedForGood
BY AloneIsApart, ApartPaymentsSettleRight, PTL
=============================================================================
