--------------------------- MODULE PayoutsProofs ----------------------------
(***************************************************************************)
(* The safety of Payouts, for any payouts, workers, attempts and amounts.  *)
(* That a queued payout's hold is there, that a payout is completed with   *)
(* its debit and that none fails need each other, and the row lock: they   *)
(* are inductive together only.                                            *)
(***************************************************************************)
EXTENDS Payouts, LedgerProofs, QueueProofs

\* A row exists once its request has committed.
RowsInv ==
  \A q \in Payouts :
    status[q] = "NONE" <=> request[q] \in {"unsent", "refused", "conflict"}

\* A worker that holds a row's lock holds it alone, on a row still QUEUED.
WorkersInv ==
  /\ \A w \in Workers : pc[w] = "idle" <=> task[w] = NoTask
  /\ \A w \in Workers : pc[w] = "confirm" => status[task[w]] = "QUEUED"
  /\ \A v, w \in Workers :
       pc[v] = "confirm" /\ pc[w] = "confirm" /\ task[v] = task[w] => v = w

\* A job is added for a row that is there, and for each answered request; it
\* is completed only by a worker that found the row closed, or closed it.
JobsInv ==
  /\ \A q \in Payouts : job[q] # "none" => status[q] # "NONE"
  /\ \A q \in Payouts : request[q] = "answered" => job[q] # "none"
  /\ \A w \in Workers : pc[w] # "idle" =>
       /\ status[task[w]] # "NONE"
       /\ pc[w] = "ack" => status[task[w]] # "QUEUED"
  /\ \A q \in Payouts : job[q] = "completed" => status[q] \notin {"NONE", "QUEUED"}

MoneyInv == HoldsCoverQueued /\ CompletedIffDebited /\ NoPayoutFails

\* The ledger refers to settled charges and to payouts, each on its own side.
EntriesInv == credits \subseteq Payments /\ debits \subseteq Payouts

Inv ==
  /\ TypeOK
  /\ LedgerInv
  /\ QueueInv
  /\ RowsInv
  /\ WorkersInv
  /\ JobsInv
  /\ MoneyInv
  /\ EntriesInv

LEMMA PayoutFacts ==
  ASSUME NEW q \in Payouts
  PROVE  /\ q \in References /\ AccountOf[q] \in Accounts
         /\ Amount[q] \in Int /\ Positive(q)
BY PayoutsAssumption, LedgerAssumption DEF Positive

\* A worker that runs a job runs a payout's.
LEMMA TaskFacts ==
  ASSUME TypeOK, WorkersInv, NEW w \in Workers, pc[w] # "idle"
  PROVE  task[w] \in Payouts
BY DEF TypeOK, QueueTypeOK, WorkersInv, Payouts

LEMMA InitInv == ASSUME Init PROVE Inv
<1>1. LedgerInv /\ QueueInv
  BY LedgerInitInv, QueueInitInv DEF Init
<1>2. TypeOK
  BY <1>1 DEF Init, TypeOK, LedgerInv, QueueInv, RequestStates, Steps
<1>3. RowsInv /\ WorkersInv /\ JobsInv
  BY DEF Init, QueueInit, RowsInv, WorkersInv, JobsInv, Payouts
<1>4. \A a \in Accounts : Queued(a) = {}
  BY DEF Init, Queued
<1>5. MoneyInv
  BY <1>4, TotalType
  DEF Init, LedgerInit, MoneyInv, HoldsCoverQueued, CompletedIffDebited, NoPayoutFails
<1>6. EntriesInv
  BY DEF Init, LedgerInit, EntriesInv
<1> QED BY <1>1, <1>2, <1>3, <1>5, <1>6 DEF Inv

-----------------------------------------------------------------------------
\* A payout whose row is QUEUED can be confirmed: its hold is part of the
\* account's pending money, and it has no debit yet.
LEMMA HoldIsThere ==
  ASSUME Inv, NEW q \in Payouts, status[q] = "QUEUED"
  PROVE  /\ q \notin debits
         /\ pending[AccountOf[q]] >= Amount[q]
         /\ CanConfirm(q)
         /\ Total(Queued(AccountOf[q]) \ {q}) = pending[AccountOf[q]] - Amount[q]
<1> DEFINE a == AccountOf[q]
           Others == Queued(a) \ {q}
<1>1. q \notin debits
  BY DEF Inv, MoneyInv, CompletedIffDebited
<1>2. Others \in SUBSET References /\ q \notin Others /\ Queued(a) = Others \cup {q}
  BY PayoutFacts DEF Queued
<1>3. Total(Queued(a)) = Total(Others) + Amount[q] /\ Total(Others) \in Nat
  <2> HIDE DEF Others
  <2> QED BY <1>2, PayoutFacts, TotalAdd, TotalType
<1>4. pending[a] = Total(Queued(a))
  BY PayoutFacts DEF Inv, MoneyInv, HoldsCoverQueued
<1> HIDE DEF Others
<1>5. Total(Others) = pending[a] - Amount[q] /\ pending[a] >= Amount[q]
  BY <1>3, <1>4, PayoutFacts
<1> QED BY <1>1, <1>5, PayoutFacts DEF CanConfirm, Others

\* What Confirm does, given that the hold is there.
LEMMA ConfirmFacts ==
  ASSUME Inv, NEW w \in Workers, Confirm(w)
  PROVE  /\ task[w] \in Payouts /\ status[task[w]] = "QUEUED"
         /\ status' = [status EXCEPT ![task[w]] = "COMPLETED"]
         /\ ConfirmDebit(task[w])
         /\ debits' = debits \cup {task[w]}
         /\ pending' = [pending EXCEPT ![AccountOf[task[w]]] = @ - Amount[task[w]]]
<1>1. task[w] \in Payouts /\ status[task[w]] = "QUEUED"
  BY TaskFacts DEF Inv, Confirm, WorkersInv
<1>2. CanConfirm(task[w]) /\ task[w] \notin debits
  BY <1>1, HoldIsThere
<1>3. ConfirmDebit(task[w])
  BY <1>2 DEF Confirm
<1> QED BY <1>1, <1>2, <1>3 DEF Confirm, ConfirmDebit

\* Every step moves the ledger by one of its operations, or not at all.
LEMMA LedgerStep ==
  ASSUME Inv, [Next]_vars
  PROVE  \/ UNCHANGED ledgerVars
         \/ \E p \in Payments : CreditPayment(p)
         \/ \E q \in Payouts : Reserve(q) \/ ConfirmDebit(q)
<1>1. ASSUME NEW p \in Payments, Fund(p) PROVE CreditPayment(p)
  BY <1>1 DEF Fund
<1>2. ASSUME NEW q \in Payouts, Create(q) PROVE Reserve(q) \/ UNCHANGED ledgerVars
  BY <1>2 DEF Create
<1>3. ASSUME NEW w \in Workers, Confirm(w) PROVE \E q \in Payouts : ConfirmDebit(q)
  BY <1>3, ConfirmFacts
<1>4. CASE UNCHANGED vars
  BY <1>4 DEF vars
<1> QED BY <1>1, <1>2, <1>3, <1>4
        DEF Next, Enqueue, LoseRequest, Stall, Work, Take, LockPayout, Complete, Fail,
            Crash, Leave

LEMMA LedgerInvStep == ASSUME Inv, [Next]_vars PROVE LedgerInv'
<1>1. ASSUME NEW p \in Payments, CreditPayment(p) PROVE LedgerInv'
  BY <1>1, PayoutsAssumption, CreditKeepsInv DEF Inv
<1>2. ASSUME NEW q \in Payouts, Reserve(q) \/ ConfirmDebit(q) PROVE LedgerInv'
  BY <1>2, PayoutFacts, ReserveKeepsInv, ConfirmKeepsInv DEF Inv
<1>3. CASE UNCHANGED ledgerVars
  BY <1>3, LedgerStutter DEF Inv
<1> QED BY <1>1, <1>2, <1>3, LedgerStep

\* Whatever a step does to the queue, it is one of the queue's operations.
LEMMA UsesQueue ==
  ASSUME [Next]_vars
  PROVE  [GoOn]_queueVars \/ \E w \in Workers : Complete(w) /\ CompleteJob(w)
<1> USE DEF Payouts, GoOn
<1>1. ASSUME NEW q \in Payouts, Create(q) \/ Enqueue(q) \/ LoseRequest(q) \/ Stall(q)
      PROVE  [GoOn]_queueVars
  BY <1>1 DEF Create, Enqueue, LoseRequest, Stall
<1>2. ASSUME NEW w \in Workers, Work(w), ~Complete(w) PROVE [GoOn]_queueVars
  BY <1>2 DEF Work, Take, LockPayout, Confirm, Fail, Crash
<1>3. ASSUME NEW p \in Payments, Fund(p) PROVE [GoOn]_queueVars
  BY <1>3 DEF Fund
<1>4. CASE UNCHANGED vars
  BY <1>4 DEF vars
<1>5. ASSUME NEW w \in Workers, Complete(w) PROVE CompleteJob(w)
  BY <1>5 DEF Complete
<1> QED BY <1>1, <1>2, <1>3, <1>4, <1>5 DEF Next

LEMMA QueueInvStep == ASSUME Inv, [Next]_vars PROVE QueueInv'
BY UsesQueue, QueueStepInv DEF Inv, QueueStep

-----------------------------------------------------------------------------
\* The payouts' rows change in two ways only.
LEMMA StatusStep ==
  ASSUME Inv, [Next]_vars
  PROVE  \/ status' = status /\ UNCHANGED <<pending, debits>>
         \/ \E q \in Payouts :
              /\ request[q] = "unsent" /\ request' = [request EXCEPT ![q] = "committed"]
              /\ Reserve(q)
              /\ status' = [status EXCEPT ![q] = "QUEUED"]
              /\ UNCHANGED <<pc, queueVars>>
         \/ \E w \in Workers : Confirm(w)
<1>1. ASSUME NEW p \in Payments, Fund(p) PROVE status' = status /\ UNCHANGED <<pending, debits>>
  BY <1>1 DEF Fund, CreditPayment, ledgerVars
<1>2. ASSUME NEW q \in Payouts, Create(q)
      PROVE  \/ status' = status /\ UNCHANGED <<pending, debits>>
             \/ /\ request[q] = "unsent" /\ request' = [request EXCEPT ![q] = "committed"]
                /\ Reserve(q)
                /\ status' = [status EXCEPT ![q] = "QUEUED"]
                /\ UNCHANGED <<pc, queueVars>>
  BY <1>2 DEF Create, Answer, ledgerVars
<1>3. ASSUME UNCHANGED <<status, ledgerVars>>
      PROVE  status' = status /\ UNCHANGED <<pending, debits>>
  BY <1>3 DEF ledgerVars
<1>4. CASE UNCHANGED vars
  BY <1>3, <1>4 DEF vars
<1>5. CASE Next
  BY <1>1, <1>2, <1>3, <1>5
  DEF Next, Enqueue, LoseRequest, Stall, Work, Take, LockPayout, Complete, Fail, Crash,
      Leave
<1> QED BY <1>4, <1>5

LEMMA MoneyStep == ASSUME Inv, [Next]_vars PROVE MoneyInv'
<1>1. CASE status' = status /\ UNCHANGED <<pending, debits>>
  <2>1. \A a \in Accounts : Queued(a)' = Queued(a)
    BY <1>1 DEF Queued
  <2> QED BY <1>1, <2>1
          DEF Inv, MoneyInv, HoldsCoverQueued, CompletedIffDebited, NoPayoutFails, Total,
              Units
<1>2. ASSUME NEW q \in Payouts, request[q] = "unsent", Reserve(q),
             status' = [status EXCEPT ![q] = "QUEUED"]
      PROVE  MoneyInv'
  <2>1. /\ status[q] = "NONE" /\ debits' = debits
        /\ pending' = [pending EXCEPT ![AccountOf[q]] = @ + Amount[q]]
    BY <1>2 DEF Inv, RowsInv, Reserve
  <2>2. ASSUME NEW a \in Accounts PROVE pending'[a] = Total(Queued(a)')
    <3>1. Queued(a) \in SUBSET References /\ q \notin Queued(a)
      BY <2>1, PayoutFacts DEF Queued
    <3>2. Queued(a)' = IF a = AccountOf[q] THEN Queued(a) \cup {q} ELSE Queued(a)
      BY <1>2, <2>1 DEF Queued, Inv, TypeOK
    <3>3. pending[a] = Total(Queued(a)) /\ pending[a] \in Int
      BY DEF Inv, MoneyInv, HoldsCoverQueued, TypeOK, LedgerTypeOK
    <3>4. pending'[a] = IF a = AccountOf[q] THEN pending[a] + Amount[q] ELSE pending[a]
      BY <2>1 DEF Inv, TypeOK, LedgerTypeOK
    <3> QED BY <3>1, <3>2, <3>3, <3>4, PayoutFacts, TotalAdd
  <2>3. CompletedIffDebited' /\ NoPayoutFails'
    BY <1>2, <2>1 DEF Inv, TypeOK, MoneyInv, CompletedIffDebited, NoPayoutFails
  <2> QED BY <2>2, <2>3 DEF MoneyInv, HoldsCoverQueued, Total, Units
<1>3. ASSUME NEW w \in Workers, Confirm(w) PROVE MoneyInv'
  <2> DEFINE q == task[w]
  <2>1. /\ q \in Payouts /\ status[q] = "QUEUED"
        /\ status' = [status EXCEPT ![q] = "COMPLETED"]
        /\ debits' = debits \cup {q}
        /\ pending' = [pending EXCEPT ![AccountOf[q]] = @ - Amount[q]]
    BY <1>3, ConfirmFacts
  <2> HIDE DEF q
  <2>2. ASSUME NEW a \in Accounts PROVE pending'[a] = Total(Queued(a)')
    <3>1. Queued(a)' = IF a = AccountOf[q] THEN Queued(a) \ {q} ELSE Queued(a)
      BY <2>1 DEF Queued, Inv, TypeOK
    <3>2. pending[a] = Total(Queued(a)) /\ pending[a] \in Int
      BY DEF Inv, MoneyInv, HoldsCoverQueued, TypeOK, LedgerTypeOK
    <3>3. pending'[a] = IF a = AccountOf[q] THEN pending[a] - Amount[q] ELSE pending[a]
      BY <2>1 DEF Inv, TypeOK, LedgerTypeOK
    <3> QED BY <2>1, <3>1, <3>2, <3>3, HoldIsThere
  <2>3. CompletedIffDebited' /\ NoPayoutFails'
    BY <2>1 DEF Inv, TypeOK, MoneyInv, CompletedIffDebited, NoPayoutFails
  <2> QED BY <2>2, <2>3 DEF MoneyInv, HoldsCoverQueued, Total, Units
<1> QED BY <1>1, <1>2, <1>3, StatusStep

-----------------------------------------------------------------------------
\* The row, the request and the workers, action by action.
LEMMA RestStep == ASSUME Inv, [Next]_vars PROVE TypeOK' /\ RowsInv' /\ WorkersInv'
<1> DEFINE Rest == /\ status \in [Payouts -> PayoutStatus \cup {"NONE"}]
                   /\ request \in [Payouts -> RequestStates]
                   /\ pc \in [Workers -> Steps]
                   /\ RowsInv
                   /\ WorkersInv
<1> USE DEF Payouts, Goto, Answer, RowsInv, WorkersInv
<1>1. LedgerTypeOK' /\ QueueTypeOK'
  BY LedgerInvStep, QueueInvStep DEF LedgerInv, QueueInv
<1>2. /\ Rest
      /\ task \in [Workers -> Payouts \cup {NoTask}]
      /\ NoTask \notin Payouts
  BY QueueAssumption DEF Inv, TypeOK, QueueTypeOK
<1>3. ASSUME UNCHANGED <<status, request, pc, queueVars>> PROVE Rest'
  BY <1>2, <1>3 DEF queueVars
<1>4. ASSUME NEW q \in Payouts, Create(q) PROVE Rest'
  BY <1>2, <1>4 DEF Create, PayoutStatus, RequestStates, queueVars
<1>5. ASSUME NEW q \in Payouts, Enqueue(q) \/ LoseRequest(q) PROVE Rest'
  BY <1>2, <1>5 DEF Enqueue, LoseRequest, AddJob, RequestStates, queueVars
<1>6. ASSUME NEW q \in Payouts, Stall(q) PROVE Rest'
  BY <1>2, <1>6 DEF Stall, StallJob
<1>7. ASSUME NEW w \in Workers, NEW q \in Payouts, Take(w, q) PROVE Rest'
  BY <1>2, <1>7 DEF Take, TakeJob, Steps, Running
<1>8. ASSUME NEW w \in Workers, LockPayout(w) PROVE Rest'
  BY <1>2, <1>8 DEF LockPayout, Locked, Steps, queueVars
<1>9. ASSUME NEW w \in Workers, Confirm(w) PROVE Rest'
  <2>1. /\ task[w] \in Payouts /\ pc[w] = "confirm" /\ status[task[w]] = "QUEUED"
        /\ status' = [status EXCEPT ![task[w]] = "COMPLETED"]
        /\ pc' = [pc EXCEPT ![w] = "ack"]
        /\ request' = request /\ task' = task
    BY <1>9, ConfirmFacts DEF Confirm, queueVars
  <2> QED BY <1>2, <2>1 DEF Steps, PayoutStatus
<1>10. ASSUME NEW w \in Workers, Complete(w) \/ Fail(w) \/ Crash(w) PROVE Rest'
  <2>1. /\ pc' = [pc EXCEPT ![w] = "idle"] /\ task' = [task EXCEPT ![w] = NoTask]
        /\ status' = status /\ request' = request
    BY <1>10 DEF Complete, CompleteJob, Fail, FailJob, Crash, CrashWorker, Report, Leave
  <2> QED BY <1>2, <2>1 DEF Steps
<1>11. ASSUME NEW p \in Payments, Fund(p) PROVE Rest'
  BY <1>3, <1>11 DEF Fund
<1>12. ASSUME UNCHANGED vars PROVE Rest'
  BY <1>3, <1>12 DEF vars
<1> HIDE DEF Rest
<1>13. Rest'
  BY <1>4, <1>5, <1>6, <1>7, <1>8, <1>9, <1>10, <1>11, <1>12 DEF Next, Work
<1> QED BY <1>1, <1>13 DEF Rest, TypeOK

-----------------------------------------------------------------------------
\* What a step does to a job: only a worker that is through completes one.
LEMMA JobStep ==
  ASSUME Inv, [Next]_vars, NEW q \in Payouts
  PROVE  JobMoves(q) \/ \E w \in Workers : pc[w] = "ack" /\ task[w] = q
<1>1. CASE [GoOn]_queueVars
  BY <1>1, JobGoesOn DEF Inv, Payouts
<1>2. ASSUME NEW w \in Workers, Complete(w), CompleteJob(w)
      PROVE  JobMoves(q) \/ (pc[w] = "ack" /\ task[w] = q)
  BY <1>2, JobCompletes DEF Inv, Payouts, Complete, JobMoves
<1> QED BY <1>1, <1>2, UsesQueue

\* A row that is closed stays, and a row never vanishes.
LEMMA StatusStays ==
  ASSUME Inv, [Next]_vars, NEW q \in Payouts
  PROVE  /\ status[q] # "NONE" => status'[q] # "NONE"
         /\ status[q] \notin {"NONE", "QUEUED"} => status'[q] = status[q]
<1>1. ASSUME NEW o \in Payouts, request[o] = "unsent",
             status' = [status EXCEPT ![o] = "QUEUED"]
      PROVE  /\ status[q] # "NONE" => status'[q] # "NONE"
             /\ status[q] \notin {"NONE", "QUEUED"} => status'[q] = status[q]
  BY <1>1 DEF Inv, TypeOK, RowsInv
<1>2. ASSUME NEW w \in Workers, Confirm(w)
      PROVE  /\ status[q] # "NONE" => status'[q] # "NONE"
             /\ status[q] \notin {"NONE", "QUEUED"} => status'[q] = status[q]
  BY <1>2, ConfirmFacts DEF Inv, TypeOK
<1> QED BY <1>1, <1>2, StatusStep

\* What a step does to a worker: it takes a waiting job, goes on with the one
\* it has, or is done with it.  Steps of others leave it alone.
LEMMA WorkerStep ==
  ASSUME Inv, [Next]_vars, NEW w \in Workers
  PROVE  \/ pc'[w] = pc[w] /\ task'[w] = task[w]
         \/ pc'[w] = "lock" /\ task'[w] \in Payouts /\ job[task'[w]] = "waiting"
         \/ /\ pc[w] = "lock" /\ task'[w] = task[w] /\ status' = status
            /\ pc'[w] = "confirm" \/ (pc'[w] = "ack" /\ status[task[w]] # "QUEUED")
         \/ /\ pc[w] = "confirm" /\ pc'[w] = "ack" /\ task'[w] = task[w]
            /\ status'[task[w]] = "COMPLETED"
         \/ pc'[w] = "idle"
<1> USE DEF Goto
<1>1. /\ pc \in [Workers -> Steps] /\ status \in [Payouts -> PayoutStatus \cup {"NONE"}]
      /\ task \in [Workers -> Payouts \cup {NoTask}]
  BY DEF Inv, TypeOK, QueueTypeOK, Payouts
<1>2. ASSUME NEW q \in Payouts, Take(w, q)
      PROVE  pc'[w] = "lock" /\ task'[w] \in Payouts /\ job[task'[w]] = "waiting"
  BY <1>1, <1>2 DEF Take, TakeJob
<1>3. ASSUME LockPayout(w)
      PROVE  /\ pc[w] = "lock" /\ task'[w] = task[w] /\ status' = status
             /\ pc'[w] = "confirm" \/ (pc'[w] = "ack" /\ status[task[w]] # "QUEUED")
  BY <1>1, <1>3 DEF LockPayout, queueVars
<1>4. ASSUME Confirm(w)
      PROVE  /\ pc[w] = "confirm" /\ pc'[w] = "ack" /\ task'[w] = task[w]
             /\ status'[task[w]] = "COMPLETED"
  BY <1>1, <1>4, ConfirmFacts DEF Confirm, queueVars
<1>5. ASSUME Complete(w) \/ Fail(w) \/ Crash(w) PROVE pc'[w] = "idle"
  BY <1>1, <1>5 DEF Complete, Fail, Crash, Leave
<1>6. ASSUME NEW v \in Workers, v # w, Work(v) PROVE pc'[w] = pc[w] /\ task'[w] = task[w]
  BY <1>1, <1>6
  DEF Work, Take, TakeJob, LockPayout, Confirm, Complete, CompleteJob, Fail, FailJob,
      Crash, CrashWorker, Report, Leave, queueVars
<1>7. ASSUME NEW q \in Payouts, Create(q) \/ Enqueue(q) \/ LoseRequest(q) \/ Stall(q)
      PROVE  pc' = pc /\ task' = task
  BY <1>7 DEF Create, Enqueue, LoseRequest, AddJob, Stall, StallJob, queueVars
<1>8. ASSUME NEW p \in Payments, Fund(p) PROVE pc' = pc /\ task' = task
  BY <1>8 DEF Fund, queueVars
<1>9. CASE UNCHANGED vars
  BY <1>9 DEF vars, queueVars
<1>10. CASE \E v \in Workers : Work(v)
  BY <1>2, <1>3, <1>4, <1>5, <1>6, <1>10 DEF Work
<1> QED BY <1>7, <1>8, <1>9, <1>10 DEF Next

LEMMA TasksStep ==
  ASSUME Inv, [Next]_vars, NEW w \in Workers, pc'[w] # "idle"
  PROVE  /\ status'[task'[w]] # "NONE"
         /\ pc'[w] = "ack" => status'[task'[w]] # "QUEUED"
<1>1. CASE pc'[w] = "lock" /\ task'[w] \in Payouts /\ job[task'[w]] = "waiting"
  <2> PICK q \in Payouts : q = task'[w] /\ job[q] = "waiting"
    BY <1>1
  <2>1. status[q] # "NONE"
    BY DEF Inv, JobsInv
  <2> QED BY <1>1, <2>1, StatusStays
<1>2. CASE pc[w] # "idle" /\ task'[w] = task[w]
  <2>1. task[w] \in Payouts /\ status[task[w]] # "NONE"
    BY <1>2, TaskFacts DEF Inv, JobsInv
  <2>2. pc[w] = "ack" => status[task[w]] \notin {"NONE", "QUEUED"}
    BY <2>1 DEF Inv, JobsInv
  <2> QED BY <1>2, <2>1, <2>2, StatusStays, WorkerStep
<1> QED BY <1>1, <1>2, WorkerStep

LEMMA JobsStep == ASSUME Inv, [Next]_vars PROVE JobsInv'
<1>1. ASSUME NEW q \in Payouts
      PROVE  /\ job'[q] # "none" => status'[q] # "NONE"
             /\ request'[q] = "answered" => job'[q] # "none"
  <2>1. job[q] # "none" => job'[q] # "none"
    BY UsesQueue, JobGoesOn, JobCompletes DEF Inv, Payouts, JobMoves
  <2>2. status[q] # "NONE" => status'[q] # "NONE"
    BY StatusStays
  <2>3. CASE Enqueue(q) \/ LoseRequest(q)
    <3>1. status[q] # "NONE"
      BY <2>3 DEF Enqueue, LoseRequest, Inv, RowsInv
    <3>2. request'[q] = "answered" => job'[q] # "none"
      BY <2>3
      DEF Enqueue, LoseRequest, Answer, AddJob, Inv, TypeOK, QueueTypeOK, Payouts
    <3> QED BY <2>2, <3>1, <3>2
  <2>4. ASSUME ~Enqueue(q), ~LoseRequest(q)
        PROVE  /\ job[q] = "none" => job'[q] = "none"
               /\ request'[q] = "answered" => request[q] = "answered"
    <3>1. ASSUME NEW o \in Payouts, Enqueue(o) \/ LoseRequest(o), o # q
          PROVE  job'[q] = job[q] /\ request'[q] = request[q]
      BY <3>1
      DEF Enqueue, LoseRequest, Answer, AddJob, Inv, TypeOK, QueueTypeOK, Payouts, queueVars
    <3>2. ASSUME NEW o \in Payouts, Create(o) \/ Stall(o)
          PROVE  /\ job[q] = "none" => job'[q] = "none"
                 /\ request'[q] = "answered" => request[q] = "answered"
      BY <3>2
      DEF Create, Answer, Stall, StallJob, Inv, TypeOK, QueueTypeOK, Payouts, queueVars
    <3>3. ASSUME NEW w \in Workers, Work(w)
          PROVE  /\ job[q] = "none" => job'[q] = "none"
                 /\ request'[q] = "answered" => request[q] = "answered"
      <4>1. request' = request
        BY <3>3 DEF Work, Take, LockPayout, Confirm, Complete, Fail, Crash, Leave
      <4>2. CASE \E o \in Payouts : Take(w, o)
        BY <4>1, <4>2 DEF Take, TakeJob, Inv, TypeOK, QueueTypeOK, Payouts
      <4>3. CASE \E state : Report(w, state)
        BY <4>1, <4>3 DEF Report, Inv, QueueInv, QueueTypeOK, Payouts
      <4>4. CASE job' = job
        BY <4>1, <4>4
      <4> QED BY <3>3, <4>2, <4>3, <4>4
              DEF Work, LockPayout, Confirm, Complete, CompleteJob, Fail, FailJob, Crash,
                  CrashWorker, queueVars
    <3>4. ASSUME NEW p \in Payments, Fund(p) PROVE job' = job /\ request' = request
      BY <3>4 DEF Fund, queueVars
    <3>5. CASE UNCHANGED vars
      BY <3>5 DEF vars, queueVars
    <3> QED BY <2>4, <3>1, <3>2, <3>3, <3>4, <3>5 DEF Next
  <2> QED BY <2>1, <2>2, <2>3, <2>4 DEF Inv, JobsInv
<1>2. ASSUME NEW w \in Workers, pc'[w] # "idle"
      PROVE  /\ status'[task'[w]] # "NONE"
             /\ pc'[w] = "ack" => status'[task'[w]] # "QUEUED"
  BY <1>2, TasksStep
<1>3. ASSUME NEW q \in Payouts, job'[q] = "completed"
      PROVE  status'[q] \notin {"NONE", "QUEUED"}
  BY <1>3, JobStep, StatusStays DEF Inv, JobsInv, JobMoves
<1> QED BY <1>1, <1>2, <1>3 DEF JobsInv

LEMMA EntriesStep == ASSUME Inv, [Next]_vars PROVE EntriesInv'
BY LedgerStep DEF Inv, EntriesInv, CreditPayment, Reserve, ConfirmDebit, ledgerVars

LEMMA Invariant == Spec => []Inv
<1>1. Init => Inv
  BY InitInv
<1>2. Inv /\ [Next]_vars => Inv'
  BY LedgerInvStep, QueueInvStep, MoneyStep, RestStep, JobsStep, EntriesStep DEF Inv
<1> QED BY <1>1, <1>2, PTL DEF Spec

\* Every variable keeps to its type, whatever fails, crashes or stalls.
THEOREM PayoutsTypes == Spec => []TypeOK
<1>1. Inv => TypeOK
  BY DEF Inv
<1> QED BY <1>1, Invariant, PTL

\* The pending money of every account is what its QUEUED payouts hold
\* (payouts.service 45-67, 97-102).
THEOREM PayoutsHoldsCoverQueued == Spec => []HoldsCoverQueued
<1>1. Inv => HoldsCoverQueued
  BY DEF Inv, MoneyInv
<1> QED BY <1>1, Invariant, PTL

\* A payout is COMPLETED exactly when its debit is in the ledger
\* (payouts.service 97-115).
THEOREM PayoutsDebitCompleted == Spec => []CompletedIffDebited
<1>1. Inv => CompletedIffDebited
  BY DEF Inv, MoneyInv
<1> QED BY <1>1, Invariant, PTL

\* The branch that records FAILED is never taken, however many workers run
\* (payouts.service 116-142).
THEOREM PayoutsNeverFail == Spec => []NoPayoutFails
<1>1. Inv => NoPayoutFails
  BY DEF Inv, MoneyInv
<1> QED BY <1>1, Invariant, PTL

\* The fundings, holds and confirmations of this module are operations of the
\* ledger that Balances implements, and it does nothing else to money
\* (payouts.service 45-67, 97-142).
THEOREM PayoutsImplementLedger == Spec => LedgerSpec
<1>1. Init => LedgerInit
  BY DEF Init
<1>2. Inv /\ [Next]_vars => [LedgerNext]_ledgerVars
  BY LedgerStep, PayoutFacts, PayoutsAssumption DEF LedgerNext
<1> QED BY <1>1, <1>2, Invariant, PTL DEF Spec, LedgerSpec

Completed(a) == {q \in Payouts : AccountOf[q] = a /\ status[q] = "COMPLETED"}

\* What a partner may spend is what was settled less every payout of his that
\* is done or on its way, and it is never negative: neither two requests at
\* once nor two runs of one job take the same money twice.
SpendableIsWhatIsLeft ==
  \A a \in Accounts :
    /\ available[a] = Total(Of(a, credits)) - Total(Completed(a)) - Total(Queued(a))
    /\ available[a] >= 0

\* Ledger and rows agree on the money a partner has left (payouts.service
\* 45-67, 97-115).
THEOREM PayoutsLeaveTheRest == Spec => []SpendableIsWhatIsLeft
<1>1. Inv => SpendableIsWhatIsLeft
  <2> SUFFICES ASSUME Inv, NEW a \in Accounts
               PROVE  /\ available[a] = Total(Of(a, credits)) - Total(Completed(a))
                                          - Total(Queued(a))
                      /\ available[a] >= 0
    BY DEF SpendableIsWhatIsLeft
  <2>1. Of(a, debits) = Completed(a)
    BY PayoutFacts
    DEF Of, Completed, Inv, EntriesInv, MoneyInv, CompletedIffDebited
  <2>2. pending[a] = Total(Queued(a))
    BY DEF Inv, MoneyInv, HoldsCoverQueued
  <2> QED BY <2>1, <2>2, LedgerFacts DEF Inv
<1> QED BY <1>1, Invariant, PTL

\* The safety part of AnsweredPayoutsEnd: a payout the API answered 202 for is
\* completed, or its job is waiting, in the hands of a worker, or kept as
\* failed with all its tries used (queue.config 6-16).
AnsweredAreKept ==
  \A q \in Payouts : request[q] = "answered" => status[q] = "COMPLETED" \/ Kept(q)

\* No answered payout is forgotten with its money held, for any number of
\* workers, attempts and stalls.
THEOREM PayoutsKeepAnswered == Spec => []AnsweredAreKept
<1>1. Inv => AnsweredAreKept
  <2> SUFFICES ASSUME Inv, NEW q \in Payouts, request[q] = "answered",
                      status[q] # "COMPLETED"
               PROVE  Kept(q)
    BY DEF AnsweredAreKept
  <2>1. status[q] \in {"NONE", "QUEUED"}
    BY DEF Inv, TypeOK, PayoutStatus, MoneyInv, NoPayoutFails
  <2>2. job[q] \notin {"none", "completed"}
    BY <2>1 DEF Inv, JobsInv
  <2> QED BY <2>2, KeptFacts DEF Inv, Payouts
<1> QED BY <1>1, Invariant, PTL

\* A job that has ended is not run again, and a payout that was completed is
\* never taken back, however late a stalled run comes to its end.
EndsOnce(q) ==
  /\ job[q] \in Ended => job'[q] = job[q]
  /\ status[q] = "COMPLETED" => status'[q] = "COMPLETED"

EndedForGood == [][\A q \in Payouts : EndsOnce(q)]_vars

\* Every interleaving of reports, stalls and crashes ends a job, and closes a
\* payout, at most once.
THEOREM PayoutsEndOnce == Spec => EndedForGood
<1>1. Inv /\ [Next]_vars => [\A q \in Payouts : EndsOnce(q)]_vars
  BY UsesQueue, EndedStays, StatusStays DEF Inv, QueueStep, Payouts, EndsOnce
<1> QED BY <1>1, Invariant, PTL DEF Spec, EndedForGood

\* The same count as in the settlement: no answered payout is tried forever
\* (queue.config 11-16).
JobsCountDown == [][\A q \in Payouts : CountsDown(q)]_vars

\* Each taking, failure or stall of a payout's job lowers a natural number.
THEOREM PayoutJobsRunOut ==
  Spec => [](\A q \in Payouts : MovesLeft(q) \in Nat) /\ JobsCountDown
<1>1. Inv => \A q \in Payouts : MovesLeft(q) \in Nat
  BY MovesLeftNat DEF Inv, Payouts
<1>2. Inv /\ [Next]_vars => [\A q \in Payouts : CountsDown(q)]_vars
  BY UsesQueue, JobCountsDown DEF Inv, QueueStep, Payouts
<1> QED BY <1>1, <1>2, Invariant, PTL DEF Spec, JobsCountDown
=============================================================================
