------------------------------ MODULE JobQueue ------------------------------
(***************************************************************************)
(* A BullMQ queue and the workers that process its jobs one at a time, as  *)
(* the money queues are configured (src/common/queue.config.ts): a run     *)
(* that throws is tried again until its attempts are used up, and a failed *)
(* job is kept.  Redis and the stalled check are BullMQ's own.             *)
(*                                                                         *)
(* A worker holds a job's lock while it runs it.  The lock may expire: the *)
(* job is then found stalled and given to whoever takes it next, while a   *)
(* worker that is only slow goes on with it, without the lock.             *)
(***************************************************************************)
EXTENDS Integers

CONSTANTS
  Jobs,         \* job ids
  Workers,      \* job processors, one per API process
  NoWorker,     \* owner of a job whose lock nobody holds
  NoTask,       \* task of a worker that runs no job
  Attempts,     \* runs of a job before it is failed, 5 in the code
  MaxStalls     \* times a job may stall before it is failed, 1 in BullMQ

ASSUME QueueAssumption ==
  /\ NoWorker \notin Workers
  /\ NoTask \notin Jobs
  /\ Attempts \in Nat \ {0}
  /\ MaxStalls \in Nat

VARIABLES
  job,          \* per job id: its state in Redis, "none" before it is added
  owner,        \* the worker that holds the job's lock
  failures,     \* runs of the job that failed
  stalls,       \* times the job was found stalled
  task          \* the job a worker runs

queueVars == <<job, owner, failures, stalls, task>>

JobStates == {"none", "waiting", "active", "completed", "failed"}

QueueTypeOK ==
  /\ job \in [Jobs -> JobStates]
  /\ owner \in [Jobs -> Workers \cup {NoWorker}]
  /\ failures \in [Jobs -> 0 .. Attempts]
  /\ stalls \in [Jobs -> 0 .. MaxStalls + 1]
  /\ task \in [Workers -> Jobs \cup {NoTask}]

QueueInit ==
  /\ job = [j \in Jobs |-> "none"]
  /\ owner = [j \in Jobs |-> NoWorker]
  /\ failures = [j \in Jobs |-> 0]
  /\ stalls = [j \in Jobs |-> 0]
  /\ task = [w \in Workers |-> NoTask]

-----------------------------------------------------------------------------
Running(w) == task[w] # NoTask

\* queue.add: an id that is known already adds nothing.
AddJob(j) ==
  /\ job' = IF job[j] = "none" THEN [job EXCEPT ![j] = "waiting"] ELSE job
  /\ UNCHANGED <<owner, failures, stalls, task>>

\* Any waiting job may be next: a failed run comes back after its backoff,
\* behind or before jobs that were added later.
TakeJob(w, j) ==
  /\ ~Running(w)
  /\ job[j] = "waiting"
  /\ job' = [job EXCEPT ![j] = "active"]
  /\ owner' = [owner EXCEPT ![j] = w]
  /\ task' = [task EXCEPT ![w] = j]
  /\ UNCHANGED <<failures, stalls>>

\* A run's outcome counts only while the worker still holds the lock.
Report(w, state) ==
  LET j == task[w] IN
  /\ task' = [task EXCEPT ![w] = NoTask]
  /\ job' = IF owner[j] = w THEN [job EXCEPT ![j] = state] ELSE job
  /\ owner' = IF owner[j] = w THEN [owner EXCEPT ![j] = NoWorker] ELSE owner

CompleteJob(w) ==
  /\ Running(w)
  /\ Report(w, "completed")
  /\ UNCHANGED <<failures, stalls>>

\* Mutant: a failed run is always tried again.
FailJobForever(w) ==
  LET j == task[w] IN
  /\ Running(w)
  /\ Report(w, "waiting")
  /\ failures' = IF owner[j] = w THEN [failures EXCEPT ![j] = @ + 1] ELSE failures
  /\ UNCHANGED stalls

\* Mutant: the processor swallows its error.
FailJobSilently(w) == Running(w) /\ Report(w, "completed") /\ UNCHANGED <<failures, stalls>>

\* The processor throws: the job waits for its next attempt or, after the
\* last, is kept as failed.
FailJob(w) ==
  LET j == task[w] IN
  /\ Running(w)
  /\ Report(w, IF failures[j] + 1 < Attempts THEN "waiting" ELSE "failed")
  /\ failures' = IF owner[j] = w THEN [failures EXCEPT ![j] = @ + 1] ELSE failures
  /\ UNCHANGED stalls

\* The process dies and restarts: its job stays active until found stalled.
CrashWorker(w) ==
  /\ Running(w)
  /\ task' = [task EXCEPT ![w] = NoTask]
  /\ UNCHANGED <<job, owner, failures, stalls>>

\* Mutant: the lock is freed and the job left active.
StallJobOnly(j) ==
  /\ job[j] = "active"
  /\ stalls[j] <= MaxStalls
  /\ stalls' = [stalls EXCEPT ![j] = @ + 1]
  /\ owner' = [owner EXCEPT ![j] = NoWorker]
  /\ UNCHANGED <<job, failures, task>>

\* The stalled check finds an active job whose lock has expired.
StallJob(j) ==
  /\ job[j] = "active"
  /\ stalls' = [stalls EXCEPT ![j] = @ + 1]
  /\ job' = [job EXCEPT ![j] = IF stalls[j] < MaxStalls THEN "waiting" ELSE "failed"]
  /\ owner' = [owner EXCEPT ![j] = NoWorker]
  /\ UNCHANGED <<failures, task>>

\* The lock of an active job is not renewed: its worker died.
Abandoned(j) == owner[j] \in Workers /\ task[owner[j]] # j
=============================================================================
