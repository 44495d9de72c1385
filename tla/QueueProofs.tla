----------------------------- MODULE QueueProofs -----------------------------
(***************************************************************************)
(* What the operations of a money queue keep, whoever calls them.          *)
(***************************************************************************)
EXTENDS JobQueue, TLAPS

\* The active jobs are the ones somebody holds the lock of, and a job that may
\* still run has attempts and stalls left: the types alone are not inductive.
\* A failed job has none: it was not given up early.
QueueInv ==
  /\ QueueTypeOK
  /\ \A j \in Jobs : owner[j] \in Workers <=> job[j] = "active"
  /\ \A j \in Jobs : job[j] \in {"none", "waiting", "active"} =>
       failures[j] < Attempts /\ stalls[j] <= MaxStalls
  /\ \A j \in Jobs : job[j] = "failed" =>
       failures[j] = Attempts \/ stalls[j] = MaxStalls + 1

\* The job is still to run, is in the hands of its lock's owner (or Abandoned,
\* for the stalled check to find), or is kept as failed, its tries used up.
Kept(j) ==
  \/ job[j] = "waiting"
  \/ job[j] = "active" /\ owner[j] \in Workers
  \/ job[j] = "failed" /\ (failures[j] = Attempts \/ stalls[j] = MaxStalls + 1)

Ended == {"completed", "failed"}

LEMMA QueueInitInv == ASSUME QueueInit PROVE QueueInv
BY QueueAssumption DEF QueueInit, QueueInv, QueueTypeOK, JobStates

LEMMA QueueStutter == ASSUME QueueInv, UNCHANGED queueVars PROVE QueueInv'
BY DEF QueueInv, QueueTypeOK, queueVars

LEMMA AddJobInv == ASSUME QueueInv, NEW j \in Jobs, AddJob(j) PROVE QueueInv'
BY QueueAssumption DEF AddJob, QueueInv, QueueTypeOK, JobStates

LEMMA TakeJobInv ==
  ASSUME QueueInv, NEW w \in Workers, NEW j \in Jobs, TakeJob(w, j) PROVE QueueInv'
BY QueueAssumption DEF TakeJob, QueueInv, QueueTypeOK, JobStates

LEMMA CompleteJobInv ==
  ASSUME QueueInv, NEW w \in Workers, CompleteJob(w) PROVE QueueInv'
BY QueueAssumption DEF CompleteJob, Report, Running, QueueInv, QueueTypeOK, JobStates

\* A run that fails while it holds the lock leaves attempts, or a failed job.
LEMMA FailJobInv ==
  ASSUME QueueInv, NEW w \in Workers, FailJob(w) PROVE QueueInv'
<1> DEFINE j == task[w]
           state == IF failures[j] + 1 < Attempts THEN "waiting" ELSE "failed"
<1>1. j \in Jobs /\ Attempts \in Nat
  BY QueueAssumption DEF FailJob, Running, QueueInv, QueueTypeOK
<1>2. CASE owner[j] = w
  <2>1. failures[j] \in Nat /\ failures[j] < Attempts
    BY <1>1, <1>2 DEF QueueInv, QueueTypeOK
  <2>2. /\ job' = [job EXCEPT ![j] = state]
        /\ owner' = [owner EXCEPT ![j] = NoWorker]
        /\ failures' = [failures EXCEPT ![j] = @ + 1]
        /\ task' = [task EXCEPT ![w] = NoTask]
        /\ stalls' = stalls
    BY <1>2 DEF FailJob, Report
  <2>3. state \in JobStates
    BY DEF JobStates
  <2>4. failures[j] + 1 \in 0 .. Attempts
    BY <1>1, <2>1
  <2>5. state \in {"none", "waiting", "active"} => failures[j] + 1 < Attempts
    OBVIOUS
  <2>6. stalls[j] <= MaxStalls
    BY <1>1, <1>2 DEF QueueInv
  <2> HIDE DEF state, j
  <2>7. QueueTypeOK'
    BY <1>1, <2>2, <2>3, <2>4 DEF QueueInv, QueueTypeOK
  <2>8. \A k \in Jobs : owner'[k] \in Workers <=> job'[k] = "active"
    <3>1. state # "active"
      BY DEF state
    <3> QED BY <1>1, <2>2, <3>1, QueueAssumption DEF QueueInv, QueueTypeOK
  <2>9. ASSUME NEW k \in Jobs, job'[k] \in {"none", "waiting", "active"}
        PROVE  failures'[k] < Attempts /\ stalls'[k] <= MaxStalls
    BY <1>1, <2>1, <2>2, <2>5, <2>6, <2>9 DEF QueueInv, QueueTypeOK
  <2>10. ASSUME NEW k \in Jobs, job'[k] = "failed"
         PROVE  failures'[k] = Attempts \/ stalls'[k] = MaxStalls + 1
    <3>1. state = "failed" => failures[j] + 1 = Attempts
      BY <1>1, <2>1 DEF state
    <3> QED BY <1>1, <2>2, <2>10, <3>1 DEF QueueInv, QueueTypeOK
  <2> QED BY <2>7, <2>8, <2>9, <2>10 DEF QueueInv
<1>3. CASE owner[j] # w
  BY <1>1, <1>3, QueueAssumption DEF FailJob, Report, QueueInv, QueueTypeOK
<1> QED BY <1>2, <1>3

LEMMA CrashWorkerInv ==
  ASSUME QueueInv, NEW w \in Workers, CrashWorker(w) PROVE QueueInv'
BY DEF CrashWorker, QueueInv, QueueTypeOK

\* A stall beyond the limit fails the job.
LEMMA StallJobInv ==
  ASSUME QueueInv, NEW j \in Jobs, StallJob(j) PROVE QueueInv'
<1> DEFINE state == IF stalls[j] < MaxStalls THEN "waiting" ELSE "failed"
<1>1. stalls[j] \in Nat /\ stalls[j] <= MaxStalls /\ MaxStalls \in Nat
  BY QueueAssumption DEF StallJob, QueueInv, QueueTypeOK
<1>2. /\ job' = [job EXCEPT ![j] = state]
      /\ owner' = [owner EXCEPT ![j] = NoWorker]
      /\ stalls' = [stalls EXCEPT ![j] = @ + 1]
      /\ failures' = failures /\ task' = task
  BY DEF StallJob
<1>3. /\ state \in JobStates /\ state # "active"
      /\ state \in {"none", "waiting", "active"} => stalls[j] + 1 <= MaxStalls
      /\ state = "failed" => stalls[j] + 1 = MaxStalls + 1
  BY <1>1 DEF JobStates
<1>4. stalls[j] + 1 \in 0 .. MaxStalls + 1
  BY <1>1
<1>5. failures[j] < Attempts
  BY DEF StallJob, QueueInv
<1> HIDE DEF state
<1>6. QueueTypeOK'
  BY <1>2, <1>3, <1>4 DEF QueueInv, QueueTypeOK
<1>7. \A k \in Jobs : owner'[k] \in Workers <=> job'[k] = "active"
  BY <1>2, <1>3, QueueAssumption DEF QueueInv, QueueTypeOK
<1>8. ASSUME NEW k \in Jobs, job'[k] \in {"none", "waiting", "active"}
      PROVE  failures'[k] < Attempts /\ stalls'[k] <= MaxStalls
  BY <1>2, <1>3, <1>5, <1>8 DEF QueueInv, QueueTypeOK
<1>9. ASSUME NEW k \in Jobs, job'[k] = "failed"
      PROVE  failures'[k] = Attempts \/ stalls'[k] = MaxStalls + 1
  BY <1>2, <1>3, <1>9 DEF QueueInv, QueueTypeOK
<1> QED BY <1>6, <1>7, <1>8, <1>9 DEF QueueInv

-----------------------------------------------------------------------------
\* Any operation but the report of a run that went well.
GoOn ==
  \/ \E j \in Jobs : AddJob(j) \/ StallJob(j)
  \/ \E w \in Workers, j \in Jobs : TakeJob(w, j)
  \/ \E w \in Workers : FailJob(w) \/ CrashWorker(w)

QueueStep == [GoOn]_queueVars \/ \E w \in Workers : CompleteJob(w)

LEMMA QueueStepInv == ASSUME QueueInv, QueueStep PROVE QueueInv'
BY QueueStutter, AddJobInv, StallJobInv, TakeJobInv, FailJobInv, CrashWorkerInv,
   CompleteJobInv
DEF QueueStep, GoOn

\* None of them completes a job, or runs one again that has ended.
JobMoves(j) ==
  \/ job'[j] = job[j]
  \/ job[j] = "none" /\ job'[j] = "waiting"
  \/ job[j] = "waiting" /\ job'[j] = "active"
  \/ job[j] = "active" /\ job'[j] \in {"waiting", "failed"}

LEMMA JobGoesOn == ASSUME QueueInv, NEW j \in Jobs, [GoOn]_queueVars PROVE JobMoves(j)
<1>1. CASE UNCHANGED queueVars
  BY <1>1 DEF queueVars, JobMoves
<1>2. ASSUME NEW i \in Jobs, AddJob(i) PROVE JobMoves(j)
  BY <1>2 DEF AddJob, JobMoves, QueueInv, QueueTypeOK
<1>3. ASSUME NEW i \in Jobs, StallJob(i) PROVE JobMoves(j)
  BY <1>3 DEF StallJob, JobMoves, QueueInv, QueueTypeOK
<1>4. ASSUME NEW i \in Jobs, NEW w \in Workers, TakeJob(w, i) PROVE JobMoves(j)
  BY <1>4 DEF TakeJob, JobMoves, QueueInv, QueueTypeOK
<1>5. ASSUME NEW w \in Workers, FailJob(w) PROVE JobMoves(j)
  <2>1. task[w] \in Jobs
    BY <1>5 DEF FailJob, Running, QueueInv, QueueTypeOK
  <2>2. \E state \in {"waiting", "failed"} : Report(w, state)
    BY <1>5 DEF FailJob
  <2> QED BY <2>1, <2>2 DEF Report, JobMoves, QueueInv, QueueTypeOK
<1>6. ASSUME NEW w \in Workers, CrashWorker(w) PROVE JobMoves(j)
  BY <1>6 DEF CrashWorker, JobMoves
<1> QED BY <1>1, <1>2, <1>3, <1>4, <1>5, <1>6 DEF GoOn

\* A worker that has lost the lock reports to nobody, whatever it did.
LEMMA JobCompletes ==
  ASSUME QueueInv, NEW j \in Jobs, NEW w \in Workers, CompleteJob(w)
  PROVE  \/ job'[j] = job[j]
         \/ task[w] = j /\ job[j] = "active" /\ job'[j] = "completed"
<1>1. task[w] \in Jobs
  BY DEF CompleteJob, Running, QueueInv, QueueTypeOK
<1> QED BY <1>1 DEF CompleteJob, Report, QueueInv, QueueTypeOK

\* A job that is neither new nor completed is kept.
LEMMA KeptFacts ==
  ASSUME QueueInv, NEW j \in Jobs, job[j] \notin {"none", "completed"} PROVE Kept(j)
BY DEF QueueInv, QueueTypeOK, JobStates, Kept

\* However runs, stalls and late reports interleave, a job ends once.
LEMMA EndedStays ==
  ASSUME QueueInv, NEW j \in Jobs, QueueStep, job[j] \in Ended PROVE job'[j] = job[j]
BY JobGoesOn, JobCompletes DEF QueueStep, JobMoves, Ended

-----------------------------------------------------------------------------
(* A bound on what a job may still go through.                              *)

\* Each try it has left may take it out of the queue and back.
MovesLeft(j) ==
  2 * ((Attempts - failures[j]) + (MaxStalls + 1 - stalls[j]))
    + (IF job[j] = "waiting" THEN 1 ELSE 0)

\* A job that may run stays as it is, or ends, or comes nearer to its end.
CountsDown(j) ==
  job[j] \in {"waiting", "active"} =>
    \/ job'[j] \in Ended
    \/ job'[j] \in {"waiting", "active"} /\ MovesLeft(j)' < MovesLeft(j)
    \/ job'[j] = job[j] /\ MovesLeft(j)' = MovesLeft(j)

LEMMA MovesLeftNat == ASSUME QueueInv, NEW j \in Jobs PROVE MovesLeft(j) \in Nat
<1>1. /\ failures[j] \in 0 .. Attempts /\ stalls[j] \in 0 .. MaxStalls + 1
      /\ Attempts \in Nat /\ MaxStalls \in Nat
  BY QueueAssumption DEF QueueInv, QueueTypeOK
<1> QED BY <1>1 DEF MovesLeft

\* What counts are left, of a job whose try has failed or stalled.
LEMMA JobCounts ==
  ASSUME QueueInv, NEW j \in Jobs, QueueStep, job[j] \in {"waiting", "active"}
  PROVE  \/ job'[j] = job[j] /\ failures'[j] = failures[j] /\ stalls'[j] = stalls[j]
         \/ /\ job[j] = "waiting" /\ job'[j] = "active"
            /\ failures'[j] = failures[j] /\ stalls'[j] = stalls[j]
         \/ /\ job[j] = "active" /\ job'[j] = "waiting"
            /\ \/ failures'[j] = failures[j] + 1 /\ stalls'[j] = stalls[j]
               \/ failures'[j] = failures[j] /\ stalls'[j] = stalls[j] + 1
         \/ job'[j] \in Ended
<1> USE DEF QueueInv, QueueTypeOK, Ended
<1>1. CASE UNCHANGED queueVars
  BY <1>1 DEF queueVars
<1>2. ASSUME NEW i \in Jobs, AddJob(i) PROVE job'[j] = job[j] /\ UNCHANGED <<failures, stalls>>
  BY <1>2 DEF AddJob
<1>3. CASE StallJob(j)
  BY <1>3 DEF StallJob
<1>4. ASSUME NEW i \in Jobs \ {j}, StallJob(i)
      PROVE  job'[j] = job[j] /\ failures'[j] = failures[j] /\ stalls'[j] = stalls[j]
  BY <1>4 DEF StallJob
<1>5. ASSUME NEW i \in Jobs, NEW w \in Workers, TakeJob(w, i)
      PROVE  /\ job'[j] = job[j] \/ (job[j] = "waiting" /\ job'[j] = "active")
             /\ UNCHANGED <<failures, stalls>>
  BY <1>5 DEF TakeJob
<1>6. ASSUME NEW w \in Workers, FailJob(w)
      PROVE  /\ stalls' = stalls
             /\ \/ job'[j] = job[j] /\ failures'[j] = failures[j]
                \/ job[j] = "active" /\ job'[j] = "waiting" /\ failures'[j] = failures[j] + 1
                \/ job'[j] \in Ended
  <2>1. task[w] \in Jobs /\ stalls' = stalls
    BY <1>6 DEF FailJob, Running
  <2>2. CASE owner[task[w]] = w /\ task[w] = j
    <3>1. \E state \in {"waiting", "failed"} : job' = [job EXCEPT ![j] = state]
      BY <1>6, <2>2 DEF FailJob, Report
    <3>2. failures' = [failures EXCEPT ![j] = @ + 1] /\ job[j] = "active"
      BY <1>6, <2>1, <2>2 DEF FailJob
    <3> QED BY <2>1, <3>1, <3>2
  <2>3. CASE ~(owner[task[w]] = w /\ task[w] = j)
    <3>1. job'[j] = job[j]
      BY <1>6, <2>1, <2>3 DEF FailJob, Report
    <3>2. failures'[j] = failures[j]
      BY <1>6, <2>1, <2>3 DEF FailJob
    <3> QED BY <2>1, <3>1, <3>2
  <2> QED BY <2>2, <2>3
<1>7. ASSUME NEW w \in Workers, CrashWorker(w) PROVE UNCHANGED <<job, failures, stalls>>
  BY <1>7 DEF CrashWorker
<1>8. ASSUME NEW w \in Workers, CompleteJob(w)
      PROVE  (job'[j] = job[j] \/ job'[j] = "completed") /\ UNCHANGED <<failures, stalls>>
  BY <1>8, JobCompletes DEF CompleteJob
<1> QED BY <1>1, <1>2, <1>3, <1>4, <1>5, <1>6, <1>7, <1>8 DEF QueueStep, GoOn

LEMMA JobCountsDown == ASSUME QueueInv, NEW j \in Jobs, QueueStep PROVE CountsDown(j)
<1>1. /\ failures[j] \in Nat /\ stalls[j] \in Nat /\ Attempts \in Nat /\ MaxStalls \in Nat
  BY QueueAssumption DEF QueueInv, QueueTypeOK
<1>2. CASE job[j] \in {"waiting", "active"}
  BY <1>1, <1>2, JobCounts DEF CountsDown, MovesLeft
<1> QED BY <1>2 DEF CountsDown
=============================================================================
