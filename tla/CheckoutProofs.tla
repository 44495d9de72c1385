--------------------------- MODULE CheckoutProofs ----------------------------
(***************************************************************************)
(* The safety of Idempotency and of the two creations it wraps, for any    *)
(* requests, keys, bodies and failures.                                    *)
(*                                                                         *)
(* First Idempotency.  The row of a key is the key to all of it: whoever   *)
(* executes finds its own row there, a row that retains a UUID is never    *)
(* deleted, and one that does not is deleted by the one request that       *)
(* executes, which then fails.                                             *)
(*                                                                         *)
(* Then Checkout, which implements it, so that the first part holds of it  *)
(* too: a success names a whole resource, a key has one charge, and a      *)
(* charge can be resumed.                                                  *)
(***************************************************************************)
EXTENDS Checkout, TLAPS

Executing == {"execute", "persist", "undo"}

\* A row tells who inserted it; its snapshot is of what that request drew.
RowsInv ==
  \A k \in Keys : row[k] # None =>
    /\ KeyOf[row[k].by] = k
    /\ row[k].body = BodyOf[row[k].by]
    /\ row[k].resource = IF Retain[row[k].by] THEN row[k].by ELSE None
    /\ row[k].saved \in {None, row[k].by}

\* A request executes with its own UUID, or resumes with the row's, which is of
\* its own endpoint.  A payout executes alone under its key.
ExecutorsInv ==
  \A r \in Requests :
    /\ KeyOf[target[r]] = KeyOf[r] /\ Retain[target[r]] = Retain[r]
    /\ ~Keyed(r) => target[r] = r
    /\ pc[r] \in {"lookup", "wait"} => Keyed(r)
    /\ pc[r] = "unsent" => target[r] = r
    /\ pc[r] \in Executing /\ Keyed(r) =>
         /\ RowOf(r) # None /\ RowOf(r).body = BodyOf[r]
         /\ target[r] = RowOf(r).by
         /\ ~Retain[r] => target[r] = r /\ (pc[r] # "undo" => RowOf(r).saved = None)
    /\ pc[r] = "persist" => target[r] \in created

Held(r) == RowOf(r) # None /\ RowOf(r).saved = answer[r]

\* What a key's requests were told of is in the key's row, and stays there
\* unless it was a payout's and an error deleted it.
AnswersInv ==
  \A r \in Requests :
    /\ answer[r] # None => pc[r] = "done"
    /\ answer[r] \in Requests =>
         /\ BodyOf[answer[r]] = BodyOf[r]
         /\ ~Keyed(r) => answer[r] = r
         /\ Keyed(r) => Held(r) \/ (~Retain[r] /\ Reopened(r))

\* A payment created under a key is the one the key's row retains, and a payout
\* that is there has a destination: no payment's request has its body.
PaymentsInv ==
  \A s \in created :
    /\ Keyed(s) /\ Retain[s] => RowOf(s) # None /\ RowOf(s).by = s
    /\ ~Retain[s] => BodyOf[s] \in Destined

Inv == TypeOK /\ RowsInv /\ ExecutorsInv /\ AnswersInv /\ PaymentsInv

LEMMA InitInv == ASSUME Init PROVE Inv
<1> USE IdempotencyAssumption
<1>1. TypeOK
  BY DEF Init, TypeOK, Steps
<1>2. RowsInv /\ ExecutorsInv
  BY DEF Init, RowsInv, ExecutorsInv, Executing
<1>3. AnswersInv /\ PaymentsInv
  BY DEF Init, AnswersInv, PaymentsInv
<1> QED BY <1>1, <1>2, <1>3 DEF Inv

\* What a row found by one of its key's requests looks like.
LEMMA RowFacts ==
  ASSUME Inv, NEW r \in Requests, Keyed(r), RowOf(r) # None
  PROVE  /\ KeyOf[r] \in Keys
         /\ RowOf(r) \in Row
         /\ RowOf(r).by \in Requests /\ KeyOf[RowOf(r).by] = KeyOf[r]
         /\ RowOf(r).body = BodyOf[RowOf(r).by]
         /\ RowOf(r).saved \in created \cup {None}
BY IdempotencyAssumption DEF Inv, TypeOK, RowsInv, Keyed, RowOf, Row

\* A request that is not done was told nothing; telling it something takes
\* no failure back.
LEMMA Untold ==
  ASSUME Inv, NEW r \in Requests, pc[r] # "done", NEW what,
         answer' = [answer EXCEPT ![r] = what]
  PROVE  /\ answer[r] = None
         /\ \A s \in Requests : Reopened(s) => Reopened(s)'
<1>1. answer[r] = None
  BY DEF Inv, AnswersInv
<1>2. ASSUME NEW s \in Requests, Reopened(s) PROVE Reopened(s)'
  <2>1. PICK q \in Requests : SameKey(s, q) /\ ~Retain[q] /\ answer[q] = "failed"
    BY <1>2 DEF Reopened
  <2>2. q # r
    BY <1>1, <2>1, IdempotencyAssumption DEF Errors
  <2>3. answer'[q] = "failed"
    BY <2>1, <2>2 DEF Inv, TypeOK
  <2> QED BY <2>1, <2>3 DEF Reopened, SameKey, Keyed
<1> QED BY <1>1, <1>2

-----------------------------------------------------------------------------
(* One lemma per action.                                                    *)

LEMMA StartInv == ASSUME Inv, NEW r \in Requests, Start(r) PROVE Inv'
<1> USE IdempotencyAssumption DEF Goto, Keyed, RowOf
<1>1. CASE row' = row
  <2>1. /\ UNCHANGED <<created, target, answer>>
        /\ pc' = [pc EXCEPT ![r] = IF KeyOf[r] # NoKey THEN "lookup" ELSE "execute"]
    <3>1. CASE KeyOf[r] # NoKey /\ row[KeyOf[r]] = None
      <4>1. KeyOf[r] \in Keys /\ row'[KeyOf[r]] # None
        BY <3>1 DEF Start, Inv, TypeOK, Bodies
      <4> QED BY <1>1, <3>1, <4>1
    <3>2. CASE ~(KeyOf[r] # NoKey /\ row[KeyOf[r]] = None)
      BY <3>2 DEF Start
    <3> QED BY <3>1, <3>2
  <2> QED BY <1>1, <2>1
          DEF Start, Inv, TypeOK, Row, Steps, RowsInv, ExecutorsInv, Executing, AnswersInv,
              Held, Reopened, SameKey, PaymentsInv
<1>2. CASE Keyed(r) /\ RowOf(r) = None
  <2> DEFINE new == [by |-> r, body |-> BodyOf[r],
                     resource |-> IF Retain[r] THEN r ELSE None, saved |-> None]
  <2>1. /\ row' = [row EXCEPT ![KeyOf[r]] = new]
        /\ pc' = [pc EXCEPT ![r] = "execute"]
        /\ UNCHANGED <<created, target, answer>>
        /\ target[r] = r /\ pc[r] = "unsent"
    BY <1>2 DEF Start, Inv, ExecutorsInv
  <2>2. /\ new \in Row /\ new # None /\ KeyOf[r] \in Keys
        /\ new.by = r /\ new.body = BodyOf[r] /\ new.saved = None
        /\ new.resource = IF Retain[r] THEN r ELSE None
    BY <1>2 DEF Row, Bodies
  <2> HIDE DEF new
  <2>3. TypeOK' /\ RowsInv'
    BY <2>1, <2>2 DEF Inv, TypeOK, Row, Steps, RowsInv
  <2>4. ExecutorsInv'
    BY <1>2, <2>1, <2>2 DEF Inv, TypeOK, ExecutorsInv, Executing
  <2>5. AnswersInv' /\ PaymentsInv'
    BY <1>2, <2>1, <2>2
    DEF Inv, TypeOK, AnswersInv, Held, Reopened, SameKey, PaymentsInv
  <2> QED BY <2>3, <2>4, <2>5 DEF Inv
<1> QED BY <1>1, <1>2 DEF Start

LEMMA CreateInv == ASSUME Inv, NEW r \in Requests, Create(r) PROVE Inv'
<1> USE IdempotencyAssumption
<1>1. /\ pc[r] = "execute" /\ target[r] \in Requests
      /\ created' = created \cup {target[r]}
      /\ UNCHANGED <<row, pc, target, answer>>
  BY DEF Create, Inv, TypeOK
<1>2. Keyed(r) /\ Retain[r] => /\ RowOf(r) # None /\ RowOf(r).by = target[r]
                              /\ KeyOf[target[r]] = KeyOf[r]
  BY <1>1 DEF Inv, ExecutorsInv, Executing
<1>3. Retain[target[r]] = Retain[r]
  BY DEF Inv, ExecutorsInv
<1>4. /\ ~Keyed(r) => target[r] = r
      /\ ~Retain[r] => target[r] = r /\ BodyOf[r] \in Destined
  BY <1>1 DEF Create, Inv, ExecutorsInv, Executing
<1>5. TypeOK'
  BY <1>1 DEF Inv, TypeOK, Row
<1>6. RowsInv' /\ ExecutorsInv' /\ AnswersInv'
  BY <1>1
  DEF Inv, RowsInv, ExecutorsInv, Executing, AnswersInv, Held, Reopened, SameKey, RowOf, Keyed
<1>7. PaymentsInv'
  BY <1>1, <1>2, <1>3, <1>4 DEF Inv, PaymentsInv, RowOf, Keyed
<1> QED BY <1>5, <1>6, <1>7 DEF Inv

LEMMA LeaveInv ==
  ASSUME Inv, NEW r \in Requests, Return(r) \/ Throw(r)
  PROVE  Inv'
<1> USE IdempotencyAssumption
<1>1. PICK step \in {"persist", "undo"} :
        /\ pc[r] = "execute" /\ UNCHANGED <<row, created, target, answer>>
        /\ pc' = [pc EXCEPT ![r] = step]
        /\ step = "persist" => target[r] \in created
  BY DEF Return, Throw, Goto
<1>2. TypeOK'
  BY <1>1 DEF Inv, TypeOK, Row, Steps
<1>3. RowsInv' /\ PaymentsInv'
  BY <1>1 DEF Inv, RowsInv, PaymentsInv, RowOf
<1>4. ExecutorsInv'
  BY <1>1 DEF Inv, TypeOK, ExecutorsInv, Executing, RowOf
<1>5. AnswersInv'
  BY <1>1 DEF Inv, TypeOK, AnswersInv, Held, Reopened, SameKey, RowOf, Keyed
<1> QED BY <1>2, <1>3, <1>4, <1>5 DEF Inv

LEMMA PersistInv == ASSUME Inv, NEW r \in Requests, Persist(r) PROVE Inv'
<1> USE IdempotencyAssumption
<1>1. /\ pc[r] = "persist" /\ UNCHANGED <<created, target>>
      /\ target[r] \in created /\ target[r] \in Requests
      /\ answer[r] = None
  BY DEF Persist, Inv, TypeOK, ExecutorsInv, AnswersInv
<1>2. PICK step \in {"undo", "done"}, what \in {None, target[r]} :
        /\ pc' = [pc EXCEPT ![r] = step]
        /\ answer' = [answer EXCEPT ![r] = what]
        /\ what # None => step = "done"
        /\ what # None /\ Keyed(r) => row' = [row EXCEPT ![KeyOf[r]].saved = target[r]]
  <2>1. answer = [answer EXCEPT ![r] = None]
    BY <1>1 DEF Inv, TypeOK
  <2> QED BY <2>1 DEF Persist, Goto, Answer
<1>3. \A s \in Requests : Reopened(s) => Reopened(s)'
  BY <1>1, <1>2, Untold
<1>4. BodyOf[target[r]] = BodyOf[r] /\ (~Keyed(r) => target[r] = r)
  BY <1>1, RowFacts DEF Inv, ExecutorsInv, Executing
<1>5. CASE UNCHANGED row /\ (what # None => ~Keyed(r))
  <2>1. TypeOK' /\ RowsInv'
    BY <1>1, <1>2, <1>5 DEF Inv, TypeOK, Row, Steps, RowsInv
  <2>2. ExecutorsInv' /\ PaymentsInv'
    BY <1>1, <1>2, <1>5
    DEF Inv, TypeOK, ExecutorsInv, Executing, PaymentsInv, RowOf, Keyed
  <2>3. AnswersInv'
    BY <1>1, <1>2, <1>3, <1>4, <1>5 DEF Inv, TypeOK, AnswersInv, Held, RowOf, Keyed
  <2> QED BY <2>1, <2>2, <2>3 DEF Inv
<1>6. CASE Keyed(r) /\ row' = [row EXCEPT ![KeyOf[r]].saved = target[r]]
  <2> DEFINE k == KeyOf[r]
             new == [row[k] EXCEPT !.saved = target[r]]
  <2>1. /\ k \in Keys /\ row[k] # None /\ row[k] \in Row
        /\ row[k].body = BodyOf[r] /\ target[r] = row[k].by
        /\ ~Retain[r] => target[r] = r
        /\ row[k].saved \in {None, row[k].by}
    BY <1>1, <1>6, RowFacts DEF Inv, ExecutorsInv, Executing, RowOf, RowsInv
  <2>2. /\ new \in Row /\ new # None
        /\ new.by = row[k].by /\ new.body = row[k].body /\ new.resource = row[k].resource
        /\ new.saved = target[r]
    BY <1>1, <2>1 DEF Row, Inv, TypeOK
  <2>3. row' = [row EXCEPT ![k] = new]
    BY <1>6
  <2>4. \A s \in Requests : s # r /\ KeyOf[s] = k /\ pc[s] \in Executing => Retain[s]
    BY <1>1, <1>6, <2>1, RowFacts DEF Inv, ExecutorsInv, Executing, RowOf, Keyed
  <2> HIDE DEF new
  <2>5. TypeOK' /\ RowsInv'
    BY <1>1, <1>2, <2>1, <2>2, <2>3 DEF Inv, TypeOK, Row, Steps, RowsInv
  <2>6. ExecutorsInv'
    BY <1>1, <1>2, <2>1, <2>2, <2>3, <2>4
    DEF Inv, TypeOK, ExecutorsInv, Executing, RowOf, Keyed
  <2>7. ASSUME NEW s \in Requests, Keyed(s), answer[s] \in Requests, Held(s) PROVE Held(s)'
    <3>1. s # r /\ answer'[s] = answer[s]
      BY <1>1, <1>2, <2>7 DEF Inv, TypeOK
    <3>2. KeyOf[s] \in Keys
      BY <2>7 DEF Keyed
    <3>3. KeyOf[s] = k => answer[s] = target[r]
      BY <2>1, <2>7 DEF Held, RowOf
    <3> QED BY <2>1, <2>2, <2>3, <2>7, <3>1, <3>2, <3>3 DEF Held, RowOf, Inv, TypeOK
  <2>8. Keyed(r) /\ answer'[r] \in Requests => Held(r)'
    BY <1>2, <2>1, <2>2, <2>3 DEF Held, RowOf, Inv, TypeOK
  <2>9. AnswersInv'
    BY <1>1, <1>2, <1>3, <1>4, <2>7, <2>8 DEF Inv, TypeOK, AnswersInv, Keyed
  <2>10. PaymentsInv'
    BY <1>1, <2>1, <2>2, <2>3 DEF Inv, TypeOK, PaymentsInv, RowOf, Keyed
  <2> QED BY <2>5, <2>6, <2>9, <2>10 DEF Inv
<1> QED BY <1>2, <1>5, <1>6 DEF Persist, Answer, Goto

\* A request that leaves the tables alone and is told nothing new, or what
\* the row of its key has for its body.
LEMMA ReadInv ==
  ASSUME Inv, NEW r \in Requests, UNCHANGED <<row, created, target>>, pc[r] # "done",
         \/ UNCHANGED answer /\ pc' = [pc EXCEPT ![r] = "done"]
         \/ UNCHANGED answer /\ pc' = [pc EXCEPT ![r] = "wait"] /\ pc[r] = "lookup"
         \/ \E what \in Errors : Answer(r, what)
         \/ Replay(r) /\ pc[r] \in {"lookup", "wait"}
  PROVE  Inv'
<1> USE IdempotencyAssumption
<1> DEFINE Told(what) ==
      /\ what \in created \cup Errors \cup {None}
      /\ what \in Requests =>
           /\ BodyOf[what] = BodyOf[r] /\ Keyed(r)
           /\ RowOf(r) # None /\ RowOf(r).saved = what
<1>1. answer[r] = None /\ (UNCHANGED answer => answer' = [answer EXCEPT ![r] = None])
  BY DEF Inv, TypeOK, AnswersInv
<1>2. Told(None) /\ \A what \in Errors : Told(what)
  OBVIOUS
<1>3. ASSUME Replay(r), pc[r] \in {"lookup", "wait"} PROVE Told(RowOf(r).saved)
  <2>1. /\ Keyed(r) /\ RowOf(r) # None /\ RowOf(r).body = BodyOf[r]
        /\ RowOf(r).saved # None
    BY <1>3 DEF Replay, OtherBody, Inv, ExecutorsInv
  <2>2. RowOf(r).saved \in created /\ RowOf(r).saved = RowOf(r).by
    BY <2>1, RowFacts DEF Inv, RowsInv, RowOf
  <2> QED BY <2>1, <2>2, RowFacts
<1>4. PICK step \in {"done", "wait"} :
        /\ pc' = [pc EXCEPT ![r] = step]
        /\ step = "wait" => Keyed(r) /\ UNCHANGED answer
  BY DEF Answer, Goto, Replay, Inv, ExecutorsInv
<1>5. PICK what : answer' = [answer EXCEPT ![r] = what] /\ Told(what)
  <2> HIDE DEF Told
  <2> QED BY <1>1, <1>2, <1>3 DEF Answer, Replay
<1>6. TypeOK' /\ RowsInv'
  BY <1>4, <1>5 DEF Inv, TypeOK, Row, Steps, RowsInv
<1>7. ExecutorsInv' /\ PaymentsInv'
  BY <1>4 DEF Inv, TypeOK, ExecutorsInv, Executing, PaymentsInv, RowOf, Keyed
<1>8. \A s \in Requests : Reopened(s) => Reopened(s)'
  BY <1>5, Untold
<1>9. AnswersInv'
  BY <1>1, <1>4, <1>5, <1>8 DEF Inv, TypeOK, AnswersInv, Held, RowOf, Keyed
<1> QED BY <1>6, <1>7, <1>9 DEF Inv

LEMMA UndoInv == ASSUME Inv, NEW r \in Requests, Undo(r) PROVE Inv'
<1> USE IdempotencyAssumption
<1>1. /\ pc[r] = "undo" /\ UNCHANGED <<created, target>>
      /\ pc' = [pc EXCEPT ![r] = "done"]
      /\ answer' = [answer EXCEPT ![r] = "failed"]
  BY DEF Undo, Answer, Goto
<1>2. ASSUME UNCHANGED row PROVE Inv'
  <2>1. Answer(r, "failed") /\ "failed" \in Errors
    BY DEF Undo, Errors
  <2> QED BY <1>1, <1>2, <2>1, ReadInv
<1>3. CASE Keyed(r) /\ ~Retain[r] /\ row' = [row EXCEPT ![KeyOf[r]] = None]
  <2>1. /\ KeyOf[r] \in Keys /\ RowOf(r) # None /\ RowOf(r).by = r
        /\ RowOf(r).body = BodyOf[r] /\ RowOf(r).saved \in {None, r}
    BY <1>1, <1>3, RowFacts DEF Inv, ExecutorsInv, Executing, RowsInv, RowOf
  <2>2. \A s \in Requests : s # r /\ KeyOf[s] = KeyOf[r] => pc[s] \notin Executing
    BY <1>3, <2>1, RowFacts DEF Inv, ExecutorsInv, Keyed, RowOf
  <2>3. TypeOK' /\ RowsInv'
    BY <1>1, <1>3 DEF Inv, TypeOK, Row, Steps, Errors, RowsInv
  <2>4. ExecutorsInv'
    BY <1>1, <1>3, <2>1, <2>2 DEF Inv, TypeOK, ExecutorsInv, Executing, RowOf, Keyed
  <2>5. "failed" \notin Requests /\ \A s \in Requests : Reopened(s) => Reopened(s)'
    BY <1>1, Untold DEF Errors
  <2>6. \A s \in Requests : SameKey(s, r) => Reopened(s)'
    BY <1>1, <1>3 DEF Reopened, SameKey, Inv, TypeOK
  <2>7. \A s \in Requests : answer[s] \in Requests /\ Held(s) /\ KeyOf[s] = KeyOf[r] =>
          ~Retain[s]
    <3>1. ASSUME NEW s \in Requests, answer[s] \in Requests, Held(s), KeyOf[s] = KeyOf[r]
          PROVE  r \in created /\ BodyOf[r] = BodyOf[s]
      <4>1. answer[s] \in created /\ BodyOf[answer[s]] = BodyOf[s]
        BY <3>1 DEF Inv, TypeOK, AnswersInv
      <4>2. answer[s] = r
        BY <2>1, <3>1 DEF Held, RowOf
      <4> QED BY <4>1, <4>2
    <3>2. r \in created => BodyOf[r] \in Destined
      BY <1>3 DEF Inv, PaymentsInv
    <3> QED BY <3>1, <3>2
  <2>8. \A s \in Requests : Held(s) /\ s # r /\ Keyed(s) /\ KeyOf[s] # KeyOf[r] => Held(s)'
    BY <1>1, <1>3 DEF Held, RowOf, Keyed, Inv, TypeOK
  <2>9. \A s \in Requests : answer'[s] = IF s = r THEN "failed" ELSE answer[s]
    BY <1>1 DEF Inv, TypeOK
  <2>10. \A s \in Requests : pc'[s] = IF s = r THEN "done" ELSE pc[s]
    BY <1>1 DEF Inv, TypeOK
  <2>11. AnswersInv'
    BY <2>5, <2>6, <2>7, <2>8, <2>9, <2>10 DEF Inv, AnswersInv, SameKey, Keyed
  <2>12. \A s \in created : KeyOf[s] = KeyOf[r] => ~Retain[s]
    BY <1>3, <2>1 DEF Inv, PaymentsInv, RowOf, Keyed
  <2>13. PaymentsInv'
    BY <1>1, <1>3, <2>12 DEF Inv, TypeOK, PaymentsInv, RowOf, Keyed
  <2> QED BY <2>3, <2>4, <2>11, <2>13 DEF Inv
<1> QED BY <1>2, <1>3 DEF Undo

LEMMA LookupInv == ASSUME Inv, NEW r \in Requests, Lookup(r) PROVE Inv'
<1> USE IdempotencyAssumption
<1>1. pc[r] = "lookup" /\ UNCHANGED <<row, created>> /\ Keyed(r)
  BY DEF Lookup, Inv, ExecutorsInv
<1>2. CASE (Replay(r) \/ Conflict(r)) /\ UNCHANGED target
  BY <1>1, <1>2, ReadInv DEF Conflict, Errors
<1>3. CASE Goto(r, "wait") /\ UNCHANGED <<target, answer>>
  BY <1>1, <1>3, ReadInv DEF Goto
<1>4. CASE /\ Resumable(r) /\ Goto(r, "execute") /\ UNCHANGED answer
           /\ target' = [target EXCEPT ![r] = RowOf(r).resource]
  <2>1. /\ RowOf(r) # None /\ RowOf(r).body = BodyOf[r] /\ Retain[r]
        /\ RowOf(r).resource # None
    BY <1>4 DEF Resumable, InFlight, OtherBody
  <2>2. RowOf(r).resource = RowOf(r).by /\ Retain[RowOf(r).by]
    BY <1>1, <2>1, RowFacts DEF Inv, RowsInv, RowOf
  <2>3. /\ RowOf(r).by \in Requests /\ KeyOf[RowOf(r).by] = KeyOf[r]
    BY <1>1, <2>1, RowFacts
  <2>4. TypeOK'
    BY <1>1, <1>4, <2>2, <2>3 DEF Inv, TypeOK, Row, Steps, Goto
  <2>5. RowsInv' /\ AnswersInv' /\ PaymentsInv'
    BY <1>1, <1>4
    DEF Inv, TypeOK, RowsInv, AnswersInv, Held, Reopened, SameKey, PaymentsInv, RowOf, Goto
  <2>6. ExecutorsInv'
    BY <1>1, <1>4, <2>1, <2>2, <2>3
    DEF Inv, TypeOK, ExecutorsInv, Executing, RowOf, Goto, Keyed
  <2> QED BY <2>4, <2>5, <2>6 DEF Inv
<1> QED BY <1>2, <1>3, <1>4 DEF Lookup

LEMMA StepInv == ASSUME Inv, [Next]_vars PROVE Inv'
<1>1. ASSUME NEW r \in Requests, Poll(r) PROVE Inv'
  BY <1>1, ReadInv DEF Poll, Conflict, Errors
<1>2. ASSUME NEW r \in Requests, Timeout(r) PROVE Inv'
  BY <1>2, ReadInv DEF Timeout, Errors
<1>3. ASSUME NEW r \in Requests, Crash(r) PROVE Inv'
  BY <1>3, ReadInv DEF Crash, Goto
<1>4. CASE UNCHANGED vars
  BY <1>4
  DEF vars, Inv, TypeOK, Row, RowsInv, ExecutorsInv, AnswersInv, Held, Reopened,
      PaymentsInv, RowOf
<1> QED BY <1>1, <1>2, <1>3, <1>4, StartInv, CreateInv, LeaveInv, PersistInv, UndoInv, LookupInv
        DEF Next

LEMMA Invariant == Spec => []Inv
<1>1. Init => Inv
  BY InitInv
<1>2. Inv /\ [Next]_vars => Inv'
  BY StepInv
<1> QED BY <1>1, <1>2, PTL DEF Spec

-----------------------------------------------------------------------------
\* A response that is saved or answered is of a resource that exists.
THEOREM IdempotencyTypes == Spec => []TypeOK
<1>1. Inv => TypeOK
  BY DEF Inv
<1> QED BY <1>1, Invariant, PTL

\* The successes told under a key name one resource, for any number of
\* requests and failures, unless a payout's failure deleted the key
\* (idempotency.service 60-113).
THEOREM KeyNamesOneResource == Spec => []ReplaysAgree
<1>1. Inv => ReplaysAgree
  <2>1. \A r, s \in Requests : SameKey(r, s) /\ Reopened(s) => Reopened(r)
    BY DEF Reopened, SameKey, Keyed
  <2> QED BY <2>1 DEF Inv, AnswersInv, Held, ReplaysAgree, SameKey, Keyed, RowOf
<1> QED BY <1>1, Invariant, PTL

\* A success is only told to requests of the body that was executed
\* (idempotency.service 92-101, 146-154).
THEOREM KeyKeepsBody == Spec => []AnswersMatchBody
<1>1. Inv => AnswersMatchBody
  BY DEF Inv, AnswersInv, AnswersMatchBody
<1> QED BY <1>1, Invariant, PTL

\* A key of POST /payments creates one payment (idempotency.service 107-109).
THEOREM KeyCreatesOnePayment == Spec => []OnePaymentPerKey
<1>1. Inv => OnePaymentPerKey
  BY DEF Inv, PaymentsInv, OnePaymentPerKey, SameKey, Keyed, RowOf
<1> QED BY <1>1, Invariant, PTL

\* Once a client was told of a key's resource, the key creates no other,
\* unless it is a payout's that an error deleted (idempotency.service 75-109).
THEOREM KeyIsSettledByAnswer == Spec => NothingAfterAnAnswer
<1> DEFINE Quiet == \A r \in Requests :
                      Keyed(r) /\ answer[r] \in Requests /\ (Retain[r] \/ ~Reopened(r)) =>
                        {s \in created' : SameKey(r, s)} = {s \in created : SameKey(r, s)}
<1>1. Inv /\ [Next]_vars => [Quiet]_vars
  <2> SUFFICES ASSUME Inv, [Next]_vars, NEW r \in Requests, Keyed(r),
                      answer[r] \in Requests, Retain[r] \/ ~Reopened(r)
               PROVE  {s \in created' : SameKey(r, s)} = {s \in created : SameKey(r, s)}
    OBVIOUS
  <2>1. ASSUME NEW s \in Requests, Create(s)
        PROVE  {t \in created' : SameKey(r, t)} = {t \in created : SameKey(r, t)}
    <3>1. created' = created \cup {target[s]} /\ pc[s] = "execute"
      BY <2>1 DEF Create
    <3>2. CASE KeyOf[s] # KeyOf[r]
      BY <3>1, <3>2 DEF Inv, ExecutorsInv, SameKey
    <3>3. CASE KeyOf[s] = KeyOf[r]
      <4>1. /\ RowOf(s) # None /\ target[s] = RowOf(s).by
            /\ ~Retain[s] => RowOf(s).saved = None
        BY <3>1, <3>3 DEF Inv, ExecutorsInv, Executing, Keyed
      <4>2. RowOf(s).saved = answer[r] /\ RowOf(s).saved # None
        BY <3>3, IdempotencyAssumption DEF Inv, AnswersInv, Held, RowOf, Keyed
      <4>3. RowOf(s).saved = RowOf(s).by /\ RowOf(s).saved \in created
        BY <3>3, <4>1, <4>2, RowFacts DEF Inv, RowsInv, Keyed, RowOf
      <4> QED BY <3>1, <4>1, <4>3
    <3> QED BY <3>2, <3>3
  <2>2. CASE UNCHANGED created
    BY <2>2
  <2> QED BY <2>1, <2>2
          DEF Next, Start, Return, Throw, Persist, Undo, Lookup, Poll, Timeout, Crash, vars
<1> QED BY <1>1, Invariant, PTL DEF Spec, NothingAfterAnAnswer

-----------------------------------------------------------------------------
(* A payment's request finds the row it lost against, and resumes, unless   *)
(* that row is a payout's of its body, or was one that an error deleted.    *)

\* What it waits for, or has waited for, is a payout's.
ResumeInv ==
  \A r \in Requests : Retain[r] =>
    /\ pc[r] = "wait" \/ answer[r] = "in progress" => Reopened(r) \/ SentAsPayout(r)
    /\ pc[r] = "lookup" => RowOf(r) # None \/ Reopened(r)

\* Whoever inserted a row was sent.
SentInv == \A k \in Keys : row[k] # None => pc[row[k].by] # "unsent"

\* A failure that was told is not taken back.
LEMMA ReopenedStays ==
  ASSUME Inv, [Next]_vars, NEW s \in Requests, Reopened(s) PROVE Reopened(s)'
<1>1. CASE UNCHANGED answer
  BY <1>1 DEF Reopened, SameKey, Keyed
<1>2. ASSUME NEW r \in Requests, pc[r] # "done", NEW what, Answer(r, what)
      PROVE  Reopened(s)'
  BY <1>2, Untold DEF Answer
<1>3. CASE UNCHANGED vars
  BY <1>1, <1>3 DEF vars
<1> QED BY <1>1, <1>2, <1>3
        DEF Next, Start, Create, Return, Throw, Persist, Undo, Lookup, Poll, Timeout, Crash,
            Replay, Conflict

\* A key's row stays that of the request that inserted it, until a payout's
\* request undoes it.
LEMMA RowStays ==
  ASSUME Inv, [Next]_vars, NEW s \in Requests, Keyed(s), RowOf(s) # None
  PROVE  (RowOf(s)' # None /\ RowOf(s)'.by = RowOf(s).by) \/ Reopened(s)'
<1> USE IdempotencyAssumption
<1>1. KeyOf[s] \in Keys
  BY DEF Keyed
<1>2. ASSUME NEW r \in Requests, Undo(r) PROVE RowOf(s)' = RowOf(s) \/ Reopened(s)'
  <2>1. CASE KeyOf[r] # KeyOf[s] \/ UNCHANGED row
    BY <1>1, <1>2, <2>1 DEF Undo, RowOf, Keyed, Inv, TypeOK
  <2>2. CASE KeyOf[r] = KeyOf[s] /\ ~Retain[r]
    <3>1. answer'[r] = "failed"
      BY <1>2 DEF Undo, Answer, Inv, TypeOK
    <3> QED BY <2>2, <3>1 DEF Reopened, SameKey
  <2> QED BY <1>2, <2>1, <2>2 DEF Undo
<1>3. ASSUME NEW r \in Requests, Start(r) PROVE RowOf(s)' = RowOf(s)
  BY <1>1, <1>3 DEF Start, RowOf, Keyed, Inv, TypeOK
<1>4. ASSUME NEW r \in Requests, Persist(r)
      PROVE  RowOf(s)' # None /\ RowOf(s)'.by = RowOf(s).by
  <2>1. CASE UNCHANGED row
    BY <2>1 DEF RowOf
  <2>2. CASE KeyOf[r] # KeyOf[s] /\ row' = [row EXCEPT ![KeyOf[r]].saved = target[r]]
    BY <1>1, <2>2 DEF RowOf, Inv, TypeOK
  <2>3. CASE KeyOf[r] = KeyOf[s] /\ row' = [row EXCEPT ![KeyOf[r]].saved = target[r]]
    <3>1. RowOf(s) \in Row /\ RowOf(s)' = [RowOf(s) EXCEPT !.saved = target[r]]
      BY <1>1, <2>3, RowFacts DEF RowOf, Inv, TypeOK
    <3>2. target[r] \in Requests
      BY DEF Inv, TypeOK
    <3>3. /\ RowOf(s)'.by = RowOf(s).by
          /\ RowOf(s)' \in [by : Requests, body : Bodies, resource : Requests \cup {None},
                            saved : Requests \cup {None}]
      BY <3>1, <3>2 DEF Row, Inv, TypeOK
    <3> QED BY <3>3
  <2> QED BY <1>4, <2>1, <2>2, <2>3 DEF Persist
<1>5. CASE UNCHANGED row
  BY <1>5 DEF RowOf
<1> QED BY <1>2, <1>3, <1>4, <1>5
        DEF Next, Create, Return, Throw, Lookup, Poll, Timeout, Crash, vars

\* A request that was sent stays sent, and so does who inserted a row.
LEMMA SentStays ==
  ASSUME Inv, [Next]_vars
  PROVE  /\ \A r \in Requests : pc[r] # "unsent" => pc'[r] # "unsent"
         /\ \A s \in Requests : SentAsPayout(s) => SentAsPayout(s)'
<1>1. ASSUME NEW r \in Requests, pc[r] # "unsent" PROVE pc'[r] # "unsent"
  <2>1. ASSUME NEW q \in Requests, NEW step \in Steps \ {"unsent"}, Goto(q, step)
        PROVE  pc'[r] # "unsent"
    BY <1>1, <2>1 DEF Goto, Inv, TypeOK
  <2>2. ASSUME NEW q \in Requests, NEW what, Answer(q, what) PROVE pc'[r] # "unsent"
    BY <2>1, <2>2 DEF Answer, Steps
  <2>3. UNCHANGED pc => pc'[r] # "unsent"
    BY <1>1
  <2> QED BY <2>1, <2>2, <2>3
          DEF Next, Start, Create, Return, Throw, Persist, Undo, Lookup, Poll, Timeout, Crash,
              Replay, Conflict, Steps, vars
<1> QED BY <1>1 DEF SentAsPayout, SameKey, Keyed

LEMMA SentStep == ASSUME Inv, SentInv, [Next]_vars PROVE SentInv'
<1> SUFFICES ASSUME NEW k \in Keys, row'[k] # None PROVE pc'[row'[k].by] # "unsent"
  BY DEF SentInv
<1>1. CASE row[k] # None /\ row'[k].by = row[k].by
  <2>1. row[k].by \in Requests
    BY <1>1 DEF Inv, TypeOK, Row
  <2> QED BY <1>1, <2>1, SentStays DEF SentInv
<1>2. ASSUME NEW r \in Requests, Start(r) PROVE pc'[row'[k].by] # "unsent"
  <2>1. CASE row'[k] = row[k]
    BY <1>1, <2>1
  <2>2. CASE row'[k] # row[k]
    <3>1. row'[k].by = r /\ pc'[r] = "execute"
      BY <1>2, <2>2 DEF Start, Goto, Inv, TypeOK
    <3> QED BY <3>1
  <2> QED BY <2>1, <2>2
<1>3. ASSUME NEW r \in Requests, Undo(r) PROVE row'[k] = row[k]
  BY <1>3 DEF Undo, Inv, TypeOK
<1>4. ASSUME NEW r \in Requests, Persist(r) PROVE row[k] # None /\ row'[k].by = row[k].by
  <2>1. CASE UNCHANGED row
    BY <2>1
  <2>2. CASE Keyed(r) /\ row' = [row EXCEPT ![KeyOf[r]].saved = target[r]]
    <3>1. RowOf(r) # None /\ RowOf(r) \in Row /\ KeyOf[r] \in Keys
      BY <1>4, <2>2, RowFacts DEF Persist, Inv, ExecutorsInv, Executing
    <3>2. KeyOf[r] = k => row'[k] = [row[k] EXCEPT !.saved = target[r]]
      BY <2>2, <3>1 DEF Inv, TypeOK
    <3>3. KeyOf[r] # k => row'[k] = row[k]
      BY <2>2 DEF Inv, TypeOK
    <3> QED BY <3>1, <3>2, <3>3 DEF Row, RowOf
  <2> QED BY <1>4, <2>1, <2>2 DEF Persist
<1> QED BY <1>1, <1>2, <1>3, <1>4
        DEF Next, Create, Return, Throw, Lookup, Poll, Timeout, Crash, vars

LEMMA ResumeStep == ASSUME Inv, SentInv, ResumeInv, [Next]_vars PROVE ResumeInv'
<1> USE IdempotencyAssumption
<1> SUFFICES ASSUME NEW s \in Requests, Retain[s], ~Reopened(s)'
             PROVE  /\ pc'[s] = "wait" \/ answer'[s] = "in progress" => SentAsPayout(s)'
                    /\ pc'[s] = "lookup" => RowOf(s)' # None
  BY DEF ResumeInv
<1>1. ~Reopened(s) /\ (SentAsPayout(s) => SentAsPayout(s)')
  BY ReopenedStays, SentStays
<1>2. /\ pc[s] = "wait" \/ answer[s] = "in progress" => SentAsPayout(s)
      /\ pc[s] = "lookup" => Keyed(s) /\ RowOf(s) # None
  BY <1>1 DEF ResumeInv, Inv, ExecutorsInv
<1>3. CASE pc'[s] = pc[s] /\ answer'[s] = answer[s]
  BY <1>1, <1>2, <1>3, RowStays
<1>4. CASE Start(s)
  <2>1. answer' = answer /\ pc'[s] \in {"execute", "lookup"}
    BY <1>4 DEF Start, Goto, Inv, TypeOK
  <2>2. pc'[s] = "lookup" => RowOf(s)' # None
    BY <1>4 DEF Start, Goto, Inv, TypeOK, RowOf
  <2> QED BY <1>1, <1>2, <2>1, <2>2
<1> DEFINE Fine == /\ pc'[s] # "lookup"
                   /\ pc'[s] = "wait" \/ answer'[s] = "in progress" => SentAsPayout(s)'
<1>5. ASSUME NEW step \in {"execute", "persist", "undo", "done"}, Goto(s, step),
             UNCHANGED answer
      PROVE  Fine
  BY <1>1, <1>2, <1>5 DEF Goto, Inv, TypeOK
<1>6. ASSUME NEW what, what # "in progress" \/ SentAsPayout(s), Answer(s, what)
      PROVE  Fine
  <2>1. pc'[s] = "done" /\ answer'[s] = what
    BY <1>6 DEF Answer, Goto, Inv, TypeOK
  <2> QED BY <1>1, <1>6, <2>1
<1>7. \A q \in Requests : q # "in progress"
  BY DEF Errors
<1> HIDE DEF Fine
<1>8. ASSUME Keyed(s), Replay(s) \/ Conflict(s) PROVE Fine
  <2>1. Replay(s) => RowOf(s).saved # "in progress"
    BY <1>7, <1>8, RowFacts DEF Replay, Inv, TypeOK
  <2> QED BY <1>6, <1>8, <2>1 DEF Replay, Conflict
<1>9. CASE \/ Return(s) \/ Throw(s) \/ Persist(s) \/ Undo(s)
           \/ Poll(s) \/ Timeout(s) \/ Crash(s)
  <2>1. target[s] # "in progress"
    BY <1>7 DEF Inv, TypeOK
  <2>2. Return(s) \/ Throw(s) \/ Crash(s) => Fine
    BY <1>5 DEF Return, Throw, Crash
  <2>3. Persist(s) \/ Undo(s) => Fine
    BY <1>5, <1>6, <2>1 DEF Persist, Undo
  <2>4. Poll(s) => Fine
    BY <1>8 DEF Poll, Inv, ExecutorsInv
  <2>5. Timeout(s) => Fine
    BY <1>2, <1>6 DEF Timeout
  <2> QED BY <1>9, <2>2, <2>3, <2>4, <2>5 DEF Fine
<1>10. CASE Lookup(s)
  <2>1. Keyed(s) /\ RowOf(s) # None /\ pc[s] = "lookup"
    BY <1>2, <1>10 DEF Lookup
  <2>2. ASSUME InFlight(s), ~Resumable(s) PROVE SentAsPayout(s)
    <3>1. /\ RowOf(s).by \in Requests /\ KeyOf[RowOf(s).by] = KeyOf[s]
          /\ BodyOf[RowOf(s).by] = BodyOf[s]
      BY <2>1, <2>2, RowFacts DEF InFlight, OtherBody
    <3>2. ~Retain[RowOf(s).by]
      BY <2>1, <2>2, RowFacts DEF Inv, RowsInv, RowOf, Resumable
    <3>3. pc[RowOf(s).by] # "unsent"
      BY <2>1, RowFacts DEF SentInv, RowOf
    <3> QED BY <2>1, <3>1, <3>2, <3>3 DEF SentAsPayout, SameKey
  <2>3. SentAsPayout(s) /\ Goto(s, "wait") => Fine
    BY <1>1 DEF Fine, Goto, Inv, TypeOK
  <2>4. Goto(s, "execute") /\ UNCHANGED answer => Fine
    BY <1>5
  <2> QED BY <1>8, <1>10, <2>1, <2>2, <2>3, <2>4 DEF Lookup, Fine
<1>11. ASSUME NEW r \in Requests, r # s,
              \/ Start(r) \/ Return(r) \/ Throw(r) \/ Persist(r) \/ Undo(r)
              \/ Lookup(r) \/ Poll(r) \/ Timeout(r) \/ Crash(r)
       PROVE  pc'[s] = pc[s] /\ answer'[s] = answer[s]
  <2>1. \A step : Goto(r, step) => pc'[s] = pc[s]
    BY <1>11 DEF Goto, Inv, TypeOK
  <2>2. \A what : Answer(r, what) => pc'[s] = pc[s] /\ answer'[s] = answer[s]
    BY <1>11, <2>1 DEF Answer, Inv, TypeOK
  <2>3. Replay(r) \/ Conflict(r) => pc'[s] = pc[s] /\ answer'[s] = answer[s]
    BY <2>2 DEF Replay, Conflict
  <2> QED BY <1>11, <2>1, <2>2, <2>3
          DEF Start, Return, Throw, Persist, Undo, Lookup, Poll, Timeout, Crash
<1>12. CASE UNCHANGED vars
  BY <1>3, <1>12 DEF vars
<1>13. ASSUME NEW r \in Requests, Create(r) PROVE pc'[s] = pc[s] /\ answer'[s] = answer[s]
  BY <1>13 DEF Create
<1> QED BY <1>3, <1>4, <1>9, <1>10, <1>11, <1>12, <1>13 DEF Next, Fine

LEMMA ResumeInvariant == Spec => [](SentInv /\ ResumeInv)
<1>1. Init => SentInv /\ ResumeInv
  <2>1. None # "in progress"
    BY IdempotencyAssumption DEF Errors
  <2> QED BY <2>1 DEF Init, SentInv, ResumeInv
<1>2. Inv /\ (SentInv /\ ResumeInv) /\ [Next]_vars => (SentInv /\ ResumeInv)'
  BY SentStep, ResumeStep
<1> QED BY <1>1, <1>2, Invariant, PTL DEF Spec

\* Whatever keys are shared, a payment's request is told to come back later
\* only if a payout's request of its key was sent with its body, or failed and
\* may have deleted the key (idempotency.service 75-79, 92-112).
THEOREM PaymentsWaitForPayoutsOnly == Spec => []PaymentsWaitForPayoutsAlone
<1>1. ResumeInv => PaymentsWaitForPayoutsAlone
  BY DEF ResumeInv, PaymentsWaitForPayoutsAlone
<1> QED BY <1>1, ResumeInvariant, PTL

\* No key is used at both endpoints.
OneEndpoint ==
  \A r, s \in Requests : Keyed(r) /\ KeyOf[r] = KeyOf[s] => Retain[r] = Retain[s]

PaymentsNeverWait ==
  \A r \in Requests : Retain[r] => answer[r] # "in progress"

\* No payment's request waits for another's response, under keys of its own
\* endpoint (idempotency.service 107-109).
THEOREM PaymentsAlwaysResume == ASSUME OneEndpoint PROVE Spec => []PaymentsNeverWait
<1>1. ResumeInv => PaymentsNeverWait
  BY DEF ResumeInv, PaymentsNeverWait, OneEndpoint, Reopened, SentAsPayout, SameKey
<1> QED BY <1>1, ResumeInvariant, PTL

-----------------------------------------------------------------------------
(* What remains of OneResourcePerKey, which MCCheckoutPayout refutes.       *)

\* A key creates a second resource only after a payout's request of it was
\* told that it failed.
CreatesAgainAfterFailure ==
  \A r, s \in created : SameKey(r, s) => r = s \/ Reopened(r)

\* What a key has created is the row's, or an error may have deleted its row.
CreatedInv ==
  \A s \in created : Keyed(s) =>
    (RowOf(s) # None /\ RowOf(s).by = s) \/ Reopened(s)

LEMMA CreatedStep == ASSUME Inv, CreatedInv, [Next]_vars PROVE CreatedInv'
<1> SUFFICES ASSUME NEW s \in created', Keyed(s), ~Reopened(s)'
             PROVE  RowOf(s)' # None /\ RowOf(s)'.by = s
  BY DEF CreatedInv, Keyed
<1>1. CASE s \in created
  <2>1. s \in Requests /\ ~Reopened(s)
    BY <1>1, ReopenedStays DEF Inv, TypeOK
  <2>2. RowOf(s) # None /\ RowOf(s).by = s
    BY <1>1, <2>1 DEF CreatedInv
  <2> QED BY <2>1, <2>2, RowStays
<1>2. ASSUME NEW r \in Requests, Create(r), s \notin created
      PROVE  RowOf(s)' # None /\ RowOf(s)'.by = s
  <2>1. s = target[r] /\ pc[r] = "execute" /\ UNCHANGED row
    BY <1>2 DEF Create
  <2>2. KeyOf[r] = KeyOf[s]
    BY <2>1 DEF Inv, ExecutorsInv
  <2>3. RowOf(r) # None /\ RowOf(r).by = s
    BY <2>1, <2>2 DEF Inv, ExecutorsInv, Executing, Keyed
  <2> QED BY <2>1, <2>2, <2>3 DEF RowOf
<1> QED BY <1>1, <1>2
        DEF Next, Start, Return, Throw, Persist, Undo, Lookup, Poll, Timeout, Crash, vars

\* A key of POST /payouts may pay twice only after an error it reported
\* (idempotency.service 75-79), and so may a key used at both endpoints.
THEOREM KeyCreatesAgainAfterFailure == Spec => []CreatesAgainAfterFailure
<1>1. Init => CreatedInv
  BY DEF Init, CreatedInv
<1>2. Inv /\ CreatedInv /\ [Next]_vars => CreatedInv'
  BY CreatedStep
<1>3. Inv /\ CreatedInv => CreatesAgainAfterFailure
  BY DEF CreatedInv, CreatesAgainAfterFailure, SameKey, RowOf, Keyed, Reopened
<1> QED BY <1>1, <1>2, <1>3, Invariant, PTL DEF Spec

-----------------------------------------------------------------------------
(* Checkout.                                                                *)

\* How far a request got tells what is there.
StagesInv ==
  \A r \in Requests :
    /\ pc[r] \in {"unsent", "lookup", "wait"} => stage[r] = "begun"
    /\ pc[r] = "persist" => stage[r] = "complete"
    /\ Retain[r] /\ stage[r] # "begun" => target[r] \in charges
    /\ ~Retain[r] /\ stage[r] # "begun" => target[r] \in created
    /\ stage[r] = "complete" => target[r] \in Whole

\* A charge is of a payment, whose key's row stays.
ChargedInv ==
  \A s \in charges :
    /\ Retain[s]
    /\ Keyed(s) => RowOf(s) # None /\ RowOf(s).by = s

PaymentsCharged == \A s \in created : Retain[s] => s \in charges

CInv ==
  /\ Inv
  /\ CheckoutTypeOK
  /\ StagesInv
  /\ ChargedInv
  /\ PaymentsCharged
  /\ AnswersAreWhole

LEMMA InitCInv == ASSUME CheckoutInit PROVE CInv
<1> USE IdempotencyAssumption
<1>1. Inv
  BY InitInv DEF CheckoutInit
<1>2. CheckoutTypeOK
  BY <1>1 DEF Inv, CheckoutInit, CheckoutTypeOK, Stages
<1>3. StagesInv /\ ChargedInv /\ PaymentsCharged /\ AnswersAreWhole
  BY DEF CheckoutInit, Init, StagesInv, ChargedInv, PaymentsCharged, AnswersAreWhole
<1> QED BY <1>1, <1>2, <1>3 DEF CInv

\* Every step is one of Idempotency's or leaves its variables alone.
LEMMA StepRefines == ASSUME [CheckoutNext]_checkoutVars PROVE [Next]_vars
<1>1. CASE UNCHANGED checkoutVars
  BY <1>1 DEF checkoutVars
<1>2. ASSUME NEW r \in Requests, Charge(r) \/ Enqueue(r) PROVE UNCHANGED vars
  BY <1>2 DEF Charge, Enqueue
<1>3. ASSUME NEW r \in Requests, InsertPayment(r) \/ InsertPayout(r) PROVE Next
  BY <1>3 DEF InsertPayment, InsertPayout, Next
<1>4. ASSUME NEW r \in Requests, Succeed(r) \/ Fail(r) \/ Wrap(r) PROVE Next
  BY <1>4 DEF Succeed, Fail, Wrap, Next
<1> QED BY <1>1, <1>2, <1>3, <1>4 DEF CheckoutNext

\* A request executes for a request of its own endpoint.
LEMMA TargetFacts ==
  ASSUME Inv, NEW r \in Requests, pc[r] \in Executing
  PROVE  /\ target[r] \in Requests
         /\ Retain[target[r]] = Retain[r]
         /\ Keyed(target[r]) => Keyed(r) /\ RowOf(target[r]) = RowOf(r)
         /\ Keyed(r) => RowOf(r) # None /\ RowOf(r).by = target[r]
<1>1. /\ target[r] \in Requests
      /\ KeyOf[target[r]] = KeyOf[r] /\ Retain[target[r]] = Retain[r]
  BY DEF Inv, TypeOK, ExecutorsInv
<1>2. CASE ~Keyed(r)
  BY <1>1, <1>2 DEF Inv, ExecutorsInv, Keyed
<1>3. CASE Keyed(r)
  <2>1. RowOf(r) # None /\ RowOf(r).body = BodyOf[r] /\ target[r] = RowOf(r).by
    BY <1>3 DEF Inv, ExecutorsInv
  <2> QED BY <1>1, <1>3, <2>1 DEF Keyed, RowOf
<1> QED BY <1>1, <1>2, <1>3

\* The row that retains a payment's UUID is never deleted, nor taken over.
LEMMA RetainedRowStays ==
  ASSUME Inv, [Next]_vars, NEW s \in Requests, Keyed(s), Retain[s],
         RowOf(s) # None, RowOf(s).by = s
  PROVE  RowOf(s)' # None /\ RowOf(s)'.by = s
<1> USE IdempotencyAssumption
<1>1. KeyOf[s] \in Keys
  BY DEF Keyed
<1>2. CASE UNCHANGED row
  BY <1>2 DEF RowOf
<1>3. ASSUME NEW r \in Requests, Start(r) PROVE RowOf(s)' # None /\ RowOf(s)'.by = s
  BY <1>1, <1>3 DEF Start, RowOf, Keyed, Inv, TypeOK
<1>4. ASSUME NEW r \in Requests, Undo(r) PROVE RowOf(s)' # None /\ RowOf(s)'.by = s
  <2>1. pc[r] = "undo"
    BY <1>4 DEF Undo
  <2>2. Keyed(r) /\ ~Retain[r] => KeyOf[r] # KeyOf[s]
    BY <2>1, TargetFacts DEF Executing, RowOf
  <2>3. CASE Keyed(r) /\ ~Retain[r] /\ row' = [row EXCEPT ![KeyOf[r]] = None]
    BY <1>1, <2>2, <2>3 DEF RowOf, Inv, TypeOK
  <2> QED BY <1>2, <1>4, <2>3 DEF Undo
<1>5. ASSUME NEW r \in Requests, Persist(r) PROVE RowOf(s)' # None /\ RowOf(s)'.by = s
  <2>1. CASE Keyed(r) /\ row' = [row EXCEPT ![KeyOf[r]].saved = target[r]]
    <3>1. CASE KeyOf[r] # KeyOf[s]
      BY <1>1, <2>1, <3>1 DEF RowOf, Inv, TypeOK
    <3>2. CASE KeyOf[r] = KeyOf[s]
      <4>1. RowOf(s) \in Row /\ RowOf(s)' = [RowOf(s) EXCEPT !.saved = target[r]]
        BY <1>1, <2>1, <3>2, RowFacts DEF RowOf, Inv, TypeOK
      <4>2. target[r] \in Requests
        BY DEF Inv, TypeOK
      <4>3. RowOf(s)'.by = s /\
            RowOf(s)' \in [by : Requests, body : Bodies, resource : Requests \cup {None},
                           saved : Requests \cup {None}]
        BY <4>1, <4>2 DEF Row
      <4> QED BY <4>3
    <3> QED BY <3>1, <3>2
  <2> QED BY <1>2, <1>5, <2>1 DEF Persist
<1> QED BY <1>2, <1>3, <1>4, <1>5
        DEF Next, Create, Return, Throw, Lookup, Poll, Timeout, Crash, vars

-----------------------------------------------------------------------------
(* One lemma per conjunct that the steps of Idempotency, or of Checkout,    *)
(* can disturb.                                                             *)

LEMMA TypesStep == ASSUME CInv, [CheckoutNext]_checkoutVars, Inv' PROVE CheckoutTypeOK'
<1> SUFFICES /\ stage' \in [Requests -> Stages]
             /\ charges' \subseteq Requests /\ jobs' \subseteq created'
  BY DEF CheckoutTypeOK, Inv
<1>1. ASSUME NEW r \in Requests, Charge(r)
      PROVE  stage' \in [Requests -> Stages] /\ charges' \subseteq Requests
             /\ jobs' \subseteq created'
  BY <1>1 DEF Charge, Reach, Stages, CInv, CheckoutTypeOK, TypeOK, vars
<1>2. ASSUME NEW r \in Requests, InsertPayment(r) \/ InsertPayout(r)
      PROVE  stage' \in [Requests -> Stages] /\ charges' \subseteq Requests
             /\ jobs' \subseteq created'
  BY <1>2 DEF InsertPayment, InsertPayout, Create, Reach, Stages, CInv, CheckoutTypeOK
<1>3. ASSUME NEW r \in Requests, Enqueue(r)
      PROVE  stage' \in [Requests -> Stages] /\ charges' \subseteq Requests
             /\ jobs' \subseteq created'
  <2>1. target[r] \in created
    BY <1>3 DEF Enqueue, CInv, StagesInv
  <2> QED BY <1>3, <2>1 DEF Enqueue, Reach, Stages, CInv, CheckoutTypeOK, vars
<1>4. ASSUME NEW r \in Requests, Succeed(r) \/ Fail(r) \/ Wrap(r)
      PROVE  stage' \in [Requests -> Stages] /\ charges' \subseteq Requests
             /\ jobs' \subseteq created'
  BY <1>4 DEF Succeed, Fail, Wrap, Return, Throw, Start, Persist, Undo, Lookup, Poll, Timeout,
              Crash, CInv, CheckoutTypeOK
<1> QED BY <1>1, <1>2, <1>3, <1>4 DEF CheckoutNext, checkoutVars, vars, CInv, CheckoutTypeOK

\* Nothing that is whole is taken apart.
LEMMA WholeStays ==
  ASSUME CInv, [CheckoutNext]_checkoutVars
  PROVE  /\ created \subseteq created' /\ charges \subseteq charges' /\ jobs \subseteq jobs'
         /\ Whole \subseteq Whole'
<1>1. created \subseteq created' /\ charges \subseteq charges' /\ jobs \subseteq jobs'
  BY DEF CheckoutNext, checkoutVars, vars, Charge, InsertPayment, InsertPayout, Enqueue, Succeed,
         Fail, Wrap, Create, Return, Throw, Start, Persist, Undo, Lookup, Poll, Timeout, Crash
<1> QED BY <1>1 DEF Whole

LEMMA StagesStep == ASSUME CInv, [CheckoutNext]_checkoutVars PROVE StagesInv'
<1> DEFINE P(r) ==
      /\ pc[r] \in {"unsent", "lookup", "wait"} => stage[r] = "begun"
      /\ pc[r] = "persist" => stage[r] = "complete"
      /\ Retain[r] /\ stage[r] # "begun" => target[r] \in charges
      /\ ~Retain[r] /\ stage[r] # "begun" => target[r] \in created
      /\ stage[r] = "complete" => target[r] \in Whole
<1> SUFFICES ASSUME NEW q \in Requests PROVE P(q)'
  BY DEF StagesInv
<1>0. P(q) /\ pc \in [Requests -> Steps] /\ stage \in [Requests -> Stages]
           /\ target \in [Requests -> Requests]
  BY DEF CInv, StagesInv, Inv, TypeOK, CheckoutTypeOK
<1>1. CASE UNCHANGED <<pc[q], stage[q], target[q]>>
  BY <1>0, <1>1, WholeStays
<1>2. ASSUME NEW r \in Requests, Charge(r) PROVE P(q)'
  <2>1. /\ UNCHANGED <<pc, target>> /\ stage' = [stage EXCEPT ![r] = "half"]
        /\ target[r] \in charges' /\ Retain[r] /\ pc[r] = "execute"
    BY <1>2 DEF Charge, Reach, vars
  <2>2. CASE q = r
    BY <1>0, <2>1, <2>2
  <2> QED BY <1>0, <1>1, <2>1, <2>2
<1>3. ASSUME NEW r \in Requests, InsertPayment(r) PROVE P(q)'
  <2>1. /\ UNCHANGED <<pc, target, charges>> /\ stage' = [stage EXCEPT ![r] = "complete"]
        /\ target[r] \in created' /\ Retain[r] /\ pc[r] = "execute" /\ stage[r] = "half"
    BY <1>3 DEF InsertPayment, Create, Reach
  <2>2. CASE q = r
    <3>1. Retain[target[r]] /\ target[r] \in charges'
      BY <1>0, <2>1, <2>2, TargetFacts DEF CInv, Executing
    <3> QED BY <1>0, <2>1, <2>2, <3>1 DEF Whole
  <2> QED BY <1>0, <1>1, <2>1, <2>2
<1>4. ASSUME NEW r \in Requests, InsertPayout(r) PROVE P(q)'
  <2>1. /\ UNCHANGED <<pc, target>> /\ stage' = [stage EXCEPT ![r] = "half"]
        /\ target[r] \in created' /\ ~Retain[r] /\ pc[r] = "execute"
    BY <1>4 DEF InsertPayout, Create, Reach
  <2>2. CASE q = r
    BY <1>0, <2>1, <2>2
  <2> QED BY <1>0, <1>1, <2>1, <2>2
<1>5. ASSUME NEW r \in Requests, Enqueue(r) PROVE P(q)'
  <2>1. /\ UNCHANGED <<pc, target, created>> /\ stage' = [stage EXCEPT ![r] = "complete"]
        /\ target[r] \in jobs' /\ ~Retain[r] /\ pc[r] = "execute" /\ stage[r] = "half"
    BY <1>5 DEF Enqueue, Reach, vars
  <2>2. CASE q = r
    <3>1. ~Retain[target[r]] /\ target[r] \in created'
      BY <1>0, <2>1, <2>2, TargetFacts DEF CInv, Executing
    <3> QED BY <1>0, <2>1, <2>2, <3>1 DEF Whole
  <2> QED BY <1>0, <1>1, <2>1, <2>2
<1>6. ASSUME NEW r \in Requests, Succeed(r) \/ Fail(r) PROVE P(q)'
  <2>1. PICK step \in {"persist", "undo"} :
          /\ UNCHANGED <<stage, target>> /\ pc' = [pc EXCEPT ![r] = step]
          /\ step = "persist" => stage[r] = "complete"
    BY <1>6 DEF Succeed, Fail, Return, Throw, Goto
  <2>2. pc'[q] \in {"persist", "undo"} \/ pc'[q] = pc[q]
    BY <1>0, <2>1
  <2> QED BY <1>0, <2>1, <2>2, WholeStays
<1>7. ASSUME NEW r \in Requests, Wrap(r) PROVE P(q)'
  <2>1. UNCHANGED <<stage, charges, jobs, created>>
    BY <1>7 DEF Wrap, Start, Persist, Undo, Lookup, Poll, Timeout, Crash
  <2>2. \A step : Goto(r, step) => pc'[q] = IF q = r THEN step ELSE pc[q]
    BY <1>0 DEF Goto
  <2>3. CASE pc[q] = "lookup" \/ pc[q] = "unsent"
    <3>1. pc'[q] # "persist"
      <4>1. CASE q = r
        <5>1. Start(q) \/ Lookup(q) \/ Crash(q)
          BY <1>7, <2>3, <4>1 DEF Wrap, Persist, Undo, Poll, Timeout
        <5>2. PICK step \in {"execute", "lookup", "wait", "done"} :
                pc' = [pc EXCEPT ![q] = step]
          BY <5>1 DEF Start, Lookup, Crash, Replay, Conflict, Answer, Goto
        <5> QED BY <1>0, <5>2
      <4>2. CASE q # r
        <5>1. PICK step : pc' = [pc EXCEPT ![r] = step]
          BY <1>7
          DEF Wrap, Start, Persist, Undo, Lookup, Poll, Timeout, Crash, Replay, Conflict,
              Answer, Goto
        <5> QED BY <1>0, <2>3, <4>2, <5>1
      <4> QED BY <4>1, <4>2
    <3>2. stage'[q] = "begun"
      BY <1>0, <2>1, <2>3
    <3> QED BY <3>1, <3>2
  <2>4. CASE pc[q] \notin {"lookup", "unsent"}
    <3>1. target'[q] = target[q]
      BY <1>0, <1>7, <2>4 DEF Wrap, Start, Persist, Undo, Lookup, Poll, Timeout, Crash
    <3>2. pc'[q] \in {pc[q], "undo", "done"}
      BY <1>7, <2>2, <2>4
      DEF Wrap, Start, Persist, Undo, Lookup, Poll, Timeout, Crash, Replay, Conflict, Answer
    <3> QED BY <1>0, <2>1, <3>1, <3>2, WholeStays
  <2> QED BY <2>3, <2>4
<1>8. CASE UNCHANGED checkoutVars
  BY <1>1, <1>8 DEF checkoutVars, vars
<1> QED BY <1>2, <1>3, <1>4, <1>5, <1>6, <1>7, <1>8 DEF CheckoutNext

LEMMA ChargedStep ==
  ASSUME CInv, [CheckoutNext]_checkoutVars PROVE ChargedInv' /\ PaymentsCharged'
<1> USE IdempotencyAssumption
<1>1. [Next]_vars
  BY StepRefines
<1>2. ASSUME NEW s \in charges
      PROVE  Retain[s] /\ (Keyed(s) => RowOf(s)' # None /\ RowOf(s)'.by = s)
  BY <1>1, <1>2, RetainedRowStays DEF CInv, ChargedInv, CheckoutTypeOK
<1>3. ASSUME NEW r \in Requests, Charge(r) PROVE ChargedInv' /\ PaymentsCharged'
  <2>1. UNCHANGED <<row, created>> /\ charges' = charges \cup {target[r]}
    BY <1>3 DEF Charge, vars
  <2>2. Retain[target[r]] /\ (Keyed(target[r]) =>
                                RowOf(target[r]) # None /\ RowOf(target[r]).by = target[r])
    BY <1>3, TargetFacts DEF Charge, CInv, Executing
  <2>3. ChargedInv'
    BY <2>1, <2>2 DEF CInv, ChargedInv, RowOf, Keyed
  <2> QED BY <2>1, <2>3 DEF CInv, PaymentsCharged
<1>4. CASE UNCHANGED charges
  <2>1. ChargedInv'
    BY <1>2, <1>4 DEF ChargedInv, Keyed
  <2>2. ASSUME NEW r \in Requests, InsertPayment(r) PROVE PaymentsCharged'
    <3>1. target[r] \in charges
      BY <2>2 DEF InsertPayment, CInv, StagesInv
    <3> QED BY <1>4, <2>2, <3>1 DEF InsertPayment, Create, CInv, PaymentsCharged
  <2>3. ASSUME NEW r \in Requests, InsertPayout(r) PROVE PaymentsCharged'
    <3>1. ~Retain[target[r]]
      BY <2>3, TargetFacts DEF InsertPayout, Create, CInv, Executing
    <3> QED BY <1>4, <2>3, <3>1 DEF InsertPayout, Create, CInv, PaymentsCharged
  <2>4. UNCHANGED created => PaymentsCharged'
    BY <1>4 DEF CInv, PaymentsCharged
  <2>5. PaymentsCharged'
    BY <1>3, <2>2, <2>3, <2>4
    DEF CheckoutNext, checkoutVars, vars, Charge, Enqueue, Succeed, Fail, Wrap, Return, Throw,
        Start, Persist, Undo, Lookup, Poll, Timeout, Crash
  <2> QED BY <2>1, <2>5
<1> QED BY <1>3, <1>4
        DEF CheckoutNext, checkoutVars, InsertPayment, InsertPayout, Enqueue, Succeed, Fail, Wrap

LEMMA AnswersStep == ASSUME CInv, [CheckoutNext]_checkoutVars, Inv' PROVE AnswersAreWhole'
<1> USE IdempotencyAssumption
<1>1. Whole \subseteq Whole'
  BY WholeStays
<1>2. CASE UNCHANGED <<row, answer>>
  BY <1>1, <1>2 DEF CInv, AnswersAreWhole
<1>3. ASSUME NEW r \in Requests, Start(r) PROVE AnswersAreWhole'
  <2>1. UNCHANGED answer
    BY <1>3 DEF Start
  <2>2. ASSUME NEW k \in Keys, row'[k] # None, row'[k].saved # None PROVE row'[k] = row[k]
    BY <1>3, <2>2 DEF Start, RowOf, CInv, Inv, TypeOK
  <2> QED BY <1>1, <2>1, <2>2 DEF CInv, AnswersAreWhole
<1>4. ASSUME NEW r \in Requests, Persist(r) PROVE AnswersAreWhole'
  <2>1. target[r] \in Whole' /\ target[r] \in Requests
    BY <1>1, <1>4 DEF Persist, CInv, StagesInv, Inv, TypeOK
  <2>2. ASSUME NEW s \in Requests, answer'[s] \in Requests
        PROVE  answer'[s] \in {answer[s], target[r]}
    BY <1>4 DEF Persist, Answer, CInv, Inv, TypeOK
  <2>3. ASSUME NEW k \in Keys, row'[k] # None, row'[k].saved # None
        PROVE  row'[k] = row[k] \/ row'[k].saved = target[r]
    <3>1. CASE Keyed(r) /\ row' = [row EXCEPT ![KeyOf[r]].saved = target[r]]
      <4>1. CASE k = KeyOf[r]
        <5>1. row[k] \in Row
          BY <1>4, <3>1, <4>1, TargetFacts, RowFacts
          DEF Persist, Executing, CInv, RowOf
        <5> QED BY <3>1, <4>1, <5>1 DEF CInv, Inv, TypeOK, Row
      <4> QED BY <3>1, <4>1 DEF CInv, Inv, TypeOK
    <3> QED BY <1>4, <3>1 DEF Persist
  <2> QED BY <1>1, <2>1, <2>2, <2>3 DEF CInv, AnswersAreWhole
<1>5. ASSUME NEW r \in Requests, Undo(r) PROVE AnswersAreWhole'
  <2>1. ASSUME NEW s \in Requests, answer'[s] \in Requests PROVE answer'[s] = answer[s]
    BY <1>5, <2>1 DEF Undo, Answer, Errors, CInv, Inv, TypeOK
  <2>2. ASSUME NEW k \in Keys, row'[k] # None PROVE row'[k] = row[k]
    BY <1>5, <2>2 DEF Undo, CInv, Inv, TypeOK
  <2> QED BY <1>1, <2>1, <2>2 DEF CInv, AnswersAreWhole
<1>6. ASSUME NEW r \in Requests, Lookup(r) \/ Poll(r) \/ Timeout(r) PROVE AnswersAreWhole'
  <2>1. Keyed(r) /\ KeyOf[r] \in Keys /\ UNCHANGED row
    <3>1. pc[r] \in {"lookup", "wait"} /\ UNCHANGED row
      BY <1>6 DEF Lookup, Poll, Timeout
    <3>2. Keyed(r)
      BY <3>1 DEF CInv, Inv, ExecutorsInv
    <3> QED BY <3>1, <3>2 DEF Keyed
  <2>2. ASSUME NEW s \in Requests, answer'[s] \in Requests
        PROVE  answer'[s] = answer[s]
               \/ (/\ RowOf(r) # None /\ RowOf(r).saved # None
                   /\ answer'[s] = RowOf(r).saved)
    <3>1. \A what : Answer(r, what) => answer'[s] \in {answer[s], what}
      BY DEF Answer, CInv, Inv, TypeOK
    <3>2. "conflict" \notin Requests /\ "in progress" \notin Requests
      BY DEF Errors
    <3>3. Replay(r) => RowOf(r) # None /\ RowOf(r).saved # None
                       /\ answer'[s] \in {answer[s], RowOf(r).saved}
      BY <3>1 DEF Replay
    <3>4. Conflict(r) \/ Answer(r, "in progress") => answer'[s] = answer[s]
      <4>1. Conflict(r) => answer'[s] \in {answer[s], "conflict"}
        BY <3>1 DEF Conflict
      <4>2. Answer(r, "in progress") => answer'[s] \in {answer[s], "in progress"}
        BY <3>1
      <4> QED BY <2>2, <3>2, <4>1, <4>2
    <3> QED BY <1>6, <3>3, <3>4 DEF Lookup, Poll, Timeout
  <2>3. RowOf(r) # None /\ RowOf(r).saved # None => RowOf(r).saved \in Whole
    BY <2>1 DEF CInv, AnswersAreWhole, RowOf
  <2>4. \A s \in Requests : answer[s] \in Requests => answer[s] \in Whole'
    BY <1>1 DEF CInv, AnswersAreWhole
  <2>5. \A k \in Keys : row[k] # None /\ row[k].saved # None => row[k].saved \in Whole'
    BY <1>1 DEF CInv, AnswersAreWhole
  <2> QED BY <1>1, <2>1, <2>2, <2>3, <2>4, <2>5 DEF AnswersAreWhole
<1> QED BY <1>2, <1>3, <1>4, <1>5, <1>6
        DEF CheckoutNext, checkoutVars, vars, Charge, InsertPayment, InsertPayout, Enqueue,
            Succeed, Fail, Wrap, Create, Return, Throw, Crash

LEMMA StepCInv == ASSUME CInv, [CheckoutNext]_checkoutVars PROVE CInv'
<1>1. Inv'
  BY StepRefines, StepInv DEF CInv
<1> QED BY <1>1, TypesStep, StagesStep, ChargedStep, AnswersStep DEF CInv

LEMMA CheckoutInvariant == CheckoutSpec => []CInv
<1>1. CheckoutInit => CInv
  BY InitCInv
<1>2. CInv /\ [CheckoutNext]_checkoutVars => CInv'
  BY StepCInv
<1> QED BY <1>1, <1>2, PTL DEF CheckoutSpec

-----------------------------------------------------------------------------
\* With charges, inserts and jobs in the middle, requests behave as
\* Idempotency says (payments.service 40-86, payouts.service 41-76).
THEOREM CheckoutImplements == CheckoutSpec => ImplementsIdempotency
<1>1. CheckoutInit => Init
  BY DEF CheckoutInit
<1>2. [CheckoutNext]_checkoutVars => [Next]_vars
  BY StepRefines
<1> QED BY <1>1, <1>2, PTL DEF CheckoutSpec, ImplementsIdempotency, Spec

\* A job is of a payout that is committed (payouts.service 69).
THEOREM CheckoutTypes == CheckoutSpec => []CheckoutTypeOK
<1>1. CInv => CheckoutTypeOK
  BY DEF CInv
<1> QED BY <1>1, CheckoutInvariant, PTL

\* A client is told only of what is there in both systems (payments.service
\* 47-71, payouts.service 45-75).
THEOREM SuccessesAreWhole == CheckoutSpec => []AnswersAreWhole
<1>1. CInv => AnswersAreWhole
  BY DEF CInv
<1> QED BY <1>1, CheckoutInvariant, PTL

\* A key has one charge at the provider, whatever failed (payments.service
\* 45-51).
THEOREM KeyHasOneCharge == CheckoutSpec => []OneChargePerKey
<1>1. CInv => OneChargePerKey
  BY DEF CInv, ChargedInv, CheckoutTypeOK, OneChargePerKey, SameKey, Keyed, RowOf
<1> QED BY <1>1, CheckoutInvariant, PTL

\* A charge whose payment is missing is retained by its key, with no response
\* (idempotency.service 75-79, 107-109).
THEOREM ChargesCanBeResumed == CheckoutSpec => []ChargesAreRecoverable
<1>1. CInv => ChargesAreRecoverable
  <2> SUFFICES ASSUME CInv, NEW s \in charges \ created, Keyed(s)
               PROVE  RowOf(s) # None /\ RowOf(s).resource = s /\ RowOf(s).saved = None
    BY DEF ChargesAreRecoverable, CInv, PaymentsCharged
  <2>1. RowOf(s) # None /\ RowOf(s).by = s /\ Retain[s] /\ s \in Requests
    BY DEF CInv, ChargedInv, CheckoutTypeOK
  <2>2. RowOf(s).resource = s /\ RowOf(s).saved \in {None, s}
    BY <2>1, RowFacts DEF CInv, Inv, RowsInv, RowOf
  <2>3. RowOf(s).saved \in created \cup {None}
    BY <2>1, RowFacts DEF CInv
  <2> QED BY <2>1, <2>2, <2>3
<1> QED BY <1>1, CheckoutInvariant, PTL

\* What Idempotency promises of a key also holds with the provider and the
\* queue in the middle (payments.service 40-86, payouts.service 41-76).
THEOREM CheckoutKeepsKeys ==
  CheckoutSpec => /\ [](ReplaysAgree /\ AnswersMatchBody /\ OnePaymentPerKey)
                  /\ [](PaymentsWaitForPayoutsAlone /\ CreatesAgainAfterFailure)
                  /\ NothingAfterAnAnswer
<1>1. CheckoutSpec => Spec
  BY CheckoutImplements DEF ImplementsIdempotency
<1> QED BY <1>1, KeyNamesOneResource, KeyKeepsBody, KeyCreatesOnePayment,
           PaymentsWaitForPayoutsOnly, KeyCreatesAgainAfterFailure, KeyIsSettledByAnswer,
           PTL
=============================================================================
