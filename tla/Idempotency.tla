---------------------------- MODULE Idempotency ----------------------------
(***************************************************************************)
(* POST /payments and POST /payouts under an Idempotency-Key: the service  *)
(* that wraps them (src/idempotency/idempotency.service) and what they     *)
(* create.                                                                 *)
(*                                                                         *)
(* A request that inserts the key's row executes and saves its response in *)
(* the row; one that finds the row replays the response, waits for it or,  *)
(* for payments, executes again with the UUID the row retains.  Requests   *)
(* run in any number of processes and interleave at every await.  A        *)
(* resource (payment or payout) is named by the request that drew its UUID.*)
(***************************************************************************)
EXTENDS Integers

CONSTANTS
  Requests,     \* POSTs that may be sent
  Keys,         \* Idempotency-Keys of a partner
  NoKey,        \* a request without the header
  KeyOf,        \* the request's key, or NoKey
  BodyOf,       \* the hash of its raw body
  Destined,     \* the bodies with a destination
  Retain,       \* whether it goes to /payments, which retains the resource
  None          \* no row, no UUID, no snapshot, no answer

Bodies == {BodyOf[r] : r \in Requests}
Errors == {"failed", "conflict", "in progress"}

ASSUME IdempotencyAssumption ==
  /\ NoKey \notin Keys /\ None \notin Requests
  /\ KeyOf \in [Requests -> Keys \cup {NoKey}]
  /\ Retain \in [Requests -> BOOLEAN]
  /\ Requests \cap Errors = {} /\ None \notin Errors
  /\ None \notin [by : Requests, body : Bodies, resource : Requests \cup {None},
                  saved : Requests \cup {None}]
  \* /payments refuses a destination; /payouts does not ask for one
  /\ \A r \in Requests : Retain[r] => BodyOf[r] \notin Destined

VARIABLES
  row,          \* idempotency_keys: the row of a key, or None
  created,      \* payments and payouts that are committed
  pc,           \* what a request does next
  target,       \* the UUID a request executes with
  answer        \* what the client was told: a resource, an error, or nothing

vars == <<row, created, pc, target, answer>>

\* saved stands for the response_code and response_body of a success.
Row == [by : Requests, body : Bodies, resource : Requests \cup {None},
        saved : created \cup {None}]

Steps == {"unsent", "execute", "persist", "undo", "lookup", "wait", "done"}

\* A response that is saved or answered is of a resource that exists.
TypeOK ==
  /\ row \in [Keys -> Row \cup {None}]
  /\ created \subseteq Requests
  /\ pc \in [Requests -> Steps]
  /\ target \in [Requests -> Requests]
  /\ answer \in [Requests -> created \cup Errors \cup {None}]

Init ==
  /\ row = [k \in Keys |-> None]
  /\ created = {}
  /\ pc = [r \in Requests |-> "unsent"]
  /\ target = [r \in Requests |-> r]
  /\ answer = [r \in Requests |-> None]

-----------------------------------------------------------------------------
Keyed(r) == KeyOf[r] # NoKey
RowOf(r) == row[KeyOf[r]]

Goto(r, step) == pc' = [pc EXCEPT ![r] = step]

Answer(r, what) == Goto(r, "done") /\ answer' = [answer EXCEPT ![r] = what]

\* Mutant: the key's row is upserted.
StartUpserting(r) ==
  /\ pc[r] = "unsent"
  /\ row' = IF ~Keyed(r) THEN row
            ELSE [row EXCEPT ![KeyOf[r]] =
                    [by |-> r, body |-> BodyOf[r],
                     resource |-> IF Retain[r] THEN r ELSE None, saved |-> None]]
  /\ Goto(r, "execute")
  /\ UNCHANGED <<created, target, answer>>

\* run: the unique (partner, key) decides who executes.
Start(r) ==
  /\ pc[r] = "unsent"
  /\ \/ /\ ~Keyed(r)
        /\ Goto(r, "execute")
        /\ UNCHANGED row
     \/ /\ Keyed(r) /\ RowOf(r) = None
        /\ row' = [row EXCEPT ![KeyOf[r]] =
             [by |-> r, body |-> BodyOf[r],
              resource |-> IF Retain[r] THEN r ELSE None, saved |-> None]]
        /\ Goto(r, "execute")
     \/ /\ Keyed(r) /\ RowOf(r) # None
        /\ Goto(r, "lookup")
        /\ UNCHANGED row
  /\ UNCHANGED <<created, target, answer>>

\* The creation commits.  PaymentsService.create finds the row of a UUID that
\* is there already; PayoutsService.create draws a UUID of its own, and throws
\* where it reads a destination that the body does not have.
Create(r) ==
  /\ pc[r] = "execute"
  /\ Retain[r] \/ BodyOf[r] \in Destined
  /\ created' = created \cup {target[r]}
  /\ UNCHANGED <<row, pc, target, answer>>

Return(r) ==
  /\ pc[r] = "execute" /\ target[r] \in created
  /\ Goto(r, "persist")
  /\ UNCHANGED <<row, created, target, answer>>

\* The creation throws, before or after its commit: a payout whose job could
\* not be added or that has no destination, an insert whose acknowledgement is
\* lost.
Throw(r) ==
  /\ pc[r] = "execute"
  /\ Goto(r, "undo")
  /\ UNCHANGED <<row, created, target, answer>>

\* The response is saved in the row of the key, by the row's id.  The update
\* too may fail, or commit and fail all the same.
Persist(r) ==
  /\ pc[r] = "persist"
  /\ \/ /\ ~Keyed(r)
        /\ Answer(r, target[r])
        /\ UNCHANGED row
     \/ /\ Keyed(r)
        /\ row' = [row EXCEPT ![KeyOf[r]].saved = target[r]]
        /\ \/ Answer(r, target[r])
           \/ Goto(r, "undo") /\ UNCHANGED answer
     \/ /\ Keyed(r)
        /\ Goto(r, "undo")
        /\ UNCHANGED <<row, answer>>
  /\ UNCHANGED <<created, target>>

\* Mutant: the key is deleted whatever it retains.
UndoRetained(r) ==
  /\ pc[r] = "undo"
  /\ row' = IF Keyed(r) THEN [row EXCEPT ![KeyOf[r]] = None] ELSE row
  /\ Answer(r, "failed")
  /\ UNCHANGED <<created, target>>

\* An error deletes the key, unless it retains a resource or the deletion
\* fails too, and is thrown again.
Undo(r) ==
  /\ pc[r] = "undo"
  /\ \/ /\ Keyed(r) /\ ~Retain[r]
        /\ row' = [row EXCEPT ![KeyOf[r]] = None]
     \/ UNCHANGED row
  /\ Answer(r, "failed")
  /\ UNCHANGED <<created, target>>

-----------------------------------------------------------------------------
(* onExistingKey and waitForSnapshot.                                       *)

OtherBody(r) == RowOf(r) # None /\ RowOf(r).body # BodyOf[r]

\* Mutant: a snapshot is returned before the bodies are compared.
ReplayAnyBody(r) ==
  /\ RowOf(r) # None /\ RowOf(r).saved # None
  /\ Answer(r, RowOf(r).saved)

\* A snapshot is there: the original response.
Replay(r) ==
  /\ RowOf(r) # None /\ ~OtherBody(r) /\ RowOf(r).saved # None
  /\ Answer(r, RowOf(r).saved)

Conflict(r) == OtherBody(r) /\ Answer(r, "conflict")

\* The request's own operation, with no response yet.
InFlight(r) == RowOf(r) # None /\ ~OtherBody(r) /\ RowOf(r).saved = None

Resumable(r) == InFlight(r) /\ Retain[r] /\ RowOf(r).resource # None

\* Mutant: an open payment's request waits like a payout's.
LookupWaiting(r) ==
  /\ pc[r] = "lookup"
  /\ \/ Replay(r) \/ Conflict(r)
     \/ /\ RowOf(r) = None \/ InFlight(r)
        /\ Goto(r, "wait")
        /\ UNCHANGED answer
  /\ UNCHANGED <<row, created, target>>

\* Mutant: a resumed request draws a UUID of its own.
LookupAfresh(r) ==
  /\ pc[r] = "lookup"
  /\ \/ (Replay(r) \/ Conflict(r)) /\ UNCHANGED target
     \/ /\ Resumable(r)
        /\ Goto(r, "execute")
        /\ UNCHANGED <<target, answer>>
     \/ /\ RowOf(r) = None \/ (InFlight(r) /\ ~Resumable(r))
        /\ Goto(r, "wait")
        /\ UNCHANGED <<target, answer>>
  /\ UNCHANGED <<row, created>>

\* The row is read once: replay, refuse, resume, or go and wait.
Lookup(r) ==
  /\ pc[r] = "lookup"
  /\ \/ (Replay(r) \/ Conflict(r)) /\ UNCHANGED target
     \/ /\ Resumable(r)
        /\ target' = [target EXCEPT ![r] = RowOf(r).resource]
        /\ Goto(r, "execute")
        /\ UNCHANGED answer
     \/ /\ RowOf(r) = None \/ (InFlight(r) /\ ~Resumable(r))
        /\ Goto(r, "wait")
        /\ UNCHANGED <<target, answer>>
  /\ UNCHANGED <<row, created>>

\* A poll under the row's lock.  A row that is gone, or has no snapshot, is
\* polled again until the deadline.
Poll(r) ==
  /\ pc[r] = "wait"
  /\ Replay(r) \/ Conflict(r)
  /\ UNCHANGED <<row, created, target>>

Timeout(r) ==
  /\ pc[r] = "wait"
  /\ Answer(r, "in progress")
  /\ UNCHANGED <<row, created, target>>

\* The process dies, or a query of the lookup fails: no answer, no undo.
Crash(r) ==
  /\ pc[r] \in Steps \ {"unsent", "done"}
  /\ Goto(r, "done")
  /\ UNCHANGED <<row, created, target, answer>>

Next ==
  \E r \in Requests :
    \/ Start(r)
    \/ Create(r)
    \/ Return(r)
    \/ Throw(r)
    \/ Persist(r)
    \/ Undo(r)
    \/ Lookup(r)
    \/ Poll(r)
    \/ Timeout(r)
    \/ Crash(r)

Spec == Init /\ [][Next]_vars

-----------------------------------------------------------------------------
SameKey(r, s) == Keyed(r) /\ KeyOf[r] = KeyOf[s]

\* A payout's request of r's key was told that it failed: it may have deleted
\* the key.
Reopened(r) == \E q \in Requests : SameKey(r, q) /\ ~Retain[q] /\ answer[q] = "failed"

\* The successes that a key's requests are told of name one resource, also
\* when several requests executed (API_CONTRACT 53: "including the same
\* resource `id`").  Only a payout's key that an error deleted may name another.
ReplaysAgree ==
  \A r, s \in Requests :
    SameKey(r, s) /\ answer[r] \in Requests /\ answer[s] \in Requests
      => \/ answer[r] = answer[s]
         \/ ~(Retain[r] /\ Retain[s]) /\ Reopened(r)

\* A success is only told to requests of the body that was executed: a waiter
\* may find another body in the row than the one it lost against.
AnswersMatchBody ==
  \A r \in Requests : answer[r] \in Requests => BodyOf[answer[r]] = BodyOf[r]

\* A key of POST /payments creates one payment, whatever fails and however
\* many requests resume it at once (fase-10 76-80).
OnePaymentPerKey ==
  \A r, s \in created : SameKey(r, s) /\ Retain[r] /\ Retain[s] => r = s

\* A payout's request of r's key was sent with r's body: it may have inserted
\* the row, which retains nothing.
SentAsPayout(r) ==
  \E q \in Requests : SameKey(r, q) /\ ~Retain[q] /\ BodyOf[q] = BodyOf[r] /\ pc[q] # "unsent"

\* A payment's request never waits for another's: whoever executes may be
\* dead, so it resumes (fase-10 92-94).  It waits only where a payout has used
\* its key, with its body or until it failed.
PaymentsWaitForPayoutsAlone ==
  \A r \in Requests :
    Retain[r] /\ answer[r] = "in progress" => Reopened(r) \/ SentAsPayout(r)

\* Once a client has been told of a key's resource, the key creates no other,
\* unless it is a payout's that an error deleted.
NothingAfterAnAnswer ==
  [][\A r \in Requests :
       Keyed(r) /\ answer[r] \in Requests /\ (Retain[r] \/ ~Reopened(r)) =>
         {s \in created' : SameKey(r, s)} = {s \in created : SameKey(r, s)}]_vars

\* "Idempotency replay of a payout does not reserve a second time" (fase-7
\* 67), and one payment per key.
OneResourcePerKey == \A r, s \in created : SameKey(r, s) => r = s
=============================================================================
