------------------------------- MODULE FxQuotes -------------------------------
(***************************************************************************)
(* A rate-locked quote: FxService.createQuote prices it with               *)
(* FakeFxProvider.convert, and FxService.consume claims it, at most once   *)
(* and only in its window.                                                 *)
(*                                                                         *)
(* A caller of consume passes the client of its transaction, and commits   *)
(* or rolls back later, or passes none, and each statement commits alone.  *)
(* updateMany waits for the row's lock and then looks at consumed_at       *)
(* again.  The clock may tick at any await; between assertUsable and the   *)
(* new Date() of the claim, one turn of the event loop, no call of the     *)
(* process gets in, but a little time may pass (Slip).                     *)
(***************************************************************************)
EXTENDS Integers

CONSTANTS
  Callers,        \* calls of consume, of one quote
  InTransaction,  \* those that pass a transaction's client
  Asks,           \* bodies of POST /v1/fx/quotes
  RATES,          \* the provider's table, in units of 1/Scale
  Scale,          \* 10 ^ the decimals of a rate
  Lock,           \* FX_RATE_LOCK_SECONDS
  Slip,           \* time that may pass within one turn of the event loop
  MaxTime,        \* bound of the clock
  None

ASSUME FxAssumption ==
  /\ InTransaction \subseteq Callers
  /\ \A k \in Asks : k.amount \in Nat \ {0}
  /\ \A p \in DOMAIN RATES : RATES[p] \in Nat
  /\ Scale \in Nat \ {0} /\ Lock \in Nat \ {0}
  /\ Slip \in Nat /\ MaxTime \in Nat
  /\ None \notin Int

VARIABLES
  now,            \* the clock
  quote,          \* the row but for consumed_at, None before it is inserted
  consumedAt,     \* its column, committed
  pc,             \* what a call does next
  seen,           \* the consumed_at a call has read last
  stamp,          \* the time a call claims with
  answer          \* what a call's promise, or its transaction's, came to

vars == <<now, quote, consumedAt, pc, seen, stamp, answer>>
callVars == <<seen, stamp, answer>>

Times == 0..MaxTime
Steps == {"idle", "assert", "claim", "claimed", "given", "lost", "ended"}
Answers == {"pending", "quote", "quote_consumed", "quote_expired", "error"}

\* Calls whose claim is written and not committed: they hold the row's lock.
RowHolders == {c \in InTransaction : pc[c] \in {"claimed", "given"}}

Init ==
  /\ now = 0 /\ quote = None /\ consumedAt = None
  /\ pc = [c \in Callers |-> "idle"]
  /\ seen = [c \in Callers |-> None]
  /\ stamp = [c \in Callers |-> None]
  /\ answer = [c \in Callers |-> "pending"]

Tick ==
  /\ now < MaxTime
  /\ now' = now + 1
  /\ UNCHANGED <<quote, consumedAt, pc, callVars>>

-----------------------------------------------------------------------------
(* createQuote.                                                             *)

Rate(source, target) ==
  IF source # target /\ <<source, target>> \in DOMAIN RATES
  THEN RATES[<<source, target>>] ELSE Scale

\* Mutant: the remainder is dropped.
ConvertTruncating(amount, source, target) == (amount * Rate(source, target)) \div Scale

\* Half a minor unit is rounded up, with integers.
Convert(amount, source, target) ==
  LET product == amount * Rate(source, target)
  IN  product \div Scale + (IF 2 * (product % Scale) >= Scale THEN 1 ELSE 0)

CreateQuote(k) ==
  /\ quote = None
  /\ quote' = [source |-> k.source, target |-> k.target, sourceAmount |-> k.amount,
               targetAmount |-> Convert(k.amount, k.source, k.target),
               expiresAt |-> now + Lock]
  /\ UNCHANGED <<now, consumedAt, pc, callVars>>

-----------------------------------------------------------------------------
(* consume.                                                                 *)

Goto(c, step) == pc' = [pc EXCEPT ![c] = step]
Answer(c, what) == Goto(c, "ended") /\ answer' = [answer EXCEPT ![c] = what]

\* The first findUniqueOrThrow.
Read(c) ==
  /\ pc[c] = "idle" /\ quote # None
  /\ Goto(c, "assert")
  /\ seen' = [seen EXCEPT ![c] = consumedAt]
  /\ UNCHANGED <<now, quote, consumedAt, stamp, answer>>

\* assertUsable, of what was read, and the time of the claim, which is taken
\* in the same turn.
AssertUsable(c) ==
  /\ pc[c] = "assert"
  /\ \/ /\ seen[c] # None
        /\ Answer(c, "quote_consumed")
        /\ UNCHANGED <<now, stamp>>
     \/ /\ seen[c] = None /\ quote.expiresAt <= now
        /\ Answer(c, "quote_expired")
        /\ UNCHANGED <<now, stamp>>
     \/ /\ seen[c] = None /\ quote.expiresAt > now
        /\ Goto(c, "claim")
        /\ now' \in Times \cap now..(now + Slip)
        /\ stamp' = [stamp EXCEPT ![c] = now']
        /\ UNCHANGED answer
  /\ UNCHANGED <<quote, consumedAt, seen>>

\* updateMany matched the row.
Win(c) ==
  /\ Goto(c, "claimed")
  /\ consumedAt' = IF c \in InTransaction THEN consumedAt ELSE stamp[c]
  /\ UNCHANGED <<now, quote, callVars>>

\* Mutant: consumedAt is not in updateMany's where.
ClaimUnguarded(c) == pc[c] = "claim" /\ RowHolders = {} /\ Win(c)

\* Mutant: the row is not locked.
ClaimUnlocked(c) == pc[c] = "claim" /\ consumedAt = None /\ Win(c)

\* Mutant: the time is taken when the row is written.
ClaimTimedLate(c) ==
  /\ pc[c] = "claim" /\ RowHolders = {}
  /\ \/ /\ consumedAt = None
        /\ Goto(c, "claimed")
        /\ consumedAt' = IF c \in InTransaction THEN consumedAt ELSE now
        /\ stamp' = [stamp EXCEPT ![c] = now]
     \/ /\ consumedAt # None
        /\ Goto(c, "lost")
        /\ UNCHANGED <<consumedAt, stamp>>
  /\ UNCHANGED <<now, quote, seen, answer>>

\* updateMany, once the row's lock is free: whoever committed first has it.
Claim(c) ==
  /\ pc[c] = "claim" /\ RowHolders = {}
  /\ \/ consumedAt = None /\ Win(c)
     \/ /\ consumedAt # None
        /\ Goto(c, "lost")
        /\ UNCHANGED <<now, quote, consumedAt, callVars>>

\* The second findUniqueOrThrow finds the claim of this call.
Given(c) ==
  /\ pc[c] = "claimed"
  /\ IF c \in InTransaction THEN Goto(c, "given") /\ UNCHANGED answer
                            ELSE Answer(c, "quote")
  /\ UNCHANGED <<now, quote, consumedAt, seen, stamp>>

\* Mutant: the exception is made of the first read.
LoseUnread(c) ==
  /\ pc[c] = "lost"
  /\ Answer(c, "quote_consumed")
  /\ UNCHANGED <<now, quote, consumedAt, seen, stamp>>

\* Mutant: a call that lost tries again.
LoseRetrying(c) ==
  /\ pc[c] = "lost"
  /\ Goto(c, "claim")
  /\ UNCHANGED <<now, quote, consumedAt, callVars>>

\* Or that of the call that was first.
Lose(c) ==
  /\ pc[c] = "lost"
  /\ seen' = [seen EXCEPT ![c] = consumedAt]
  /\ Answer(c, "quote_consumed")
  /\ UNCHANGED <<now, quote, consumedAt, stamp>>

\* The caller's transaction ends well; the acknowledgement may be lost.
Commit(c) ==
  /\ pc[c] = "given"
  /\ consumedAt' = stamp[c]
  /\ \E what \in {"quote", "error"} : Answer(c, what)
  /\ UNCHANGED <<now, quote, seen, stamp>>

\* A statement fails, or what the caller does next: a transaction is rolled
\* back, a claim on its own stays.
Fail(c) ==
  /\ pc[c] \notin {"idle", "ended"}
  /\ Answer(c, "error")
  /\ UNCHANGED <<now, quote, consumedAt, seen, stamp>>

Proceed(c) ==
  \/ AssertUsable(c)
  \/ Claim(c)
  \/ Given(c)
  \/ Lose(c)
  \/ Commit(c)

Next ==
  \/ Tick
  \/ \E k \in Asks : CreateQuote(k)
  \/ \E c \in Callers :
       \/ Read(c)
       \/ AssertUsable(c)
       \/ Claim(c)
       \/ Given(c)
       \/ Lose(c)
       \/ Commit(c)
       \/ Fail(c)

Spec == Init /\ [][Next]_vars

\* PostgreSQL answers a statement whose row is free; transactions end.
FairSpec == Spec /\ \A c \in Callers : WF_vars(Proceed(c))

-----------------------------------------------------------------------------
\* What each variable holds; the row's lock has one holder, and none once the
\* quote is consumed.
FxTypeOK ==
  /\ now \in Times
  /\ quote = None \/ /\ quote.expiresAt \in Lock..(now + Lock)
                     /\ quote.targetAmount \in Nat
  /\ consumedAt \in Times \cup {None}
  /\ pc \in [Callers -> Steps]
  /\ seen \in [Callers -> Times \cup {None}]
  /\ stamp \in [Callers -> Times \cup {None}]
  /\ answer \in [Callers -> Answers]
  /\ \A c, d \in RowHolders : c = d
  /\ RowHolders # {} => consumedAt = None

\* "A rate lock is single use" (fx.service 53-57): of all the calls one is given
\* the quote for good, and its claim is the one on record.
GivenOnce ==
  \A c \in Callers : answer[c] = "quote" =>
    /\ consumedAt = stamp[c]
    /\ \A d \in Callers : answer[d] = "quote" => d = c

\* A call is told 1032 of a claim that is committed and with its time
\* (fx.service 104-114), also when it had to wait for it, and 1031 only past
\* the window.
RefusalsAreTrue ==
  \A c \in Callers :
    /\ answer[c] = "quote_consumed" => consumedAt # None /\ seen[c] = consumedAt
    /\ answer[c] = "quote_expired" => quote.expiresAt <= now

\* The time on record is within the window, but for what passes between two
\* lines, however long the claim waited to be written (fx.service 70-73, 89).
ConsumedInWindow ==
  consumedAt # None => consumedAt < quote.expiresAt + Slip

\* A quote is worth its source amount at the rate, to the nearest minor unit,
\* half a unit up (fake-fx.provider 36-45).
TargetIsNearest ==
  quote # None =>
    LET exact == quote.sourceAmount * Rate(quote.source, quote.target)
    IN  /\ 2 * quote.targetAmount * Scale <= 2 * exact + Scale
        /\ 2 * exact < 2 * quote.targetAmount * Scale + Scale

\* A call that was begun ends, also when it waits for another's transaction.
CallsEnd == \A c \in Callers : pc[c] # "idle" ~> pc[c] = "ended"
=============================================================================
