# Verification of the payment API

TLA+ models of the payments API in `src/` (NestJS, PostgreSQL through Prisma,
Redis through BullMQ), the TLC runs that check them on small instances, and the
proofs TLAPS checks for every instance. The models are translated from the
code; the documents were used only to learn what the code is meant to promise.

## The system

A partner creates a *payment*; a provider later reports it paid, expired or
failed through a signed *webhook*; a queued job applies the event, and a paid
one credits the partner's *wallet*, with an entry in an append-only *ledger*.
The partner spends the wallet with *payouts*, which hold the money when they are
requested and debit it when a queued job confirms them. Everything runs in one
Node process (`docker-compose.yml`, service `api`): HTTP handlers and both
workers interleave at every `await`, and more processes may be started.

| component (source under `src/src`) | state | operations | interacts through |
|---|---|---|---|
| balances (`balances/balances.service.ts`) | `partner_balances`, `balance_ledger` | `creditPayment`, `debit`, `reserve`, `release`, `confirmDebit` | called inside the caller's transaction; row and index locks |
| webhook intake (`webhooks/webhooks.service.ts`) | `webhook_events` | `acceptPaymentWebhook` | inserts a row and adds a job in one transaction |
| settlement worker (`webhooks/process-payment-webhook.processor.ts`) | `payments.status`, `webhook_events.processed_at` | `process` → `markPaid`, `markStatus` | takes jobs; credits through balances; reads splits |
| payouts (`payouts/`) | `payouts` | `create`, `process` | reserves, then adds a job; the job confirms or releases |
| money queues (`common/queue.config.ts`) | jobs in Redis | add, take, complete, fail, stall | BullMQ, 5 attempts, failed jobs kept |
| payments (`payments/`) | `payments` | `create`, `find`, `list` | charges at the provider, then inserts |
| idempotency (`idempotency/`) | `idempotency_keys` | `run` | wraps the creation of payments and payouts |
| splits (`splits/`) | `payment_splits` | `define`, `assertValidForSettlement` | read by the settlement worker |
| FX (`fx/`) | `fx_quotes` | `createQuote`, `consume` | none yet calls `consume` but tests |
| webhook signature (`common/webhook-signature.ts`, guard) | – | sign, parse, verify | before the intake |
| reconciliation (`cli/reconcile.ts`) | – | compares wallets and ledger | run by hand |
| API-key guard, exception filter, bootstrap, Prisma wiring, seeds | – | – | – |

What is hard here: transactions under READ COMMITTED whose reads do not lock;
statements whose locks decide who waits for whom; a job queue that may give one
job to two workers (a stalled one goes on) or run it again; jobs that are added
before, or after, the commit they belong to; a crash between two steps.
`PROJECT.json` lists each such hazard at its line with the properties that cover
it, or why none does.

## Modules

| module | models | abstracts |
|---|---|---|
| `Ledger` | each `BalancesService` operation as one atomic step, with its guard and its once-per-reference rule; the reconciliation's comparison | amounts are any integers; an entry is its (reference, direction) |
| `Balances` | the same operations statement by statement in concurrent transactions | one column `after` for `balance_after`; descriptions and dates left out |
| `PaymentStates` | `payment-state-machine.ts` | – |
| `JobQueue` | a BullMQ queue under `MONEY_JOB_OPTIONS` | backoff delays: a job that waits for its next attempt may be taken at any time |
| `Settlement` | webhook intake and settlement worker; extends `Ledger` and `JobQueue` | a payload either matches what was charged or not; splits of a payment either add up or not |
| `Payouts` | payout requests and payout worker; extends `Ledger` and `JobQueue` | destination, failure texts |
| `Idempotency` | `IdempotencyService` around a creation that is one step | a body is its hash, a response the resource it names |
| `Checkout` | the two creations it wraps, in their steps: charge and payment row, payout transaction and job; extends `Idempotency` and implements it | what a creation does to wallets (`Payouts`) |
| `Splits` | concurrent definitions of a payment's lines, and the settlement that reads them | the payload that settles is given; an event is applied once or expires |
| `FxQuotes` | the price of a quote, and concurrent calls that consume it | `GET /fx/quotes/:id`, which only reads |
| `MCBalances`, `MCSettlement`, `MCPayouts`, `MCCheckout`, `MCSplits`, `MCFxQuotes` | instances for TLC | – |
| `LedgerProofs` | theorems of `Ledger`, lemmas on its operations and totals | – |
| `QueueProofs` | lemmas of `JobQueue` | – |
| `CheckoutProofs` | theorems of `Idempotency` and of `Checkout` | – |
| `BalancesProofs`, `SettlementProofs`, `PayoutsProofs`, `SplitsProofs`, `FxQuotesProofs` | theorems | – |

**Ledger.** `available` and `pending` are the two columns of a wallet
(*account*); `credits` and `debits` are the references that have an entry of
that direction. `Reserve` and `Release` write no entry; `CreditPayment`, `Debit`
and `ConfirmDebit` write one, once per reference. A caller sees a guard `CanX`
that is false as a `DomainException`.

**Balances.** A *session* is one caller's transaction: `Begin` (with the amount
check), `EnsureRow` (`ensureBalanceRow`), `Claim` (`INSERT INTO balance_ledger
... ON CONFLICT DO NOTHING`), `Move` (the guarded `UPDATE`, and the `DELETE` of
the claim when it moves no row), `Stamp` (`balance_after`), `Release` (what the
payout job does on a refused confirmation), `Commit`, `Rollback`. Row and index
locks are in the guards: an `UPDATE` waits while another session holds an
uncommitted version of the row, an `INSERT` while another that inserted the same
key has not ended (`inserted`), also when it has given its claim back. `Abstract`
maps the committed tables to `Ledger`.

**Settlement.** A *delivery* is one POST of an event; it also names the row it
inserts and the job that carries the row's id. `Insert`, `Enqueue` and
`CommitRow` are the three steps of `acceptPaymentWebhook`, `Abort` its failure
after any of them. A worker goes `Take` → `ReadEvent` → `ReadPayment` →
`Settle` → `Complete`: the reads are steps of their own because they lock
nothing, while all the writes take effect with the commit in `Settle`, which
writes the status decided in `ReadPayment` whatever the row holds by then.
`Fail` may strike at any point, after the commit too (a commit whose
acknowledgement is lost); `Crash` and `Stall` are the queue's. `markStatus`
reads the payment a second time before its write; the decision of the model is
made on the last read, the one that counts. A payment of an unknown id cannot
have an event: the row's foreign key refuses it.

**Payouts.** `Create` is the transaction that inserts the row and reserves,
`Enqueue` the `queue.add` after it, `LoseRequest` every way it can be lost. A
worker goes `Take` → `LockPayout` (`SELECT ... FOR UPDATE` and the read under
it) → `Confirm` → `Complete`. `Confirm` has the failure branch with its release.

**Idempotency.** A request goes `Start` (the insert of the key's row decides who
executes) → `Create` or `Return` (of a payment that exists) or `Throw` →
`Persist` (the response is saved in the row), or → `Undo` (the row of a payout
is deleted, that of a payment is not); one that finds a row goes → `Lookup`
(`onExistingKey`) and from there to its answer, to executing with the UUID the
row retains, or to `Poll` and `Timeout` (`waitForSnapshot`). Every statement may
fail, or commit and fail all the same (the connection is lost). A resource is
named by the request that drew its UUID. `expires_at` is written and never read,
so keys do not expire. Rows are compared by the hash of the body alone, never by
the endpoint, and `{amount, currency}` passes the DTOs of both: `destination` is
refused by the one for payments and validated but not required by the one for
payouts. So a key used at both endpoints may match (`Retain` says which endpoint a
request goes to, `Destined` which bodies have a destination). A payout without one
gets past the insert of the key's row and then throws (`payouts.service.ts:53`):
`Create` is not for it.

**Checkout.** `stage` is how far an execution got. A payment: `Charge`
(`createCharge` with the payment's UUID, which the provider creates or finds),
then `InsertPayment` (the row, or the one its P2002 leads to). A payout:
`InsertPayout` (row and hold, one transaction), then `Enqueue` (`queue.add`).
`Succeed` lets the wrapper go on with the response, `Fail` is an exception after
any of these, the timeout of a call that was carried out included, and `Wrap` is
every other step of `Idempotency`. `ImplementsIdempotency` maps a creation to
`Create` and what surrounds it to stuttering.

**Splits.** A definition goes `Read` (the payment, without a lock) →
`StartDelete` (the DELETE's snapshot: the lines committed by then, in whatever
order its plan comes to them) → `DeleteLine` for each of them, which waits while
another definition has deleted the line and skips it if that one commits →
`EndDelete` → an insert per line, `Add` or `Refuse`, which
waits for whoever holds its party in the unique index → `Commit` or `Rollback`.
`BreakDeadlock` is PostgreSQL's, for definitions that wait for each other, be it
in a DELETE or in an INSERT. The
settlement goes `ReadLines` → `Settle`, or `Expire`, with `Retry` for a run that
fails in between: one worker, as `Settlement` models what two of them do.

**FxQuotes.** `CreateQuote` prices a quote with `Convert`, in integers scaled by
`Scale`. A call goes `Read` → `AssertUsable`, which draws the time of the claim
in the same turn of the event loop as it compares the expiry, at most `Slip`
later → `Claim`, an
UPDATE that waits for the row's lock and looks at `consumed_at` again → `Given`,
or `Lose` with the exception it makes of what it reads again. A caller with a
transaction commits or rolls back afterwards; one without has committed with
`Claim`. `Fail` may strike each statement. Rates of the provider's table have
three decimals that are not zero, so `Scale` 1000 computes what 10^6 does in the
code; `Number()` is taken to be exact, as it is below 2^53.

## Runs

| run | instance | shows |
|---|---|---|
| `MCBalances` | 1 wallet, 2 payments (one of amount 0), 1 payout, 3 sessions, 4 transactions | concurrent transactions implement `Ledger`; one entry per reference and direction; confirmations stamp the running total; every transaction ends |
| `MCBalancesStamp` | the same, second payment of amount 1 | **violated**: a credit stamps `available` only |
| `MCSettlement` | 1 worker, 2 deliveries (paid, a late expiry of it), 2 attempts, 1 stall, fairness | `PaidIffCredited`, `ClosedForGood`; jobs end; accepted events settle or leave a failed job |
| `MCSettlementPair` | 2 workers, 3 deliveries: a settlement, its redelivery, a settlement of a wrong amount | one row per event, wallets match the ledger, marks follow effects, credits are backed |
| `MCSettlementLost` | 1 worker, 1 delivery race | **violated**: an accepted event whose job has completed without it |
| `MCSettlementRace` | 2 workers | **violated**: a closed payment is reopened |
| `MCPayouts` | 2 workers, 1 credit of 3, payouts of 2, 2 and 1 (two share an external id), 2 attempts, 1 stall, fairness | holds cover the queued payouts, completed iff debited, none fails, answered ones end |
| `MCCheckout` | 4 POSTs of a payment under one key, of two bodies; 2 of a payment and 3 of a payout under another, one of the payouts of the payments' body; 1 of each without a key | successes agree, match the body and are whole; a payment's key makes one payment and one charge and can always be resumed; a payment waits only for a payout; nothing is created after a success; `Checkout` implements `Idempotency` |
| `MCCheckoutPayout` | 2 POSTs of one payout | **violated**: a payout's key creates two payouts |
| `MCSplits` | 4 definitions: two of the same parties in opposite orders, one of another party, one of a wrong sum; a settlement or an expiry; fairness | stored lines are of whole definitions; several side by side only if they overlapped; only then is a settlement refused; definitions end |
| `MCSplitsLate` | 2 definitions | **violated**: the lines of a closed payment change |
| `MCFxQuotes` | 3 calls (2 in transactions), a window of 2 ticks of 3, a slip of 1, 5 conversions, fairness | one call is given the quote; refusals are true; the recorded time is in the window, or a slip past it, however long the claim waited; conversions are to the nearest unit; calls end |

**Why the bounds are enough.** The amounts make the second payout of a wallet
fail and the third fit; two workers are what a race takes; three deliveries are
an event, its redelivery and a rival; three sessions let one wait for another
that waits for a third; four payments of a key are one that fails, two that
resume it at once and one of another body; the key of both endpoints has two
payouts of a body, payments of another, and a payout of theirs.
Four definitions are a deadlock, an overlap without a common party and a
refused one; three calls of `consume` are a holder of the row, a transaction
that waits for it and a call that commits alone; the clock passes the end of the
window. `Attempts` is 1 or 2 where the code has 5: what matters is that a job is
tried again and that attempts run out. The conversions are a tie, a result below
one unit, a pair without a rate and equal currencies. `MaxCalls` bounds the
transactions begun in `Balances` and `MaxTime` the clock of `FxQuotes`; nothing
else is bounded, and the proofs have none of the small sets.
`CHECK_DEADLOCK FALSE` is given where all work may be done; `Balances` has
`Finished` instead and is checked for deadlock, which is how a lock cycle would
show.

**Symmetry** is used where a run has no liveness property and its members are
alike: the workers and the two deliveries of one event (`MCSettlementPair`), the
requests of one key and body (`MCCheckout`). `MCCheckout` has action properties
and a refinement, of single steps, which symmetry does not affect. Its
constraint `OneGroup` lets one key's requests run at a time: requests without a
common key share no row, no charge and no job.

**Fairness.** Weak fairness of a request being handled (the handler either goes
on or fails; Prisma's transaction timeout sees to it), of a worker (Node runs
what is ready; a lock it waits for is released by its holder), and of the
stalled check *for a job whose worker died* only (BullMQ runs it every 30
seconds): a job whose worker is merely slow need never be found stalled.
No fairness is assumed of partners, providers or failures. In `Balances` nothing
forces a rollback of a healthy transaction, so `EveryTransactionEnds` is about
locks, not about timeouts. A definition of splits, once begun, gets on, and the
database breaks its deadlocks; a call of `consume` that may go on does
(`Proceed`); neither is forced to begin.

## What the violated runs show

* `MCSettlementLost`: `webhooks.service.ts:30` adds the job before the row is
  committed. A worker that looks at once finds no row, returns, and the job is
  complete; the row commits, the provider is answered 200, and no redelivery
  will help (1042). `AcceptedEventsSettle` therefore leaves out the deliveries
  whose row was looked for too early (`readEarly`).
* `MCSettlementRace`: the payment is read without a lock and updated by id, so
  two workers may both close it. It takes a second process, or a worker that
  stalled and goes on. Money stays consistent with the ledger all the same
  (`MCSettlementPair`), but a payment may end EXPIRED and credited.
* `MCBalancesStamp`: `balance_after` is the available money on credits and
  debits, and available plus pending on confirmations.
* `MCCheckoutPayout`: `idempotency.service.ts:76` deletes a payout's key on any
  error, also when the payout is committed and only its `queue.add` failed
  (`payouts.service.ts:69`), or only the update of the snapshot. The client's
  retry under the same key reserves again, and the first payout keeps its hold
  without a job (`Payouts!LoseRequest`). `ReplaysAgree` and
  `NothingAfterAnAnswer` therefore exempt a payout's key after a request of it
  was told that it failed. Payments retain the key and have no such exemption.
* `MCSplitsLate`: `splits.service.ts` reads the payment's status in its
  transaction without a lock (line 16), so a definition that saw it PENDING may
  replace the lines after the settlement has read them, or after it has
  committed. The lines of a PAID payment are then not those it was settled on.

Four things the models agree on with the code, and a reader may not expect:

* Two definitions without a common party that overlap are both stored: the
  DELETE of neither finds the other's lines, and no index makes them meet. The
  lines then sum to twice the amount, and the settlement that reads them fails
  the payment, which was paid (`DoubledOnlyByOverlap`, `FailsOnlyOnDoubledLines`).
  With a common party one of them is refused instead (`CommonPartySettles`).
* `Docs/modulos/fx.md:10` says that expiry is checked first, so that an expired
  quote still reports 1031. `assertUsable` looks at `consumed_at` first
  (`fx.service.ts:85`), so a quote that is consumed and expired is answered 1032.
  Both answers are true of it, which is what `RefusalsAreTrue` says.
* A payment whose `external_id` another payment has is refused only after its
  charge: the P2002 has no row of its UUID to return and is rethrown, with the
  key kept. `ChargesAreRecoverable` says that the charge keeps its key's UUID,
  not that such an insert will ever succeed.

* A key used at both endpoints is not refused when the bodies are equal, because
  `idempotency.service.ts:93` compares bodies only. A payout's POST is then answered
  with the payment (`{amount, currency}` is a body of both), and a payment's waits
  for the response of a payout that lacks its destination and cannot be created.
  `PaymentsWaitForPayoutsAlone` says that nothing else makes a payment wait.

## Proofs

`LedgerProofs`: `LedgerSpec => []WalletMatchesLedger` and `[]NeverOverdrawn`, by
`LedgerInv`. Totals are cardinalities of sets of *units* (`Ledger!Units`), so
that "adding a reference adds its amount" (`TotalAdd`) needs no induction. One
lemma per operation is used again by the modules that call them.

`QueueProofs`: `QueueInv` is kept by each operation of the queue. The types alone
are not inductive: a job that may still run has attempts and stalls left, one
that failed has used them, and one that is active is some worker's. `JobMoves`
lists how a job may change in a step, from which `KeptFacts` (a job that was
added and has not completed is `Kept`: it waits, or is in a worker's hands, or
failed with its tries used) and `EndedStays`. `MovesLeft` is a natural number that
every taking, failure and stall of a job lowers (`JobCountsDown`).

`BalancesProofs`: concurrent transactions implement `Ledger`
(`BalancesImplementLedger`), so that what `LedgerProofs` proves of the atomic
operations holds of the tables the statements commit: `TablesConserveMoney` says
so of what the reconciliation compares. The lemmas of `LedgerProofs` come through
`INSTANCE`, with the committed tables for its variables, and not through a second
proof.
`Wrote` says what a session has written as a function of the statement it runs next and of the committed
row: nothing, the empty row it inserted, or what the operation makes of the
wallet. That the committed row is still the one the UPDATE saw when the session
commits is `LocksInv`, one session with a version of a row at a time; that the
key it claimed is still new is `ClaimsInv` and `FreshInv`, which rest on `KeysInv`:
who inserted a key keeps it to itself until it ends. A commit then adds one
operation of `Ledger`, or none; every other step changes no committed table.
`ConfirmationsStampTheTotal` needs both sides: the stamp is what the wallet holds
when the confirmation commits, since its session has kept the row locked from the
UPDATE on, and what the wallet holds is the net of the entries up to that commit.
`LocksAreOrdered` ranks the sessions by what they hold: one that waits does so
for one of a higher rank (the inserted row, then the key, then the moved row), so
that no set of them waits in a circle (`TransactionsNeverDeadlock`). It is why
`EveryTransactionEnds` holds, for any number of sessions.

`SettlementProofs`: `Inv` is inductive for any number of deliveries, workers,
attempts and stalls. Next to the invariants TLC checks it says that an open row
has a payment and no twin (`RowsInv`), that a worker past the row has seen it
committed (`WorkersInv`), and that a decision rests on the event or on a payment
that is closed for good (`DecisionsInv`): without that last one a job that
decides to change nothing could mark the row of a payment still open.
`ApartPaymentsSettleRight` says what it takes for `PaidIffCredited` and
`ClosedForGood`, with any number of workers: that no two of them are between their
read of one payment and the end of the transaction that writes it
(`OnePerPayment`, a hypothesis on the behaviour). `AloneInv` then adds that a
payment a worker is about to close is still PENDING. A single worker, which is
what is deployed, sees to it (`OneWorkerPaysOnce`, `OneWorkerClosesForGood`); so
would a read that locks the payment's row, with any number. With two workers and
the code's read it fails, as `MCSettlementRace` shows.
`SettlementImplementsLedger` says that intake, workers and queue change the money
only by operations of `Ledger`. `SettlementKeepsEvents` is the safety of
`AcceptedEventsSettle`: `JobsInv` says that the job of an accepted event is there,
and that it completes only with the row marked or when it was looked for too
early. `SettlementEndsJobsOnce` is the queue's `EndedStays` under every step, and
`SettlementJobsRunOut` its `JobCountsDown`, the safety of `JobsEnd`.

`PayoutsProofs`: `HoldsCoverQueued`, `CompletedIffDebited` and `NoPayoutFails`
are inductive only together, with the row lock (`WorkersInv`): a hold is there
because the payout is still QUEUED, it is still QUEUED because only the lock's
holder closes it, and it never fails because the hold is there.
From them, with what `LedgerProofs` says of totals, what a partner can spend is
his credits less his payouts that are queued or completed
(`PayoutsLeaveTheRest`). `PayoutsImplementLedger`, `PayoutsKeepAnswered` (the
safety of `AnsweredPayoutsEnd`), `PayoutsEndOnce` and `PayoutJobsRunOut` are what
the settlement has too: a payout that was answered and is not completed has a job
that is `Kept`.

`CheckoutProofs`, keys: the key's row carries the argument. A request that executes
finds its row there, of its own body, and executes with the UUID of the request
that inserted it (`ExecutorsInv`); a snapshot names that UUID (`RowsInv`); what a
client was told is in the row for good, unless a payout failed (`AnswersInv`). So
a payout executes alone under its key, and any number of requests may execute a
payment at once. A payment is never created in a payout's row, since a payout that
is created has a destination (`PaymentsInv`).
`PaymentsWaitForPayoutsOnly` holds of keys that are used at both endpoints too: a
payment's request waits for a response only if a payout's request of its key was
sent with its body, whose row retains nothing to resume, or has failed, since the
row that refused the payment's insert may have been that payout's and be gone when
it is read. For keys of one endpoint neither happens, and a payment never waits
(`PaymentsAlwaysResume`, which assumes `OneEndpoint`, and is false without it).
`KeyCreatesAgainAfterFailure` is what remains of the claim that
`MCCheckoutPayout` refutes: a key creates twice only after a payout of it failed.

`CheckoutProofs`, creations: every step of `Checkout` is one of `Idempotency` or a
stutter (`CheckoutImplements`), so the theorems about keys hold of the code's own
steps (`CheckoutKeepsKeys`). The invariant adds what a stage implies: a payment
past `Charge` is charged under its key's UUID, a payout past `InsertPayout` is
committed, and the row of a key that retains a UUID stays (`RetainedRowStays`).

`SplitsProofs`: `HoldsInv` and `PartiesInv` are the unique index (what an open
definition has inserted is of parties no other holds), `WholeInv` that a
definition's lines are stored all or none, for every snapshot a DELETE takes of
them, `MetInv` that definitions which stored lines side by side were open at once.
`SeenInv` that a line a DELETE did not find is of a definition it met. `SumInv`
turns that into sums: one definition's lines add up to the payment's amount,
since a definition of a wrong sum is refused before its DELETE.
A DELETE that is on its way has whole definitions behind and before it, taken
together (`WholeInv`); what it finds gone is gone as a whole.
`DefinitionsNeverStick` is the safety of `DefinitionsEnd`: locks are held only by
open definitions, so if all that are open wait, they wait for each other, which
PostgreSQL sees.

`FxQuotesProofs`: `StampInv` keeps the time drawn in `AssertUsable` in the window,
but for `Slip`, however late the claim is written, `SeenInv` what a call has read true of the
row, `WinnersInv` that one call has claimed or holds the row. `HalfUp` is the
arithmetic of the rounded division: twice the error is at most the divisor.

The assumptions are those the modules name: references are finitely many, with
fixed accounts and integer amounts (payouts' are positive, `create-payout.dto`),
`Attempts` is positive, `NoWorker` and `NoTask` are not workers and tasks,
`NoRow` and `NoClaim` neither wallets nor entries, a rate is an integer of `Scale`,
a payment's body has no destination, definitions of splits are finitely many.

Only model-checked: what is temporal under fairness (`AcceptedEventsSettle`,
`JobsEnd`, `AnsweredPayoutsEnd`, `EveryTransactionEnds`, `DefinitionsEnd`,
`CallsEnd`), since the prover reaches neither liveness nor ENABLED. For all but
`CallsEnd` a theorem has the safety they rest on, as said above; that the
remaining steps are then taken is left to TLC. For `CallsEnd` there is nothing to
add: the one call that holds a quote's row waits for none. The invariants and step
properties that the passing runs check are all proved.

## Plan

1. Settlement and payouts over one wallet in a single behaviour. Each extends
   `Ledger`, takes its effects from its operations and is proved to implement it,
   and `Balances` shows that concurrent transactions are such operations; what the
   composition would add is a payout that waits for a credit.
2. The settlement with a read that locks the payment's row, as a variant of
   `Settlement`: `OnePerPayment` would then be an invariant instead of a hypothesis.

## Not modelled

*Webhook signature*: the guard reads a header, recomputes a digest and compares;
it keeps no state and meets no other actor. Its grammar and its time window are
arithmetic on one call, which `webhook-signature.spec.ts` covers case by case; a
model of it would restate its conditions.

*Authentication, DTO validation (but for what it excludes), the exception filter,
bootstrap, seeds, generated code*: no state of their own and no interleaving.
Reads that change nothing (`list`, `find`, `listForPartner`) are left out, and so
are amounts beyond 2^53 in the conversion of a quote.

*Outside of the repository*: PostgreSQL, BullMQ and the provider are modelled as
the code uses them: READ COMMITTED row and unique-index locking in `Balances`,
`Settlement`, `Splits` and `FxQuotes`, locks and stalls in `JobQueue`, a charge
that is created or found by its UUID in `Checkout`. Redis is assumed not to lose
a job it accepted.
