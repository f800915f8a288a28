# MjengoOS in TLA+

MjengoOS runs construction projects for owners who are not on site: an escrow
account per project, milestones released against photo evidence, payment
requests, invoices, a supply chain and a site store, and an M-Pesa rail.  It is
a Next.js monolith in TypeScript over Prisma and SQLite: one Node process, no
threads, every request interleaving with every other at each `await`.

This directory specifies the parts of it that keep state others depend on: the
ledger and everything that posts to it, the supply chain from request to stock,
the offline outbox and its server, the M-Pesa rail with the job queue that
drives it, and the limiters in front of the login.  TLC checks the
specifications on small instances and TLAPS proves the main results for every
instance.

## The system

Paths are relative to the repository; the application is under `src/`, its
server under `src/backend/`.

| component | state | operations | interacts with |
|---|---|---|---|
| Ledger, `modules/ledger` | `LedgerTransaction`, `LedgerEntry`, `LedgerAccount` | post (with idempotency key), reverse, derive a balance | called by every money flow, inside the caller's transaction |
| Ledger tables, `prisma/migrations/14_ledger_invariants` | the same rows, and the maintenance switch | INSERT, UPDATE, DELETE under triggers and constraints | what the ledger relies on |
| Project money flows, `modules/wallet/service.ts`, `actions/money.ts` | `Milestone`, `PaymentRequest`, `EscrowWallet.balance` (a cache of the ledger), `Transaction` (report rows) | top-up, milestone create / evidence / request / decide, request create / decide / pay, reverse, journal | ledger, M-Pesa rail |
| Wallets, `modules/wallet/service.ts` | `Wallet`, ledger accounts; no stored balance | create, deposit, withdraw, transfer (natural keys) | ledger |
| Variation orders and the budget watch, `actions/money.ts`, `modules/jobs/handlers.ts` | `VariationOrder`, `Project.budget`, `Phase.budget` | submit, decide; `budget.check` | reads what the flows spent |
| Invoices, `modules/invoices` | `Invoice`, lines | create, edit, submit, dispute, decide, pay; three-way match | ledger, orders and deliveries |
| Supply, `modules/supply`, `lib/mjengo.ts` | `MaterialRequest`, `Approval`, `PurchaseOrder`, `OrderDelivery` | one status ladder each; claims inside transactions | approval rules, site store, invoices |
| Site store, `modules/inventory` | `StockMovement`, `InventoryItem.reorderLevel`, `StockCount` | receive, consume, return, damage, adjust, transfer, count, post a count | supply, offline outbox, notifications |
| M-Pesa rail, `modules/wallet/daraja*.ts` | intent and completion rows, an in-memory set of seen checkouts | push, callback, verification query, reconcile sweep | Safaricom (external), ledger, job queue |
| Offline outbox and sync, `src/frontend/lib/outbox.ts`, `api/sync.ts` | the browser's queue; `IdempotencyRecord` markers | enqueue, flush, retry; apply one item per marker | every action |
| Job queue, `modules/jobs` | `JobRecord` | enqueue, drain due jobs, retry with back-off, time out | reconcile sweep, watches, digests |
| Rate limiter, `lib/rate-limit.ts`, `lib/rate-limit-sqlite.ts` | token buckets | hit, check, sweep | every route |
| Login lockout, `lib/rate-limit.ts`, `lib/auth.ts` | trackers per account, and per account and source | check, fail, succeed, prune | login |
| Notifications, documents, draw packs, land, professionals, intelligence, reports, AI | records | create, read | best effort, or read-side |

What is hard about it:

- **A status is read, then written, with awaits in between.**  Most handlers
  check a row's status, then resolve the actor, then update the row by its id
  alone.  Some look again inside their transaction; six operations of the
  supply chain write by a conditional claim.  Where the two styles meet on one
  row, the claim protects nothing.
- **A figure is kept twice**: the escrow balance as ledger entries and as
  `EscrowWallet.balance`; the stock of an item as the sum of its movements and
  as what is on the shelf; the budget as a column and as the approved
  variations; an alert as sent and as due.
- **Retries are everywhere** - an offline client, a user who clicks twice, a
  provider that calls back twice - and each flow has its own natural key.
- **Markers are written after the fact**: the sync endpoint, the action
  endpoint and the M-Pesa callback apply first and record that they did later.
- **What is derived from the past is derived late**: a count is recorded hours
  after it was taken, a consumption when the phone is back online.
- **A job, once claimed, is never looked at again** if its process dies.

PROJECT.json lists these as hazards, at the lines where they bite.

## The modules

| module | what it is | extends |
|---|---|---|
| `AppendOnlyLedger` | the abstract specification: what the ledger promises | |
| `Ledger` | the posting core as operators: validation, replay by key, reversal marking, account sums | |
| `Escrow` | the money flows of one project | `Ledger` |
| `SerialEscrow` | the same flows, one request at a time or overlapping | `Escrow` |
| `Invoices` | invoices, paid through the spending helpers of `Escrow` | `Escrow` |
| `Wallets` | deposits, withdrawals and transfers | `Ledger` |
| `Money` | escrow flows, invoices and wallets over one ledger | `Invoices`, `Wallets` |
| `LedgerTables` | the ledger's two tables, statement by statement, under the triggers of migration 14 | |
| `Variations` | variation orders, the two budgets, the budget watch | |
| `OrderBook` | the abstract specification: what the supply chain promises of purchase orders | |
| `Procurement` | requests, approval chains, orders, deliveries and driver legs | |
| `Stock` | the stock equation and the low-stock rule, as pure operators | |
| `SiteStore` | movements, alerts, counts and receipts of one site store | `Stock` |
| `ThreeWay` | the match of an invoice against order and deliveries, while deliveries arrive | |
| `SyncServer` | the sync endpoint and the direct action endpoint, request by request | |
| `OfflineSync` | the device: outbox, drain, retries, conflicts, sign-in, reload | `SyncServer` |
| `Settlement` | the abstract specification: what the rail promises of payment requests and pushes | |
| `JobQueue` | the job table and its drains, for any handler | |
| `DarajaRail` | M-Pesa pushes, callbacks, verification and the sweep that runs as a job | `JobQueue` |
| `RateLimiter`, `Lockout` | token buckets; login attempts and their trackers | |
| `MCEscrow`, `MCMoney`, `MCOfflineSync`, `MCDarajaRail`, `MCProcurement` | the instances TLC checks | |
| `MCBackOffice` | the instance of all components that share no state | `MCProcurement`, `SiteStore`, `Variations`, `RateLimiter`, `Lockout`, `LedgerTables`, `ThreeWay` |
| `Escrow_proofs`, `Money_proofs`, `Procurement_proofs`, `SiteStore_proofs`, `OfflineSync_proofs`, `DarajaRail_proofs` | the theorems about the module they are named after (`Escrow_proofs`: and `SerialEscrow`) | |
| `BackOffice_proofs` | the theorems about the small components (limiter, lockout, ledger tables, variations, three-way match), and about the composition of all seven | `MCBackOffice`, `Procurement_proofs`, `SiteStore_proofs`, `SetInduction` |
| `SetInduction` | induction over the natural numbers, in a form the provers can use | |

Definitions marked *fault* are a neighbouring definition with a plausible bug
in it.  No specification uses them; they show that a property would notice.

One convention holds everywhere: the process runs one handler at a time up to
its next `await`, so what lies between two awaits that touch the database or
the network is one action, and a `db.$transaction` is one action.  A request
or a handler that is suspended is an entry of a function (`call`, `bill`,
`deciding`, `login`, `payer`, `proc`, `sweep`, `drain`) that says where it is
and what it has read so far.

### Ledger, LedgerTables and Escrow

`ledger` is the sequence of `LedgerTransaction` rows, each with its two legs,
and `sums` the SQL `SUM` per account.  `Post(key, lines, of)` is
`postLedgerTransactionInTx`: validate, answer a known key with the
transaction that has it, otherwise append, mark the original of a reversal,
and move the sums.  The database's own guards are part of it: a leg set that
does not balance cannot be posted, and a row that is already reversed cannot
be marked again.

`LedgerTables` is where those guards come from.  Its actions are single SQL
statements, in any order, by any writer; the conjuncts of each are the triggers
and constraints it meets, with the maintenance switch on or off.  `handled`
remembers which transactions were written to under maintenance, of which the
triggers promise less.  The pinned columns of a row are one value, its facts.

`Escrow` adds the rows the flows keep: the status of milestones and payment
requests, `paidTxnId`, the cached escrow balance, and the `Transaction` rows
the reports add up.  A handler is one action when it is one
`db.$transaction` with nothing read before it (`Topup`, `Journal`), and two
when it reads first: `ReadApprove` then `Release`, `ReadDecision` then
`WriteDecision`, `ReadPay` then `Pay`, `ReadReversal` then
`ReverseTransaction`.  `call[p]` is what request `p` read.  A check inside a
transaction that throws is an action of its own (`ReleaseRefused`,
`PayRefused`, `ReverseRefused`), which ends the call and changes nothing.

### Invoices, Wallets and Money

An invoice handler is split at its one wait: `ReadInvoice` remembers status
check and total, `WriteTransition` and `WriteInvoiceEdit` write by id, and
`PayInvoice` looks again inside its transaction before it spends through the
operators of `Escrow`.  `approved` records the totals the client approved, as
the handler read them.  `InvoiceOverlap` says which operations may be under way
together.

A wallet has no stored balance, and its operations are one transaction each.
The order inside matters and is kept: replay check first, then the balance.
`refused` is the movement that was last told "insufficient".

`Money` is their composition: one ledger, one projection, one table of rows.
The escrow properties of `Escrow` are proved of it again, since an invoice spends
from the same projection and a wallet posts to the same ledger.

### Procurement

`request`, `rungs` (the `Approval` rows of a request, oldest first), `order`
and `delivery` are the tables; `stocked` of an order adds up what its
deliveries put into the store.  `Suspend` starts an operation with what it
read; the claims (`cancelRequest`, `createOrder`, `dispatch`, `cancelOrder`,
`void`, `receive`) write only if their row is still in the right status and are
refused otherwise; the others write by id.  Handlers with several writes outside
a transaction have a step per write: the edit of a request (clear the lines,
then create them), its submission (rung by rung, then the status), a decision
(the rung, then the count, then the status).  `Crash` ends what is under way
between any two of them.

`Overlap` is the set of groups of operations that may be in flight together.
The server lets everything overlap (`MCAll`); `MCClaims` lets the claims run
against each other, and approvals, legs, edits and submissions against
themselves.  The two instances together say what the claims protect, and from
what they do not.

`OrderBook` knows an order as unplaced, open, stocked or cancelled, and the
requests that were taken.  `Book` maps the statuses onto that: what is dispatched,
voided, sent again, confirmed or closed in between is a stutter.

### Stock and SiteStore

`book` is what `deriveClosing` sums; the equation and the low-stock rule are
`Stock`'s operators.  A movement (`Record`) keeps book, inflow, level and alert
together, as one transaction does; the alert itself is sent by a step of its
own, after which the process may have died.  A transfer records both legs.

Beside the book stands the shelf, which no code reads: goods vanish (`Vanish`),
or are used while the device is offline (`UseOffline`) and recorded later
(`SyncUse`) or never (`DropUse`).  A count goes through `NoteCount` (somebody
counts), `RecordCount` (the server derives what the book said *then*) and
`PostCount` (the variance becomes an adjustment).

### Variations and ThreeWay

`Variations` has the decision split at its wait, both budgets moved in one
transaction, and the pace of the budget watch as the code computes it, in
tenths of a percent.  `ThreeWay` has the match as a recursive function over the
invoice's lines, each of which consumes an order line, and the deliveries that
arrive meanwhile; the match looks at the latest only.

### RateLimiter and Lockout

A bucket is a row with its tokens and its last refill; it refills when looked
at.  Tokens are counted in parts of 1/`Window`, so that the refill is a whole
number.  `allowed` remembers when hits were let through.

A login attempt is checked (`Check`), waits for the user row, and is recorded
as a failure or clears the counts: `login[a]` holds the two keys it is counted
under.  Window and lock-out are equally long in the code, and are one constant.

### SyncServer and OfflineSync

The route treats an action type in one of three ways, and each has one
representative here:

| kind | type | what protects it from a second application |
|---|---|---|
| `append` | `consumption.create` | the marker with the outbox item's id, and nothing else |
| `money` | `payment.pay` | the marker, a fingerprint of the payload, and the request's status inside the transaction that pays |
| `field` | `task.complete` | the marker, a fingerprint, the row's version and its status |

A request in flight is `call[c]`: its items, the step it has reached
(`lookup`, `check`, `apply`, `write`, `mark`, `print`, `refresh`) and whether
the device still listens.  When an answer is lost the device goes on (`Unheard`)
and the request stays, so an old and a new request work on one item; what an
unheard request would answer is forgotten (`Unlistened`), since nobody reads it.
`marks` and `prints` are the `IdempotencyRecord` rows by item id and by
fingerprint; `landed` counts how often an action took effect, up to two.

The device's variables are the store's: `outbox` and `item` (persisted),
`online`, `syncing`, the one retry timer `armed`, and `booting`, the wait for a
session after a load or an expiry.  Time is kept per item: its `nextAttemptAt`
is ahead or has passed.

### JobQueue and DarajaRail

A drain is one `POST /api/jobs/run`.  `List` is its one `findMany`, `Start`
the `running` update, `Succeed`, `Throw` and `TimeOut` the three ways a row
ends.  They write by row id and look at no status, as the code does.  A row's
`runAt` has come (`due`) or has not.  A row that has finished and that no drain
holds can become a new one: nothing reads it again.  `List` takes every due
row, in any order; the limit of ten and the order by `runAt` are left out.

`DarajaRail` composes it with one handler, `wallet.reconcile`:

- `payer[p]` is a run of `payPaymentRequest`: another rail pays at once
  (`PayDirect`); M-Pesa is asked for a push, whose answer may be lost
  (`PushAccepted`), then the intent row and the seed job are written, each of
  which may fail and is then passed over (`NoteFails`).
- `proc[p]` is a run of `processDarajaStkCallback`, for a webhook
  (`Handlers`) or inside a sweep (`Sweeps`): look up the callback record, ask
  the rail, find the intent, post in one transaction, write the callback
  record.  `seen` is the in-memory guard, lost with the process.
- `sweep[s]` is a run of `runDarajaReconcile`: scan the intents of the probing
  window, take them oldest first, probe at most `MaxProbe` of them, and
  schedule a follow-up if one is left unsettled and no sweep waits.
- `age[c]` stands for `createdAt` against the two limits the sweep uses:
  younger than *after-min*, in the window, older than *max-age*.  An intent is
  never older than one recorded before it.
- `Settlement` sees of all this what became of requests and pushes: `Desk` maps
  the status of a request, the pushes that succeeded, the entries under a
  checkout's key (`Credited`) and under a request's own (`Direct`), and the
  callback records.
- The customer answers a push or not; the rail then calls back, many times or
  never; a query may always fail, and confirms only what succeeded.
- Faults, `MaxFaults` of them: the process dies, a write or read throws inside
  a sweep, a sweep outlives its time limit (the row fails, the sweep goes on
  alone), a note of the pay call fails, a callback record fails.  `broken`
  remembers whether a fault cut a chain of sweeps for good.


## The runs

| run | instance | shows |
|---|---|---|
| `escrow` | two requests in flight, one milestone, one payment request, a top-up of 2 or 4 that may be retried | under every interleaving: the ledger refines `AppendOnlyLedger`; the cache never exceeds the ledger; no spend overdraws; released and paid have their money; each payment has one report row.  In the serial behaviours, with journals, the cache also equals the ledger and released and paid are final |
| `money` | one invoice of total 1 or 2, a top-up, two handlers at once; or two wallets | what is paid for an invoice was approved, once; wallets stay solvent; a movement that went through is not refused when it is asked for again; and of what all of them do together: the shared ledger keeps its promise, and the report rows name each payment and reversal once and nothing else |
| `back_office` | seven components, one of them per behaviour | the orders, store, budget, limits, table and match properties below |
| `outbox` | two payments of one request, or one edit of a task others edit, two requests in flight, one break | one payment is made; one loop at a time sends the outbox; an item leaves the queue as synced only if it is on the server; no marker is ahead of its effect |
| `outbox_retries` | a consumption and a payment, one automatic attempt, one break | a scheduled item is retried; the syncing flag always comes down |
| `rail` | one payment request, two pushes, one pay call, one decision, one callback, one sweep | only confirmed money is posted; it implements `Settlement`: the request is decided once and paid once, by money that came in before |
| `rail_sweeps` | one push, two sweeps, two faults, two attempts | a callback record has its money; the chain of sweeps holds; a payment whose callback is missed is booked |
| `outbox_double_post` | one consumption, two requests | **violated** `NothingLandsTwice`: it is recorded twice |
| `outbox_stuck` | one consumption, one break | **violated** `ReconnectSyncs`: a reload leaves it "syncing" for good |
| `rail_paid_twice` | as `rail`, one push, two decisions at once | **violated** `PaidOnce`: two payments under two keys |
| `procurement_stocked_twice` | one order, one delivery, everything overlapping | **violated** `StockedOnce`: a late leg re-opens a received delivery |
| `budget_silent` | one variation, spending up to twice the budget | **violated** `OverspendIsFlagged`: the watch stays silent |

A *break* of the outbox runs is a server restart in the middle of a request
nobody listens to, a page reload, or an expired session.  Three instances hold
more than one kind of behaviour, picked in the initial state and kept: `serial`
of `SerialEscrow` (one request at a time, with journals; or overlapping, without),
`half` of `MCMoney` (invoices; or wallets) and `focus` of `MCBackOffice` (which
component moves).  What they separate shares no state, or is asked a different
question.  `outbox` does the same with the constraint `OneJob`.

What `back_office` asks:

| component | property | in words |
|---|---|---|
| Procurement | `CancelledNeverStocked` | nothing was, or will be, received on a cancelled order |
| | `OrderPromise` | it implements `OrderBook`: a request becomes one order for good, an order is stocked once, within what it ordered, or cancelled, and neither is undone |
| | `SignedOff` | an approved request was signed by every role its lines ask for, and by no client if it is a client's |
| | `SubmittedIsDecidable` | without a crash, a submitted request always has somebody left to decide it |
| SiteStore | `BookExplained` | book minus shelf is what vanished or is not recorded yet |
| | `LowIsAnnounced` | an item that is low has had its alert |
| Variations | `BudgetIsApproved` | the budget is the original one and what was approved |
| RateLimiter | `BurstIsBounded` | no stretch of time lets through more than a full bucket and the refill of that time |
| Lockout | `GuessesAreBounded`, `LockIsKept` | failures are bounded by the limit and what is in flight; a lock is lifted early only by a success that was let in |
| LedgerTables | `RecordsBalance`, `HistoryIsFixed` | what is on record balances and does not change, outside maintenance |
| ThreeWay | `MatchIsRight` | a match that lists nothing is backed by order and delivery, and a backed invoice has nothing listed |

### What the violated properties say

- `NothingLandsTwice`: an append has only the marker of its item id.  The
  marker is looked up before and written after the append, and an action first
  sent directly is queued under an id that never had a marker.
- `ReconnectSyncs`: "syncing" is persisted, and every way to send an item again
  passes over it.
- `PaidOnce`: `decidePaymentRequest` writes "approved" over "paid" when it was
  read as pending before; the pay call and the callback then post under
  different keys.
- `StockedOnce`: a driver leg reads a delivery, the delivery is received, the
  leg writes "in transit" or "arrived" by id, and the delivery can be received
  again.
- `OverspendIsFlagged`: the pace is a hundredth of the percentage it is
  compared as.

PROJECT.json quotes, for each, the sentence of the repository that says otherwise.

These were met while modelling and are not runs of their own.  Each is kept out
of a passing run by the bound or the assumption named here, so the properties
do not hide them:

- Two approvals of one milestone: the second replays the posting and lowers the
  cached balance once more.  The cache equals the ledger in serial behaviours
  only (`SerialProjectionInSync`); of the others `ProjectionBacked` holds.
- Two drains that list one sweep row: one throws and sets it to "retrying",
  the other sees a waiting sweep, schedules none and marks that row "done".
  `rail_sweeps` has one drain.
- A late confirmation, driver leg or approval that writes over a claim:
  `Overlap <- MCClaims`.
- Two decisions of one variation order move the budget twice: one decider.
- A draft invoice edited while it is being submitted has another total than
  the one approved: `InvoiceOverlap` leaves the edit alone.
- An item counted over a count that is not settled, or while a use is still to
  be sent, is adjusted twice: such items are `muddled`, and `BookExplained` is
  about the others.
- A transfer overwrites the reorder level at its destination, which can make
  an item low without an alert: such items are `relevelled`, and
  `LowIsAnnounced` is about the others.

### Bounds, and why they are enough

*Escrow, Money.*  The prices (2 and 1) and the top-up amounts (2, 4) let the
milestone and the request compete for one top-up, and let both be paid twice
from a larger one.  Five transactions are enough for a top-up, both spends, a
reversal and the reversal of that reversal; four, in the serial behaviours, for
a journal in place of one of them.  Two requests in flight are enough for every
race between a read and a write, since no handler suspends more than once
between them.  Amounts 1 and 2 on two wallets let a deposit cover a withdrawal
twice, once or not at all.  One invoice and one wallet reference are what a
retry needs.

*Procurement.*  Two orders compete for one request, two deliveries are what an
order can be dispatched as, in parts of up to two lines' quantity, and two
suspended operations are a race.  One crash ends any of the handlers with
several writes.

*SiteStore.*  Two items are a transfer's source and destination, four movements
are a receipt, a use, a loss and the adjustment that finds it.  *Variations*:
impacts of -60, -49 and 20 on 100 reach below zero, just above it, and over.
*RateLimiter*: eight ticks are two full windows of three and a sweep.
*Lockout*: two sources attack one account, limit 2 is reached by attempts that
overlap, and six ticks hold a lock, its end and a second one.  *LedgerTables*:
three legs on two transactions, with amounts 0 and 1, are a balanced pair and
one too many.  *ThreeWay*: two goods billed up to twice on orders of up to two
lines, and two deliveries, of which the match sees the later.

*Outbox.*  Two requests are what one item can meet: the one the device gave
up and the one it listens to.  Versions up to two make a payload stale once.
`MaxAttempts` (3 in the code) is 1 where retries matter, so that the schedule
is both followed and exhausted, and 0 elsewhere: an exhausted item goes the way
of the Retry button.

*Rail.*  Two checkouts are two intents of one request.  One pay call at a time
still overlaps callbacks, sweeps and a decision, and makes all its pushes one after
the other.  `MaxProbe` (25) is 1, so that a second intent exceeds the
budget.  `MaxAttempts` (3) is 2 where faults are counted: a sweep can throw,
be retried, throw again and fail for good with two faults.  Two job rows hold a
running sweep and its follow-up; two sweeps hold an abandoned one beside its
successor.

### Fairness

*Outbox* (`FairSpec` of `OfflineSync`): weak fairness of each server step, of
hearing an answer, and of time passing for a scheduled item.  They are the
event loop, the network without a loss, and the clock; a lost answer is an
action of its own without fairness.  The timer step has strong fairness, since
the timer looks again every second while a drain is out, and so does not miss
every gap between two drains.  Users and connectivity have no fairness: a
scheduled item is retried *unless the device goes offline*.

*Rail* (`FairSpec` of `DarajaRail`): weak fairness of the pay call, sweep and
processor steps (the event loop), of drains (the scheduler that posts
`/api/jobs/run` every five minutes), of `runAt` passing and of an intent
becoming old enough.  Strong fairness of the confirming answer: a
query that is asked again and again answers in the end.  There is none on
leaving the window, on callbacks or on the customer; faults are bounded.  The
conclusion of `MissedCallbackSettles` names what may come instead: a fault that
cut the chain, the end of the window, or a request that was decided otherwise.

No liveness is claimed of the others: a user, a supplier or a driver may always
stop.  Their cfgs, those of the rail and of `outbox` say `CHECK_DEADLOCK FALSE`
because there the bounded system does stop: when every transaction, movement or
tick the bounds allow is spent and every row is in its last status.
`outbox_retries`, `outbox_double_post` and `outbox_stuck` check deadlock.

`OrderPromise` and `SettlementPromise` are checked in place of what they imply:
`OrdersAreCommitted` and `StockedOnce` of `Procurement` and `PaidOnce` of
`DarajaRail` are theorems, and the violated runs ask for the latter two where the
promise needs its assumption.  Likewise `ProjectionBacked` and
`SpendsAreBacked` are checked in `escrow` and proved of `Money` as a whole.

## What is proved

Every theorem is about any instance of the constants its module declares.  What
an assumption adds is stated with the theorem, and where it is needed a run or
the list above shows what happens without it.

### Escrow_proofs

1. `TypeCorrect`.  The type invariant carries one fact that is not about
   types: report rows and pending reversals point inside the ledger.  It is
   inductive because the ledger only grows.
2. `LedgerKeepsItsPromise`: `Escrow` implements `AppendOnlyLedger`.  A step
   that posts maps to `Record`, or to `Correct` if it reverses; a replay and
   every other step stutter.  The key lemma is `PostRefines`: `Post` appends
   one balanced entry under a fresh key and leaves the others alone.
3. `ProjectionAlwaysBacked`: cache <= ledger, if the journals leave the
   escrow account alone (an assumption of the theorem).  Inductive by itself:
   every flow moves both by the same amount, except a replayed spend, which
   lowers only the cache.
4. `SpendsAlwaysBacked` and `EscrowStaysSolvent` follow from it: a spend
   leaves the cache at 0 or more, hence the ledger too.
5. `DecisionsAlwaysHaveMoney` and `RowsAlwaysMatchLedger`: both rest on a key
   once posted staying posted by the same transaction (`PostedStays`), and the
   second on the row being looked up by its ledger transaction.
6. `SerialProjectionStaysInSync` and `SerialDecisionsStay`: of requests that
   are served one at a time, the cache equals the ledger (if the journals leave
   the escrow account alone) and released and paid are final.  `Alone` says why
   a spend then never replays: what the one suspended handler has read still
   holds (`ReadsHold`), and money is spent only on what is released or paid by
   now (`SpentIsDecided`), so a milestone that still waits for its approval has
   no posting yet.  Without the one-at-a-time clause the first fails in the run
   as soon as two approvals overlap.

### Money_proofs

1 to 3 are under `JournalsApart`: manual journals name no wallet's account.  5 to 7
are under `JournalsOffEscrow`: they do not name the escrow account.  The service
checks neither.  `PostEffect` says what a posting does to a ledger that others
post to as well; everything else is said in terms of it.

1. `WalletsAlwaysSolvent`.  A reversal mirrors a transaction, and would take
   back a deposit that has been spent, so the invariant has to know what can be
   reversed: `ProjectOK` says that report rows name transactions on the
   project's own accounts only, which rests on the kinds of the keys (a replay
   answers with a transaction of its own kind), and `CallsOK` that so does a
   reversal in flight.
2. `MovedIsNeverRefused`: `RefusedOK` keeps the refused movement without a
   transaction; nobody else posts under its key, and posting under it ends the
   refusal.
3. `InvoicesPaidAsApproved`, under `EditsAlone`: no draft is edited while
   another operation is under way.  `BillsOK` says that an approval in flight
   has read what the invoice still adds up to, `ApprovalOK` that an approved
   invoice's total is among the approved ones, `PaidOK` that every posting
   under an invoice's key is of such a total and has its row.  Rows are unique
   because they are looked up before they are created.
4. `MoneyKeepsThePromise`, under no assumption: `MoneySpec` implements
   `AppendOnlyLedger`.  `Flow` names what a step of any component can do to what
   they share: spend, top up, move money aside, reverse, or nothing
   (`MoneyFlows`).  So a step posts once or not at all, which is what
   `Escrow`'s refinement could not say of the flows it does not know;
   `PostingRecords` maps one posting to `Record`, `Correct` or a stutter.
5. `MoneyStaysBacked`: the cache never exceeds the ledger.  `Escrow_proofs` shows
   it of the project's own flows; here wallets and invoices post as well, and a
   reversal may mirror any transaction that has a row.  It is shown of `Flow`
   alone: each kind moves cache and ledger by the same amount (`PostMovesEscrow`),
   or, when a spend is a replay, only the cache, and down.
6. `MoneySpendsAreBacked` follows from it: no spend of a milestone, a request or
   an invoice takes more than the ledger holds.
7. `MoneyStaysSolvent`, too: only the reversal of a reversal, which checks no
   balance, can drive the ledger's escrow account below zero.
8. `MoneySpendingIsReported`, under no assumption: a report row is written for
   the transaction that a posting ended at, so a replay finds the row of the
   first run (`CountedPosting`), and what is not spending posts under a key that
   no spending has (`UncountedPosting`).
9. `MoneyDecisionsHaveMoney`, under no assumption: a milestone reads released and
   a request reads paid only after a posting under its own key
   (`NewDecisions`), and no other component takes a posting or a row away
   (`PostedStays`).

### Procurement_proofs

Under `ClaimsApart`: an operation that claims overlaps with claims only.
`ClaimInv` says of the operations in flight what they have read and what may
have changed since (`CallsOK`, `Apart`), of orders that each stands on a
converted request of its own and that only a delivered or closed one is stocked
(`OrdersOK`), and of deliveries that an order has at most one that is not
cancelled, whose status goes with the order's (`DeliveriesOK`).
`OrdersAlwaysCommitted`, `CancelledAreNeverStocked` and `StockedAtMostOnce`
follow from it, and so does `OrdersKeepTheirPromise`: `Procurement` implements
`OrderBook`.  A conversion maps to `Place`, a receipt to `Stock`, a cancellation
to `Cancel`, and every other step to a stutter (`BookStill`): the driver's legs,
voids and late status writes move an order only within its stage, because what an
operation holds of it is still true when it writes (`CallsOK`).  Run
`procurement_stocked_twice` shows that the assumption is needed.

Two theorems on the signatures assume `RequestsSerial` instead: an edit, a
submission, an approval or a rejection runs beside no other kind of operation
on requests.  Beside its own kind (two submissions, two approvals), and beside
everything about orders and deliveries, it may.  `SignInv` has three parts.
`RequestSigned`: once submitted, a request has a rung for every role its lines
ask for, and once approved each of them is signed; rungs are only ever added
while it is submitted, by role, so the chain's length is not enough.
`CallSigned`: how far a suspended submission has got (`c.row`), and that a call
about to write "approved" has counted only signatures, which nobody withdraws
while it waits.  `Decidable`: somebody is left to decide, or a decision has been
counted and is about to be written - a crash between the two is why the property
is about behaviours without one.

- `ApprovedAreSigned`: `SignedOff`, also across crashes.
- `SubmittedStaysDecidable`: `SubmittedIsDecidable`.
- `ProcurementTypes`: the type invariant, whatever overlaps.

### SiteStore_proofs

1. `StoreTypeCorrect`.
2. `BookAlwaysExplained`: `BookInv` adds to the property that an item which is
   not muddled has at most one count that is not settled.  A count's variance
   is what was missing when it was taken; the proof is that what goes missing
   later, or is recorded late, moves both sides of the equation.
3. `LowAlwaysAnnounced`: the alert rule fires exactly when a movement crosses
   the level, so a low item has crossed it since it last was not low.

### OfflineSync_proofs

No assumption beyond those of the module: any actions, payments, methods and
number of requests in flight, lost answers, reloads, expired sessions, restarts
and edits by others.  The invariant comes in two halves, the second proved
with the help of the first.

`DeviceInv` is about the queue and who listens.  `OneLoop`: the syncing flag is
up exactly while one loop is listened to.  `BatchesOK`: a direct call the device
listens to is the only one for its action.  `CarriedOK` and `ItemsOK`: what
`/api/sync` was given was queued once, and a queued edit names the version it
was written against.  What is left of the queue after an answer (`KeptOf`) is
shown by induction to be made of the queue's items.

`ServerInv` is about what was done and what is said of it.  `Paid`: a payment
that landed is paid with its method.  `Printed`, `Marked`: every fingerprint and
every marker is that of an action that landed.  `Writing`: a request that has
read a row before it writes is an edit.  `ResultsOK`: what a request is about to
answer with "ok" is on the server; it stays so until the answer is heard
(`OnServerStays`), because rows only grow and an action is given its base
version once.

- `OfflineTypes`, `DrainsAreOneAtATime` from the first half;
- `PaymentsAreMadeOnce`, `HistoryIsOnServer`, `MarkersAreApplied` from the second.

### BackOffice_proofs

- `TablesTypeCorrect`, `RecordsAlwaysBalance`, `HistoryIsAlwaysFixed`: the
  balance of a transaction is that of its legs (`LegsOf`), which a statement
  about another transaction does not touch; the posting gate is the only way
  to be on record, and no leg of a record can be added, changed or deleted.
- `LockoutTypeCorrect`, `LocksAreKept`, `GuessesAlwaysBounded`.  `GuessInv`
  bounds an unlocked tracker below the limit, and a locked one by the limit and
  the attempts that were in flight: each attempt out leaves room for its own
  failure.
- `RateTypeCorrect`, `BurstsAlwaysBounded`: `RateInv` says for every hit let through that it and
  those since, with what the bucket still holds, are at most a full bucket and
  the refill of the time between (`Paid`).
- `VariationTypeCorrect` and `BudgetIsAlwaysApproved`, the latter for finitely
  many variations and one decider, as the list above explains.  `DecisionHolds`:
  the variation the decider has read as submitted still is.  The sum of the
  approved impacts is a recursive function on sets that picks a member at each
  step; that it can take out any member (`SumTakesAny`), and depends on the
  members' impacts only (`SumsAgree`), is shown by induction on the number of
  members.
- `ThreeWayTypeCorrect` and `MatchIsAlwaysRight`, for invoices and orders of any
  length.  The loop over the lines has an invariant in both directions: an
  order line once taken stays taken and what was said stays said, so a match
  that lists nothing found each line a partner of its own; and if the invoice
  is backed, and the order names its lines apart, each line finds one when its
  turn comes.

- `OfficeTypeCorrect`: the composition that run `back_office` checks keeps all
  seven type invariants.  `OfficeRunsEach` is the reason the run may have its
  components side by side: seen from one of them, a behaviour of the whole is one
  of its own, so the theorems about it hold there too.
- `OfficeIsSafe` says so of everything else that run asks, under the assumptions
  of the single theorems together: `ClaimsApart`, `RequestsSerial`, finitely many
  variations, one decider.  The constants of the run satisfy them.

### SetInduction

The library states induction for a predicate, which the provers here cannot
instantiate.  `UpTo` and `NatUpTo` state it for a set of numbers instead: the
set of those a fact holds for.  They follow from the well-foundedness of the
naturals, and with them the module's recursive functions are shown to exist
and to compute what they are meant to.

### DarajaRail_proofs

1. `TypeCorrect`.  `TypeOK` is not inductive: a suspended call goes on with a
   request or a checkout it read earlier.  `TypeInv` adds that it holds one
   once it is under way, and `Confirmed`: a run of the processor is past the
   query only for a checkout that succeeded.
2. `MoneyIsNeverInvented`: from `Confirmed`, and the rail never taking a
   success back.
3. `RecordsFollowMoney`: `Backed` says that a run about to write the record
   has posted; it gets there only by posting (`MarkComesFromSettle`), and the
   ledger only grows (`LedgerGrows`).
4. `RequestsArePaidOnce`, if at most one decision is under way at a time.
   `PaidStays`: a posting's request is paid, and the deciding call holds a
   pending request; so every posting is the first of its request.  With two
   deciders the second half fails, and run `rail_paid_twice` shows the payment
   that follows.
5. `RailKeepsItsPromise`, under the same assumption: `DarajaRail` implements
   `Settlement`.  A settlement maps to `Credit`, a direct payment to `PayDirect`,
   the durable record to `Know`, and all of sweeps, drains, intents and faults to
   stutters.  `DeskInv` collects what the mapping needs: an approved request has
   no posting (`PaidStays`), and one under its own key or a checkout's could only
   be its own (`NamesOK`, `NoInventedMoney`), so a settlement that goes through
   never replays one; a run that is about to write the record has posted
   (`Backed`).
6. `ChainAlwaysHolds`, if at most one drain is under way at a time.  `ChainInv`
   follows an intent from hand to hand: the pay call that pushed it holds it
   alone until a sweep is scheduled (`PayersOK`); the row a drain handles is
   running, so its end is not that of a waiting one, and only one sweep runs for
   it (`QueueOK`); a sweep passes over an intent only if it is settled
   (`SettledOK`: what is in memory, and what a probe ended well with, is
   posted), and ends only with nothing left (`StagesOK`).  `SweepCovers` and
   `PayerCovers` say what that leaves to show of a step.  A second drain breaks
   `QueueOK`, as the list above explains.

### Only model-checked

- Liveness: `MissedCallbackSettles`, `ScheduledIsRetried`, `SyncingEnds`.  The
  prover does not reason about fairness.

## Not modelled, and why

PROJECT.json has the status of every component with its reason.  In short:

- *Components without behaviour of their own to check*: suppliers, catalogue,
  quotes and approval rules (single-row upserts; a rule reaches `Procurement`
  as the chain it yields), draw packs, notifications, land, professionals,
  documents, intelligence, reports and AI, the other job handlers (they read
  and write a report nobody reads back).
- *Gates*: roles, sessions, membership.  The flows are modelled for a caller
  who has passed.
- *Pure I/O and presentation*: the user interface, its dictionaries, USSD and
  WhatsApp menus, storage, uploads, PDF and image code, the generated API
  description, the marketing site, deployment.  They are most of the
  repository's lines.
- *Left out of the modules at hand*: the keyed replay of the action endpoint;
  the action types beyond the three representatives; the seed of the periodic
  reconciliation check, the limit of ten rows of a drain and the lengths of the
  back-off; the cap of the in-memory callback guard, the alert on a payment
  that matches no intent; several Node processes; reversal of rows from before
  the ledger; phase cost codes; `order.approve`, the driver and the departure
  stamp of a dispatch, notes and photos; the two-way comparison of invoices
  without an order; bills of quantities and unit costs.
