# Distributed Wagering Processor: TLA+ models, checks and proofs

The program takes bets, wins, losses, refunds and rollbacks, over HTTP and from
an SQS FIFO queue, applies them to player wallets in PostgreSQL, keeps a ledger
entry for every movement of money, and reports every change as an event through
a transactional outbox. This directory holds its formal models, the TLC runs
that check them on small instances and the TLAPS proofs that hold for all.

Paths below are relative to `src/src/` unless they begin with `src/`.

## 1. Inventory

| component | state it keeps | operations | talks to | what makes it correct |
|---|---|---|---|---|
| **Submit** (`wagering/application/use-cases/submit-wager-transaction.use-case.ts`) | rows of `wager_transactions`, `wallets`, `wallet_ledger_entries` | `execute`, `processNew`, `handleClaimConflict` | wallet and wager repositories, outbox; called by the HTTP controller and the consumer | one effect per idempotency key and per external id; no lost update; ledger sums to the balance; no deadlock among submits |
| **Finalisation rules** (`wagering/application/wager-transaction-finalizer.ts`, domain entities) | none (pure, but reads rows) | `resolveReference`, `applyEffect`, `classifyApplyFailure` | submit and retry | a reversal is of a processed transaction of the same owner, amount, permitted kind; at most one per kind |
| **Retry of pending references** (`wagering/application/use-cases/reprocess-pending-references.use-case.ts`) | the attempts, status and next retry of waiting rows | `run`, backoff | wager repository (`FOR UPDATE SKIP LOCKED`), wallets | every waiting row is decided after at most `MAX_REFERENCE_RETRY_ATTEMPTS`; several workers do not collide |
| **Open wallet** (`wallets/application/use-cases/open-wallet.use-case.ts`) | a wallet, its OPENING row and entry | `execute` | wallet repository | one wallet per player and currency, ledger starts with it |
| **Outbox publisher** (`messaging/outbox/`) | `outbox_messages` | `enqueue`, `run`, `markPublished`, `scheduleRetry` | the queue `wager-events.fifo` | nothing published is lost, copies only for a reason, eventual publication, order per aggregate |
| **Consumer and inbox** (`messaging/inbox/`, `wagering/application/use-cases/consume-*`, SQS) | `inbox_messages`; in the queue: visibility, receive count, DLQ | `receive`, `handle`, `delete` | SQS, submit | exactly one effect per message, none lost, poison isolated |
| **Worker scheduler** (`worker-scheduler.service.ts`, `shared/scheduler/`, `worker.module.ts`) | the timer and the running task of each loop | `startRepeatingTask`, tick, stop | the three batch use cases | a loop survives an exception, never overlaps itself, begins nothing after `stop` |
| **Reconcile, ledger pages** (`wallets/application/use-cases/`) | none | reads | ledger repository | a mismatch is never a hole in the books; pages miss nothing that was there |
| **Money** (`shared/kernel/money.ts`) | none | parse, format, add, subtract, compare | everything | exact decimals, non-negative, fits the column |
| **HTTP doors, guard, filter** | none | validate, translate errors | use cases | which commands may reach a use case at all |
| **Triggers** (`src/migrations`) | none | refuse updates and deletes of history | tables | history is append-only |
| health, metrics, logging, wiring | none | – | – | – |

How they interact: every write of a use case, its outbox rows and (for the
consumer) its inbox row are one PostgreSQL transaction at READ COMMITTED.
Everything else that concurrent processes do to one another goes through row
locks (`SELECT … FOR UPDATE` of a wallet, `FOR UPDATE SKIP LOCKED` of batches),
through the unique constraints of `wager_transactions` and `inbox_messages`, and
through the two FIFO queues. There is no lock in the processes themselves.

The hard behaviour follows from that: submits that wait for each other's wallet
locks and uncommitted inserts; batches that hold several rows and wallets in one
transaction; references read before the lock they need; a process that dies
between any two statements; sends whose answer is lost; messages that come back
while they are still being processed. `PROJECT.json` lists each hazard at its
line, with the properties that would notice it going wrong.

## 2. Modules

| module | stands for |
|---|---|
| `WagerDomain` | the pure rules: life cycle of a row, `resolveReference`, direction of a movement, `Wallet.debit/credit` with the width of the column, ledger entries, `applyEffect` |
| `Wagering` | open wallet, submit and retry as concurrent transactions; extends `WagerDomain` |
| `WagerBook` | the abstract specification: what the core promises to those who see only its tables |
| `WageringProperties` | what the wagering core promises, and the refinement `Book == INSTANCE WagerBook WITH …` |
| `WageringProofs`, `WageringLedgerProofs`, `WageringBatchProofs`, `WageringBookProofs`, `WageringTableProofs` | theorems about it |
| `MCWagering` | the small instances of it |
| `Outbox`, `OutboxProofs`, `MCOutbox` | publishers, table and queue of the outbox |
| `Relay` | the abstract specification of the outbox: what it promises to those who see its rows and the queue |
| `Consumer`, `ConsumerProofs`, `MCConsumer` | consumers, inbox, the SQS queue with its dead letter queue, and the end of a worker process |
| `Handling` | the abstract specification of the consumers: what they promise to those who see the inbox, the transactions and the queue |
| `Reads`, `ReadsProofs`, `MCReads` | reconciliation and ledger pages against concurrent commits |

### Wagering

State ↔ code. `wallets`, `txs`, `ledger` are the committed tables; `due` is the
condition `next_reference_retry_at <= now()`; `lock` is the row lock of each
wallet. What an open transaction has written stays in its own variables and
reaches the tables in its commit: for a submit `seen` (the wallet it read) and
`verdict`; for a worker `written`, `copy`, `moved`. A rollback, a crash or an
abort by PostgreSQL drops them. An id is a call or a wallet (the OPENING row of
a wallet): a call inserts at most one row.

| action | code |
|---|---|
| `OpenWallet` | `OpenWalletUseCase.execute`, one transaction |
| `Begin` | a request or a message reaches `execute` with a command |
| `RefuseCommand` | OPENING refused before any query; wallet missing, other player, missing reference: refused under the lock, nothing written |
| `LockWallet` | `findByIdForUpdate` grants the wallet |
| `Claim`, `ClaimConflict` | the `INSERT` of the PENDING row; it waits for uncommitted clashing rows, of submits and of batches, and fails on committed ones |
| `Resolve` | `resolveReference`, on committed rows plus the own one |
| `Finish` | `applyEffect` or the rejection, the flush with its reference-once index and its columns, the commit |
| `LookupKey`, `LookupExternal` | `handleClaimConflict`: two separate reads outside the transaction |
| `CrashCall`, `CrashWorker` | the process dies; PostgreSQL rolls back |
| `BecomeDue` | `computeReferenceBackoffMs` has passed |
| `SelectBatch` | the batch query: any due rows not held by another batch, any order, at most `BatchSize` |
| `ResolveItem` | the reference of the next row, read *before* its wallet is locked; undecided, rejected or timed out rows are dealt with here |
| `ApplyItem` | wallet lock granted, `applyEffect`, flush; the index or the width of the balance column may refuse, and then the whole batch rolls back |
| `CommitBatch` | the one commit of `run` |
| `AbortCall`, `AbortWorker` | PostgreSQL breaks a cycle of waits by aborting any one of its members |

A worker's updated rows block a clashing insert once MikroORM has flushed them,
which it does at the latest before the query for the next wallet (`Updated`).

`MaxBalance` stands for 2^63-1: `Money` is an unbounded `BigInt`, the column is
a bigint, so a credit beyond it is computed and then fails at the flush.

### WagerBook

Three variables, the tables, and three kinds of step: `Open` a wallet, `Submit`
one new row, `Retry` a set of waiting rows. No locks, calls, batches or crashes.
A step says what must be true *of the tables it leaves behind* when a row waits,
is processed or is rejected: a processed reversal is the only one of its kind of
a processed transaction of the same owner and amount; a rejection has a
reference that refuses it, a wallet that does, or no attempt left; the journal
gains exactly the entries of the rows decided, and they lead to the balance. The
mapping is the identity on the tables: every read, lock, flush, crash and
rollback of `Wagering` stutters, every commit is one step. So the property
`ImplementsBook` says what the code's read-early, use-late transactions must not
be seen to do.

### Outbox

Events are the rows of `outbox_messages`. `BeginReport` reads `now`, the
transaction then waits for its wallet, `Enqueue` commits: `stamp` is the
`occurred_at` column and `history` the order of commits of an aggregate.
`SelectBatch` is the query (`ORDER BY occurred_at LIMIT`, `SKIP LOCKED`),
`Publish`, `FailToSend` and `LoseAnswer` are one `send` with its `catch`,
`CommitBatch` and `Crash` the two ends of a run. `recent` is SQS's deduplication
window and `Forget` its end; payloads are left out.

`Relay` has three variables: the events that are reported, what each group of the
queue has received, and the events that are confirmed (whose committed row is
marked). Its steps are `Report`, `Send` of one unconfirmed event and `Confirm` of
a batch that was sent. Who holds a row, the clock, the deduplication window, a
mark that is not committed and every fault are invisible there: `RelayedAsPromised`
says that two publishers, crashes and lost answers never make the outbox send
what is confirmed, confirm what was not sent, or take a confirmation back.

### Consumer

`queue`, `holder`, `receives`, `acked` and `dead` model SQS as the code uses it
(external): a FIFO group with a message in flight delivers nothing, a message
whose visibility timeout ends is delivered again, after `MaxReceives` deliveries
it moves to the dead letter queue. `FindInbox`, `Claim`, `Process` and
`FailToProcess` are the stages of `handle` (one transaction, committed in
`Process`), `Ack`, `StaleAck` and `FailToAck` the `delete` after it.

A submit is reduced to its outcome: the key is decided for the message's
payload, or was decided for it before (a replay), or was decided for another one
(`IdempotencyConflictError`), by another message or by the API (`ApiSubmit`).
`Poison` messages always throw. `phase` is the end of a worker process:
`StopLoop` (SIGTERM clears the timers), `CloseConnections` (`orm.close()`),
`Exit`, each possible wherever the run is. `stop()` does not wait for the task
in flight, so a long poll may still deliver after it, and what the run does with
its batch after the connections are closed fails.

`Handling` has the messages that are handled (their inbox row is committed), the
decision of each key, and the messages that were deleted and that are dead. Its
steps are `Handle` (row and decision at once), `Request` (the API decides a key),
`Delete` of a handled message and `Bury`, the latter two of a message that has not
left the queue. `HandledAsPromised` says that no batch, claim, redelivery, stale
receipt handle or dying process shows there: a message that is processed again
finds its own row and decision and changes nothing.

### Reads

Writers begin (and read `created_at`), wait for the wallet, make their ids,
commit entries and balance together, or roll back. `FindWallet` and
`Recalculate` are the two statements of a reconciliation, `ReadPage` one request
for the next page after a cursor. They share no state, so one of each is enough.

## 3. Runs

All runs finish inside their five minutes. Every property of a passing run has a
mutant in `PROJECT.json`: a plausible bug in one definition under which the same
run, with the same bounds, violates the property. The bounds are therefore large
enough for each property to fail.

| run | instance | shows |
|---|---|---|
| `MCSubmit` | 3 calls, each any of 15 commands, one wallet opened with 1 whose column holds at most 2, one crash | types and balances; an effect has exactly one entry; replies under one key name one row; what a call read is current; a refusal for lack of balance is justified; every commit is a step of the book |
| `MCRetry` | a bet and three reversals out of {two refunds of it, a refund of nothing, a rollback of the refund}, two workers, batches of 2, 2 attempts, one crash | ledger chain, one entry per movement, at most one reversal per kind, justified reversals, rows decided, a loser has a winner, no transient error, append-only history; every commit is a step of the book |
| `MCTwoWallets` | 3 calls over two wallets (equal keys, equal external ids, references across wallets, a USD wallet), one worker | unique claims across locks, reversals stay with their owner, submits never deadlock; every commit is a step of the book |
| `MCLive` | a bet and two refunds of it, two workers, one crash, fairness | waiting reversals are decided, calls end |
| `MCOutbox` | 2 events of one wallet, 2 publishers, batches of 2, 2 faults of any sort, fairness | published implies sent, rows held by one publisher, at most one copy more than there were crashes and lost answers, eventual publication; every step is one of the relay |
| `MCConsumer` | 3 messages: a group of two, and a second group that brings the command of one of them again; an API that may take the key of the other for another payload; 2 workers, 2 deliveries, 2 faults out of crashes, shutdowns, expiries, failed submits and failed deletes, fairness | acknowledged means settled, inbox row exactly with its effect, one claimer per message, nobody dies of fewer faults than it has deliveries, nobody is overtaken without a fault (faults are counted over all messages, not each its own), messages leave; every step is one of the handling |
| `MCReads` | 2 submits and a batch of two rows, pages of 2, a clock of two instants | a reported mismatch is what committed in between; pages ascend; nothing that was there is skipped |
| `MCCrossed`, `MCRepeated`, `MCOverflow`, `MCRollbackOfRefund`, `MCOutboxOrder` | one per finding, see section 6 | a violated claim of the repository |

Bounds, by name. `MaxCrashes` (1): a crash gives back what its transaction held
and wrote, so a second one meets no new state. `MaxAttempts` (1 or 2; the code's
constant is larger): two attempts tell the first, a middle and the last apart.
`BatchSize` (2): the smallest batch with an earlier row whose writes a later one
sees. `MaxFaults` (2): two faults exhaust the two deliveries of a message and let
a failed send be retried and fail again. `MaxBalance`: 2 or 3 where a credit is to
exceed it, otherwise out of reach. `MaxTime` (1): stamps that are equal and stamps
that differ; three writers on two instants make every kind of tie. Amounts are at
most 3: what matters is only below, equal to and above a balance. In `MCConsumer` `Poison`
is empty: a message whose key the API has taken is refused for ever as a malformed
one is, and the run meets it both before and after that moment. `MCOutbox`
never lets `LIMIT` cut a batch, its two events fit; `MCOutboxOrder` has three for
two places. Symmetry is used in safety runs only, over calls that are asked the
same commands and over workers.

No run checks for deadlock: calls, openings, events and writers are finite in
number, so every instance stops when the work is done. That nobody waits for ever
is said by `SubmitsNeverDeadlock`, `CallsEnd`, `EventuallyDecided`,
`EventuallyPublished` and `MessagesLeave` instead. A PostgreSQL deadlock is a
cycle in `WaitsFor`.

## 4. Fairness

* A call and a retry worker step strongly fairly (`MCLive`): PostgreSQL queues
  who waits for a row, so a lock that is free again and again is granted in the
  end. Weak fairness would allow a wallet to be handed past one waiter for ever.
* Publishers and consumers step weakly fairly: `RepeatingTask` runs its task,
  swallows what it throws and schedules the next run.
* A process that is told to end closes its connections, exits and is replaced
  (`Ends`), weakly fairly; that it is told to is a fault, and bounded.
* `BecomeDue`, `Expire` and `Redrive` are weakly fair: backoffs and visibility
  timeouts pass, and SQS applies its redrive policy.
* Crashes, shutdowns, failed sends, lost answers, failed submits and failed
  deletes are never fair and are bounded. Without the bound nothing would ever be
  published or decided; with it the properties say that finitely many faults
  delay but never prevent. `Begin`, `OpenWallet`, `Enqueue`, `Arrive` and
  `ApiSubmit` are not fair: nobody has to ask.

## 5. Proofs

TLAPS proves the following for every value of the constants that satisfies the
named assumptions, which TLC evaluates in the runs: ids are distinct from each
other and from `None` (`IdsAssumption`, `NoneAssumption`, `RowAssumption`),
bounds are natural (`BoundsAssumption`), commands name wallets, kinds and natural
amounts (`CommandsAssumption`), `EventsAssumption` for the outbox,
`MessagesAssumption` (finitely many workers, payloads and statuses that are not
`None`) for the consumer and `ReadsAssumption` (finitely many writers of finitely
many movements each, a page of at least one entry, a positive opening balance)
for the reads.

| theorem | says | argument |
|---|---|---|
| `TypeCorrect` (`WageringProofs`) | `TypeOK`; so no overdraft, no overflow and no attempt beyond the last | not inductive alone: `TypeInv` adds `CallReady` (what a call has at each stage: its command, its wallet, its verdict) and `BatchReady` (due rows and rows of a batch exist, and so do the wallets of all rows), without which a step could compute from a row that is not there |
| `NoStaleWallet` (`WageringLedgerProofs`) | `SeenIsCurrent` | with `CopiesLocked` (a worker holds the lock of each wallet it has changed) nobody can write a wallet another one has read |
| `LedgerNeverBreaks` | `LedgerChain` | `LedgerInv` adds `UnopenedEmpty`, and `CopiesLocked` chains a worker's uncommitted entries from the committed balance to its copy, so the commit joins two chains (lemmas `ChainedAppend`, `ChainedEmpty`) |
| `ClaimsAreUnique` | `OneRowPerClaim` | `ClaimInv`: two claims in flight never clash with each other nor with a committed row (`ClaimsApart`), workers write only rows that exist and keep their command (`UpdatesOnly`), a row belongs to the call or wallet it is named after (`RowsOwned`) |
| `SubmitsAlwaysProceed` | `SubmitsNeverDeadlock` | `HoldersInside`: a call that holds a wallet is past `lock`. Who waits for a wallet waits for such a call, who waits for a claim waits for a call in flight, and calls in flight wait for nobody, so no set of calls can wait in itself |
| `CoreKeepsTheBook` (`WageringBookProofs`) | `ImplementsBook`, the refinement | see below |
| `MoneyMovesOnce`, `NobodyReversesTwice`, `ReversalsStayJustified`, `CommitsDecide`, `RacesHaveWinners`, `HistoryIsKept`, `RefusalsAreCurrent` (`WageringTableProofs`) | `OneEntryPerMovement`, `ReversedOnce`, `ReversalJustified`, `RowsDecided`, `AlreadyReversedHasWinner`, `HistoryKept`, `RefusalIsCurrent` | from the refinement: each is shown of a step of the book (`StepTables`) and so of every step of the core |
| `AnswersAgree`, `LosersFindTheWinner` | `RepliesAgree`, `NeverTransient` | `AnswerInv`: a call that looks for the row it lost to has one to find; a call about to reverse is the first to (`NotReversedYet`), since whoever reversed the same transaction would have moved the wallet whose lock it holds |
| `PublishersNeverMeet` (`OutboxProofs`) | `HeldArePending` | inductive together with `TypeOK` (`OwnInv`) |
| `PublishedMeansSent` | `PublishedWasSent` | `SentInv`: what SQS remembers and what an open run has marked as published was sent |
| `CopiesHaveReasons` | `CopiesExplained` | `CopyInv`: one copy is free for a row that is, or is marked, published; the mark is lost only in a crash, which pays for it. Needs that a batch holds no row twice and none that is marked |
| `NoMessageIsLost`, `HandleIsAtomic`, `OneClaimAtATime` (`ConsumerProofs`) | `AckedIsSettled`, `InboxSettled`, `ClaimExclusive` | `ConsumerInv`: the three together, with `AckersSettled` (who is about to delete saw or made the effect). What is settled stays settled because `Accepts` lets no message replace what its key has |
| `NoDeathWithoutReason` | `DeadForAReason` | `DebtInv`: the deliveries of a message, plus the interruptions that have not cost it one yet (`Owing`), are at most the faults plus the delivery in progress. An expiry, an ended loop or a crash is charged once to each message and to no message twice, because a group delivers nothing while one of its messages is in flight |
| `NoOvertakingWithoutReason` | `OvertakenForAReason` | `OrderInv` adds three parts. `QueueInv`: what has left the queue does not come back. `TriedInv`: in a group nothing is delivered before what is ahead of it, since a delivery takes a group from its front (`DeliveryInLine`, by counting the places in front). `LineInv`: as long as there was no fault, what is in a batch is in flight, what is ahead of it in its group is ahead of it in the batch, and a worker drops nothing but what is settled or can never be |
| `ConsumersKeepTheirPromise` | `HandledAsPromised`, a refinement | `ConsumerInv` shows that a second `Process` of a message stutters and that a delete is of a handled message, `QueueInv` that it is the first |
| `OutboxKeepsItsPromise` (`OutboxProofs`) | `RelayedAsPromised`, a refinement | `SentInv` and `OwnInv`: a row a publisher sends is committed and unmarked; what its commit marks it has sent, and it marks nothing twice |
| `AuditsAccuseNobody` (`ReadsProofs`) | `MismatchIsOvertaken` | `ReadsInv`: the balance is the sum of the ledger, and what reconciliation read is the sum of the entries there were. Rests on the sum of a sequence put together from two (`FoldSeq`) |
| `PagesNeverRepeat`, `PagesSkipNothing` | `PagesAscend`, `NothingSkipped` | `ReadsInv`: ids never tie, so `After` orders the entries of every ledger strictly; a page is the first places of the entries behind its cursor (`Places`), so whatever is behind the cursor and not on the page is behind the next cursor. The order of what commits meanwhile plays no part |

**The refinement.** What has to be shown is that a decision reached on the tables
of an earlier state is still right at the commit. `WageringBatchProofs` is about
that: `BatchInv` is `LedgerInv`, `ClaimInv` and `DecisionInv`, which says of every
row a worker has written but not committed (`ItemsDecided`), of every entry it has
made (`MovesRecorded`, `CopiesCounted`), of the row that waits for its wallet
(`StillResolved`) and of the verdict of every call (`CallVerdicts`) that its
grounds hold in the tables *now*, with the own writes on top. It is inductive for
two reasons. Committed tables only ever extend one another (`Extends`: rows stay,
terminal rows stay as they are), so a reference that was processed, or refused a
reversal, still does; and the one ground that later commits could remove, that
nobody else has reversed the same reference, is protected by the lock of the
wallet that both transactions belong to from the moment the index was passed.
Hence each commit satisfies the guards of a step of the book, and every other
step changes no table.

**Sums and pages.** The library's induction theorems take an operator and cannot
be instantiated. `ReadsProofs` gets by with `WFMin`: a property of all naturals
that fails has a least failure, which is contradicted for the one property at
hand. That is enough for the recursive function behind `FoldSeq`, and so for the
sum of a ledger.

`Outbox!TypeOK` and `Reads!TypeOK` are proved and not checked by a run.

Only model-checked: the liveness properties (`EventuallyDecided`, `CallsEnd`,
`EventuallyPublished`, `MessagesLeave`), which are out of the prover's reach.
Every invariant and every other property of a passing run is proved.

## 6. Findings

Runs that violate what the repository says of itself; the quotations are in
`PROJECT.json`.

1. `MCCrossed`: two retry workers deadlock. A batch locks the wallets of its
   rows one after the other, in whatever order the query without `ORDER BY`
   returned them; with the same wallets in opposite orders each waits for the
   other. `SKIP LOCKED` prevents collisions on rows only.
2. `MCRepeated`: the worker's lock order is not the submit's. It holds updated
   rows when it asks for a wallet; a repeated submit holds the wallet and waits
   in its insert for such a row.
3. `MCOverflow`: a waiting refund whose credit no longer fits the balance column
   fails at the flush with an error nobody classifies. Its batch rolls back, its
   attempt is not counted, and it is retried for ever, with the rows it shares a
   batch with. Retrying is said always to end in a decision.
4. `MCRollbackOfRefund`: the ROLLBACK of a REFUND is processed, though the table
   of failure codes says it is refused.
5. `MCOutboxOrder`: events of one wallet are sent out of order, by two publishers
   or after one failed send.

Seen on the way, no run of their own: the inbox's branch for a row that is there
and not processed is unreachable, since the row is committed only with its
effect (`InboxSettled`); `TransientProcessingError` is never needed on one wallet
(`NeverTransient`); the reference of a retry row, read before its wallet is
locked, may be reversed by another transaction meanwhile, and then the unique
index rolls back the whole batch (later runs make up for it,
`EventuallyDecided`); an amount of 0.00 passes the DTO and ends in
`UnbalancedLedgerEntryError`; `occurredAt` is read before the wait for the wallet,
so stamp order and commit order of a wallet may differ (`AggregateOrder` is stated
only for pairs in which they agree), and a ledger page may for the same reason end
behind an entry that commits later (`NothingSkipped` is stated only for entries
committed before the first page).

## 7. What is not modelled

* HTTP, DTO validation, Keycloak guard, error filter: stateless. They decide
  what commands the model may be asked: kind OPENING and amount 0.00 pass.
* Decimal text: `Money` is a natural number of minor units. Parsing and
  formatting are pure and have unit tests of their own.
* The SHA-256 of the canonical payload is equality of the hashed fields; two
  different payloads never collide.
* Event payloads: which change an event reports, not how it is written.
* The base64url text of a cursor: a cursor is the entry it names.
* `WagerTransaction.fail()` is called by nothing; FAILED rows do not occur.
* Triggers refuse what `HistoryKept` shows the application never does.
* Single reads of committed rows, health, metrics, logging, dependency injection.
* In `Outbox` and `Wagering` a shutdown is a crash: a run cut short rolls back.
  Only the consumer, whose messages have a count of deliveries, tells the two
  apart.
* PostgreSQL, MikroORM and SQS are external and appear as the code relies on
  them: row locks, unique constraints, SKIP LOCKED, rollback, FIFO groups.

## 8. What could come next

* `Consumer` composed with the submit of `Wagering`: the outcome of a message is
  today a choice that `OneRowPerClaim` and `RepliesAgree` justify.
* `Money`: parse and format against each other over bounded strings.
* A consumer of `wager-events`, when the repository gets one, to say what order
  of `occurredAt` and commits it needs.
