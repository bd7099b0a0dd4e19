---- MODULE WageringProperties ----
(***************************************************************************)
(* What the wagering core promises: invariants of the committed tables and *)
(* of the open transactions, properties of its steps, and liveness.        *)
(***************************************************************************)
EXTENDS Wagering

-----------------------------------------------------------------------------
(* Types                                                                   *)

CommandRecords == AllCommands \cup {OpeningRow(w, o).cmd : w \in Wallets, o \in AllOpenings}

Rows == [cmd : CommandRecords, status : Statuses, refTx : TxIds \cup {None},
         failure : FailureCodes \cup {None}, attempts : 0 .. MaxAttempts]

WalletRows == [player : {o.player : o \in AllOpenings},
               currency : {o.currency : o \in AllOpenings},
               balance : 0 .. MaxBalance, version : Nat]

\* None stands for no row: it is not one.
ASSUME RowAssumption == None \notin Rows /\ None \notin WalletRows

Entries == [tx : TxIds, dir : Directions, amount : Nat,
            before : Nat, after : Nat]

Verdicts ==
  {v \in [outcome : {"pending", "rejected", "resolved"},
          ref : TxIds \cup {None}, code : FailureCodes \cup {None}] :
     v.outcome = "rejected" => v.code # None}

Outcomes == Errors \cup {"ok"}

Replies == [outcome : Outcomes, tx : TxIds \cup {None}, replay : BOOLEAN]

DbTypeOK ==
  /\ wallets \in [Wallets -> WalletRows \cup {None}]
  /\ txs \in [TxIds -> Rows \cup {None}]
  /\ ledger \in [Wallets -> Seq(Entries)]
  /\ due \subseteq TxIds
  /\ lock \in [Wallets -> Procs \cup {None}]

CallTypeOK ==
  /\ pc \in [Calls -> {"idle", "lock", "claim", "resolve", "finish",
                       "lookupKey", "lookupExternal", "done"}]
  /\ cmd \in [Calls -> AllCommands \cup {None}]
  /\ seen \in [Calls -> WalletRows \cup {None}]
  /\ verdict \in [Calls -> Verdicts \cup {None}]
  /\ reply \in [Calls -> Replies \cup {None}]

WorkerTypeOK ==
  /\ wpc \in [Workers -> {"idle", "batch", "lock"}]
  /\ todo \in [Workers -> Seq(TxIds)]
  /\ wref \in [Workers -> TxIds \cup {None}]
  /\ written \in [Workers -> [TxIds -> Rows \cup {None}]]
  /\ copy \in [Workers -> [Wallets -> WalletRows \cup {None}]]
  /\ moved \in [Workers -> [Wallets -> Seq(Entries)]]

\* Every variable keeps its type.  Balances and the balances entries record
\* are naturals, so no debit ever leaves a wallet overdrawn (Wallet.debit and
\* the balance_non_negative check), a balance fits its bigint column, and no
\* row is tried more than MaxAttempts times.
TypeOK == DbTypeOK /\ CallTypeOK /\ WorkerTypeOK /\ crashes \in 0 .. MaxCrashes

-----------------------------------------------------------------------------
(* The committed tables                                                    *)

Open == {w \in Wallets : wallets[w] # None}
Entry(w) == 1 .. Len(ledger[w])

\* The ledger of a wallet is an unbroken chain from zero to its balance.
\* This is what reconcile recomputes, and what a lost update between two
\* submits, a retry worker and a submit, or two rows of one batch would
\* break.
LedgerChain == \A w \in Open : Chained(ledger[w], 0, wallets[w].balance)

\* Money moves exactly once per transaction: a PROCESSED row that affects the
\* balance has one entry, in its own wallet's ledger, for its amount and in
\* the direction of its kind (or against its reference's); no other row has
\* any.  A crash, an aborted batch or a replay that applied an effect twice
\* or half would break it.
OneEntryPerMovement ==
  /\ \A t \in Stored(txs) : Moves(txs[t]) =>
       \E i \in Entry(txs[t].cmd.wallet) :
         LET e == ledger[txs[t].cmd.wallet][i] IN
         /\ e.tx = t /\ e.amount = txs[t].cmd.amount
         /\ e.dir = LedgerDirectionFor(txs[t].cmd.kind, RefKind(txs, txs[t].refTx))
  /\ \A w \in Wallets : \A i \in Entry(w) :
       LET t == ledger[w][i].tx IN
       /\ txs[t] # None /\ Moves(txs[t]) /\ txs[t].cmd.wallet = w
       /\ \A j \in Entry(w) : ledger[w][j].tx = t => i = j

\* No reference is reversed twice by the same kind of reversal, whichever mix
\* of submits and retry batches raced for it (findProcessedReversal plus the
\* partial unique index).
ReversedOnce ==
  \A t, u \in Stored(txs) :
    (/\ txs[t].status = "PROCESSED" /\ txs[u].status = "PROCESSED"
     /\ txs[t].cmd.kind \in Reversals /\ txs[u].cmd.kind = txs[t].cmd.kind
     /\ txs[t].refTx = txs[u].refTx) => t = u

\* A PROCESSED reversal points at a transaction that is itself PROCESSED,
\* has the same owner and amount and is of a kind it may reverse, although
\* the reference was read some steps before the commit.
ReversalJustified ==
  \A t \in Stored(txs) :
    (txs[t].status = "PROCESSED" /\ txs[t].cmd.kind \in Reversals) =>
      LET r == txs[t].refTx IN
      /\ r # None /\ txs[r] # None
      /\ txs[r].status = "PROCESSED"
      /\ SameOwner(txs[t].cmd, txs[r].cmd)
      /\ txs[r].cmd.amount = txs[t].cmd.amount
      /\ txs[r].cmd.kind \in ReversibleKinds(txs[t].cmd.kind)

\* No two committed rows share an idempotency key or an external id, although
\* nothing is read before the insert (claim-first) and the two inserts may
\* run under the locks of different wallets.
OneRowPerClaim ==
  \A t, u \in Stored(txs) : Clash(txs[t].cmd, txs[u].cmd) => t = u

\* A commit never leaves a row half decided: PENDING is never visible, a
\* waiting row has used at least one attempt, a failure code goes with
\* REJECTED and only with it, and a timeout only after the last attempt.
RowsDecided ==
  \A t \in Stored(txs) :
    LET row == txs[t] IN
    /\ row.status \in {"PENDING_REFERENCE", "PROCESSED", "REJECTED"}
    /\ row.status = "PENDING_REFERENCE" => row.attempts >= 1
    /\ (row.status = "REJECTED") <=> (row.failure # None)
    /\ row.failure = "REFERENCE_RESOLUTION_TIMEOUT" => row.attempts = MaxAttempts

\* REFERENCE_ALREADY_REVERSED is only ever answered when some other reversal
\* of the same kind and reference is committed: no two racing reversals
\* both lose.
AlreadyReversedHasWinner ==
  \A t \in Stored(txs) : txs[t].failure = "REFERENCE_ALREADY_REVERSED" =>
    \E r \in FindByExternal(txs, txs[t].cmd.ref) :
      ProcessedReversals(txs, r, txs[t].cmd.kind) # {}

-----------------------------------------------------------------------------
(* Replies                                                                 *)

Answered(c) == reply[c] # None /\ reply[c].outcome = "ok"

\* Calls that were answered under one idempotency key were asked the same
\* thing and name the same committed row, and at most one of them did the
\* work; the others are replays.
RepliesAgree ==
  \A c, d \in Calls : (Answered(c) /\ Answered(d) /\ cmd[c].key = cmd[d].key) =>
    /\ reply[c].tx = reply[d].tx /\ txs[reply[c].tx] # None
    /\ SamePayload(cmd[c], txs[reply[c].tx].cmd)
    /\ (~reply[c].replay /\ ~reply[d].replay) => c = d

\* A lost claim race always ends as a replay or an IdempotencyConflictError:
\* the wallet lock keeps every call from losing the reference race at its
\* commit, so TransientProcessingError is never needed.
NeverTransient ==
  \A c \in Calls : reply[c] # None =>
    reply[c].outcome # "TRANSIENT_PROCESSING_ERROR"

\* REFERENCE_INVALID_KIND is said to refuse the ROLLBACK of a REFUND, which
\* is a reversal already (ARCHITECTURE.md, failure table).
RefundNotRolledBack ==
  \A t \in Stored(txs) :
    (txs[t].status = "PROCESSED" /\ txs[t].cmd.kind = "ROLLBACK") =>
      txs[txs[t].refTx].cmd.kind # "REFUND"

-----------------------------------------------------------------------------
(* Open transactions                                                       *)

InTransaction(c) == pc[c] \in {"claim", "resolve", "finish"}

\* The wallet a call computes with is the committed one until it commits:
\* nobody writes a wallet whose lock somebody else holds.
SeenIsCurrent ==
  \A c \in Calls : InTransaction(c) =>
    /\ lock[cmd[c].wallet] = c
    /\ seen[c] = wallets[cmd[c].wallet] /\ seen[c] # None

\* Submits never wait for each other in a cycle: every call locks its wallet
\* before it claims its row (the order processNew explains).
SubmitsNeverDeadlock == \A S \in SUBSET Calls : ~Stuck(S)

\* Retry workers are said to run side by side without colliding
\* (wager-transaction.repository.ts:69).
WorkersNeverDeadlock == \A S \in SUBSET Workers : ~Stuck(S)

\* The retry worker is said to keep the submit's lock order
\* (reprocess-pending-references.use-case.ts:58), so no set of transactions
\* may wait in a cycle.
NobodyDeadlocks == \A S \in SUBSET Procs : ~Stuck(S)

-----------------------------------------------------------------------------
(* Steps                                                                   *)

\* History is append-only: a terminal row never changes again, a row never
\* goes away or changes what it was asked, attempts only grow, a ledger only
\* gains entries at its end, and a balance changes only together with it.
HistoryKept ==
  [][ /\ \A t \in Stored(txs) :
           /\ txs'[t] # None /\ txs'[t].cmd = txs[t].cmd
           /\ IsTerminal(txs[t]) => txs'[t] = txs[t]
           /\ txs'[t].attempts >= txs[t].attempts
      /\ \A w \in Wallets :
           /\ Len(ledger'[w]) >= Len(ledger[w])
           /\ \A i \in Entry(w) : ledger'[w][i] = ledger[w][i]
      /\ \A w \in Open :
           /\ wallets'[w] # None
           /\ wallets'[w].version - wallets[w].version
                = Len(ledger'[w]) - Len(ledger[w])
           /\ wallets'[w].balance # wallets[w].balance => ledger'[w] # ledger[w]
    ]_vars

\* A new transaction is refused for insufficient balance only if the balance
\* committed at that moment really is too small: the refusal never rests on
\* a balance another transaction has replaced since it was read.
RefusalIsCurrent ==
  [][ \A c \in Calls :
        (/\ txs[c] = None /\ txs'[c] # None
         /\ txs'[c].failure \in {"INSUFFICIENT_BALANCE",
                                 "ROLLBACK_INSUFFICIENT_BALANCE"}) =>
            wallets[cmd[c].wallet].balance < cmd[c].amount
    ]_vars

\* The core implements the abstract book: whatever its transactions read,
\* lock, retry or lose, each commit decides its rows at one instant, for
\* reasons that hold in the tables it leaves behind (a reversal names the one
\* transaction it reverses, a refusal has its ground, a timeout its last
\* attempt), and moves the money of exactly those rows.
Book == INSTANCE WagerBook
  WITH Ids <- TxIds, accounts <- wallets, rows <- txs, journal <- ledger

ImplementsBook == Book!Spec

-----------------------------------------------------------------------------
(* Liveness                                                                *)

\* A REFUND or ROLLBACK that waits for its reference is eventually processed
\* or rejected, whatever aborts and crashes its batches meet.
EventuallyDecided ==
  \A t \in TxIds :
    (txs[t] # None) ~> (txs[t] # None /\ IsTerminal(txs[t]))

\* Every call that began ends, although it waits for wallet locks and claims.
CallsEnd == \A c \in Calls : (pc[c] # "idle") ~> (pc[c] = "done")
====
