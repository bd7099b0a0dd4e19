---- MODULE WagerDomain ----
(***************************************************************************)
(* The pure rules of the wager domain: what kinds of transaction exist, in  *)
(* which direction each one moves the wallet, what a reference resolves to, *)
(* and what applying a transaction to a wallet yields.  No variables: the   *)
(* module that interleaves the use cases applies these operators.           *)
(*                                                                         *)
(* A command is a record                                                   *)
(*   key      idempotencyKey                                               *)
(*   ext      the pair (providerId, externalTransactionId)                 *)
(*   player, wallet, round, kind, amount, currency                         *)
(*   ref      the pair (providerId, referenceExternalTransactionId), or    *)
(*            None; references are always looked up under the same provider *)
(* gameId only feeds the payload hash, as any other differing field does.  *)
(* A row is [cmd, status, refTx, failure, attempts].                       *)
(***************************************************************************)
EXTENDS Integers, Sequences

CONSTANTS None,        \* undefined / null / no row
          MaxBalance   \* the largest amount a bigint column takes

ASSUME MaxBalanceAssumption == MaxBalance \in Nat

Kinds == {"OPENING", "BET", "WIN", "LOSS", "REFUND", "ROLLBACK"}
Reversals == {"REFUND", "ROLLBACK"}

Statuses ==
  {"PENDING", "PENDING_REFERENCE", "PROCESSED", "REJECTED", "FAILED"}
TerminalStatuses == {"PROCESSED", "REJECTED", "FAILED"}

FailureCodes ==
  {"REFERENCE_MISMATCH", "REFERENCE_INVALID_KIND", "REFERENCE_INVALID_STATE",
   "REFERENCE_AMOUNT_MISMATCH", "REFERENCE_ALREADY_REVERSED",
   "REFERENCE_RESOLUTION_TIMEOUT", "INSUFFICIENT_BALANCE",
   "ROLLBACK_INSUFFICIENT_BALANCE", "WALLET_CURRENCY_MISMATCH"}

\* What a use case throws instead of recording it in a row.
Errors ==
  {"WALLET_NOT_FOUND", "WALLET_PLAYER_MISMATCH", "INVARIANT_VIOLATION",
   "MISSING_REFERENCE", "IDEMPOTENCY_CONFLICT", "TRANSIENT_PROCESSING_ERROR",
   "UNBALANCED_LEDGER_ENTRY", "OUT_OF_RANGE", "DEADLOCK"}

ASSUME NoneAssumption == None \notin FailureCodes \cup Errors

RequiresReference(kind) == kind \in Reversals
AffectsBalance(kind) == kind # "LOSS"

-----------------------------------------------------------------------------
(* The life cycle of a row.                                                *)

\* WagerTransaction.create: born PENDING, no attempt made.
NewRow(cmd) ==
  [cmd |-> cmd, status |-> "PENDING", refTx |-> None, failure |-> None,
   attempts |-> 0]

\* WagerTransaction.createOpening: born PROCESSED, in the "internal" round.
OpeningRow(w, o) ==
  [cmd |-> [key |-> w, ext |-> w, player |-> o.player, wallet |-> w,
            round |-> "internal", kind |-> "OPENING", amount |-> o.amount,
            currency |-> o.currency, ref |-> None],
   status |-> "PROCESSED", refTx |-> None, failure |-> None, attempts |-> 0]

IsTerminal(row) == row.status \in TerminalStatuses

MarkProcessed(row, ref) == [row EXCEPT !.status = "PROCESSED", !.refTx = ref]
MarkRejected(row, code) == [row EXCEPT !.status = "REJECTED", !.failure = code]
MarkPendingReference(row) ==
  [row EXCEPT !.status = "PENDING_REFERENCE", !.attempts = @ + 1]

\* Mutant: idempotency_key is not unique.
ClashOnExternalId(a, b) == a.ext = b.ext

\* The two unique constraints of wager_transactions.
Clash(a, b) == a.key = b.key \/ a.ext = b.ext

\* payloadHash equality: every business field but the idempotency key.
SamePayload(a, b) ==
  /\ a.ext = b.ext /\ a.player = b.player /\ a.wallet = b.wallet
  /\ a.round = b.round /\ a.kind = b.kind /\ a.amount = b.amount
  /\ a.currency = b.currency /\ a.ref = b.ref

-----------------------------------------------------------------------------
(* Reference resolution, over a table [ids -> row or None].                *)

Stored(table) == {t \in DOMAIN table : table[t] # None}

FindByExternal(table, ext) == {t \in Stored(table) : table[t].cmd.ext = ext}
FindByKey(table, key) == {t \in Stored(table) : table[t].cmd.key = key}

ProcessedReversals(table, ref, kind) ==
  {t \in Stored(table) : /\ table[t].refTx = ref
                         /\ table[t].cmd.kind = kind
                         /\ table[t].status = "PROCESSED"}

RefKind(table, ref) == IF ref = None THEN None ELSE table[ref].cmd.kind

SameOwner(cmd, ref) ==
  /\ ref.player = cmd.player /\ ref.wallet = cmd.wallet
  /\ ref.round = cmd.round /\ ref.currency = cmd.currency

ReversibleKinds(kind) ==
  IF kind = "REFUND" THEN {"BET"} ELSE {"BET", "WIN", "REFUND"}

PendingVerdict == [outcome |-> "pending", ref |-> None, code |-> None]
RejectedVerdict(code) == [outcome |-> "rejected", ref |-> None, code |-> code]
ResolvedVerdict(ref) == [outcome |-> "resolved", ref |-> ref, code |-> None]

\* Mutant: a reference that is not PROCESSED is taken for one that is.
JudgeIgnoringState(table, cmd, t) ==
  LET ref == table[t] IN
  IF ~SameOwner(cmd, ref.cmd) THEN RejectedVerdict("REFERENCE_MISMATCH")
  ELSE IF ref.cmd.kind \notin ReversibleKinds(cmd.kind)
    THEN RejectedVerdict("REFERENCE_INVALID_KIND")
  ELSE ResolvedVerdict(t)

\* Mutant: whose the reference is does not matter.
JudgeIgnoringOwner(table, cmd, t) ==
  IF table[t].cmd.kind \notin ReversibleKinds(cmd.kind)
    THEN RejectedVerdict("REFERENCE_INVALID_KIND")
  ELSE IF table[t].status # "PROCESSED" THEN PendingVerdict
  ELSE ResolvedVerdict(t)

\* Mutant: findProcessedReversal forgets to ask for PROCESSED rows, by the
\* external reference.
JudgeCountingWaiting(table, cmd, t) ==
  IF \E u \in Stored(table) : /\ table[u].cmd.ref = cmd.ref
                              /\ table[u].cmd.key # cmd.key
                              /\ table[u].cmd.kind = cmd.kind
  THEN RejectedVerdict("REFERENCE_ALREADY_REVERSED")
  ELSE ResolvedVerdict(t)

\* Mutant: a reference that still waits counts as one that failed.
JudgeRefusingWaiting(table, cmd, t) ==
  LET ref == table[t] IN
  IF ~SameOwner(cmd, ref.cmd) THEN RejectedVerdict("REFERENCE_MISMATCH")
  ELSE IF ref.cmd.kind \notin ReversibleKinds(cmd.kind)
    THEN RejectedVerdict("REFERENCE_INVALID_KIND")
  ELSE IF ref.status # "PROCESSED" THEN RejectedVerdict("REFERENCE_INVALID_STATE")
  ELSE IF cmd.amount # ref.cmd.amount
    THEN RejectedVerdict("REFERENCE_AMOUNT_MISMATCH")
  ELSE IF ProcessedReversals(table, t, cmd.kind) # {}
    THEN RejectedVerdict("REFERENCE_ALREADY_REVERSED")
  ELSE ResolvedVerdict(t)

\* The checks on a reference that exists, in the order the code makes them.
JudgeReference(table, cmd, t) ==
  LET ref == table[t] IN
  CASE ~SameOwner(cmd, ref.cmd) -> RejectedVerdict("REFERENCE_MISMATCH")
    [] SameOwner(cmd, ref.cmd) /\ ref.cmd.kind \notin ReversibleKinds(cmd.kind)
         -> RejectedVerdict("REFERENCE_INVALID_KIND")
    [] OTHER ->
       CASE ref.status \in {"PENDING", "PENDING_REFERENCE"} -> PendingVerdict
         [] ref.status \in {"REJECTED", "FAILED"}
              -> RejectedVerdict("REFERENCE_INVALID_STATE")
         [] OTHER ->
            IF cmd.amount # ref.cmd.amount
              THEN RejectedVerdict("REFERENCE_AMOUNT_MISMATCH")
            ELSE IF ProcessedReversals(table, t, cmd.kind) # {}
              THEN RejectedVerdict("REFERENCE_ALREADY_REVERSED")
            ELSE ResolvedVerdict(t)

ResolveReference(table, cmd) ==
  LET found == FindByExternal(table, cmd.ref) IN
  IF found = {} THEN PendingVerdict
  ELSE JudgeReference(table, cmd, CHOOSE t \in found : TRUE)

-----------------------------------------------------------------------------
(* Wallet movements.  A wallet is [player, currency, balance, version], an  *)
(* entry [tx, dir, amount, before, after].                                  *)

OpenedWallet(o) == [player |-> o.player, currency |-> o.currency,
                    balance |-> o.amount, version |-> 1]

Directions == {"DEBIT", "CREDIT"}
Direction(kind) == IF kind = "BET" THEN "DEBIT" ELSE "CREDIT"
Opposite(dir) == IF dir = "DEBIT" THEN "CREDIT" ELSE "DEBIT"

\* refKind is the kind of the resolved reference; only ROLLBACK looks at it.
LedgerDirectionFor(kind, refKind) ==
  IF kind = "ROLLBACK" THEN Opposite(Direction(refKind)) ELSE Direction(kind)

ExpectedBalanceAfter(dir, before, amount) ==
  IF dir = "DEBIT" THEN before - amount ELSE before + amount

\* Mutant: every entry is recorded as a credit.
EntryAsCredit(t, dir, before, amount) ==
  [tx |-> t, dir |-> "CREDIT", amount |-> amount, before |-> before,
   after |-> ExpectedBalanceAfter(dir, before, amount)]

LedgerEntry(t, dir, before, amount) ==
  [tx |-> t, dir |-> dir, amount |-> amount, before |-> before,
   after |-> ExpectedBalanceAfter(dir, before, amount)]

\* Mutant: the optimistic version is not counted up.
MovementUncounted(wallet, dir, amount) ==
  [wallet EXCEPT !.balance = ExpectedBalanceAfter(dir, @, amount)]

ApplyMovement(wallet, dir, amount) ==
  [wallet EXCEPT !.balance = ExpectedBalanceAfter(dir, @, amount),
                 !.version = @ + 1]

\* Whether a row moves money.
Moves(row) == row.status = "PROCESSED" /\ AffectsBalance(row.cmd.kind)

\* Entries s lead from one balance to another: each starts where the one
\* before ended and moves by its own positive amount.
Chained(s, from, to) ==
  /\ \A i \in 1 .. Len(s) :
       /\ s[i].amount > 0
       /\ s[i].after = ExpectedBalanceAfter(s[i].dir, s[i].before, s[i].amount)
       /\ s[i].before = IF i = 1 THEN from ELSE s[i - 1].after
  /\ to = IF Len(s) = 0 THEN from ELSE s[Len(s)].after

\* Mutant: debit() does not look at the balance.
RefusesNoOverdraft(wallet, cmd, dir) ==
  IF cmd.currency # wallet.currency THEN "WALLET_CURRENCY_MISMATCH"
  ELSE IF cmd.amount = 0 THEN "UNBALANCED_LEDGER_ENTRY" ELSE None

\* Mutant: a debit of exactly the balance is refused.
RefusesWhenEqual(wallet, cmd, dir) ==
  IF cmd.currency # wallet.currency THEN "WALLET_CURRENCY_MISMATCH"
  ELSE IF dir = "DEBIT" /\ wallet.balance <= cmd.amount THEN
    IF cmd.kind = "ROLLBACK" THEN "ROLLBACK_INSUFFICIENT_BALANCE"
                             ELSE "INSUFFICIENT_BALANCE"
  ELSE IF cmd.amount = 0 THEN "UNBALANCED_LEDGER_ENTRY" ELSE None

\* Why debit()/credit() refuse, in the order they check, or the flush of the
\* balance after them: None when they do not.
MovementRefusal(wallet, cmd, dir) ==
  CASE cmd.currency # wallet.currency -> "WALLET_CURRENCY_MISMATCH"
    [] cmd.currency = wallet.currency /\ dir = "DEBIT"
       /\ wallet.balance < cmd.amount ->
         IF cmd.kind = "ROLLBACK" THEN "ROLLBACK_INSUFFICIENT_BALANCE"
                                  ELSE "INSUFFICIENT_BALANCE"
    [] OTHER ->
         IF cmd.amount = 0 THEN "UNBALANCED_LEDGER_ENTRY"
         ELSE IF ExpectedBalanceAfter(dir, wallet.balance, cmd.amount) > MaxBalance
           THEN "OUT_OF_RANGE"
         ELSE None

(***************************************************************************)
(* applyEffect: the row, the wallet and the ledger entries (none or one)   *)
(* the transaction leaves behind.  error is set, and the rest meaningless, *)
(* when the code rethrows: a refusal that is no failure code.              *)
(***************************************************************************)
Effect(row, wallet, entries, error) ==
  [row |-> row, wallet |-> wallet, entries |-> entries, error |-> error]

ApplyEffect(t, row, wallet, ref, refKind) ==
  LET cmd == row.cmd
      dir == LedgerDirectionFor(cmd.kind, refKind)
      refusal == MovementRefusal(wallet, cmd, dir)
  IN IF ~AffectsBalance(cmd.kind)
       THEN Effect(MarkProcessed(row, ref), wallet, <<>>, None)
     ELSE IF refusal = None
       THEN Effect(MarkProcessed(row, ref),
                   ApplyMovement(wallet, dir, cmd.amount),
                   <<LedgerEntry(t, dir, wallet.balance, cmd.amount)>>, None)
     ELSE IF refusal \in FailureCodes
       THEN Effect(MarkRejected(row, refusal), wallet, <<>>, None)
     ELSE Effect(row, wallet, <<>>, refusal)
====
