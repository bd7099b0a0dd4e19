---- MODULE Wagering ----
(***************************************************************************)
(* The wagering core: OpenWallet, SubmitWagerTransaction and               *)
(* ReprocessPendingReferences as concurrent Postgres transactions (READ    *)
(* COMMITTED) over the tables wallets, wager_transactions and              *)
(* wallet_ledger_entries.                                                  *)
(*                                                                         *)
(* Calls are executions of SubmitWagerTransactionUseCase.execute, by any   *)
(* API or worker process; a client retry or a redelivered message is       *)
(* another call with the same command.  A call's own row has the call as   *)
(* its id, and a wallet's OPENING row the wallet.  Workers are the         *)
(* processes that run ReprocessPendingReferencesUseCase.run.               *)
(*                                                                         *)
(* What a transaction has written stays with it (seen, verdict; written,   *)
(* copy, moved) until its commit; a rollback drops it.  lock is the        *)
(* FOR UPDATE lock of each wallet row.                                     *)
(***************************************************************************)
EXTENDS WagerDomain, FiniteSets

CONSTANTS Calls, Workers, Wallets,
          Commands,     \* [Calls -> sets of commands]: what each may be asked
          Openings,     \* [Wallets -> sets of [player, currency, amount]]: what
                        \* each may be opened with
          MaxAttempts,  \* MAX_REFERENCE_RETRY_ATTEMPTS
          BatchSize,    \* rows one run of the retry worker takes
          MaxCrashes    \* bound on process crashes

TxIds == Calls \cup Wallets
AllCommands == UNION {Commands[c] : c \in Calls}
AllOpenings == UNION {Openings[w] : w \in Wallets}
Procs == Calls \cup Workers

ASSUME IdsAssumption ==
  /\ IsFiniteSet(TxIds)
  /\ Calls \cap Wallets = {} /\ Calls \cap Workers = {}
  /\ None \notin TxIds /\ None \notin Procs

ASSUME BoundsAssumption ==
  /\ MaxAttempts \in Nat \ {0} /\ BatchSize \in Nat \ {0} /\ MaxCrashes \in Nat

ASSUME CommandsAssumption ==
  /\ DOMAIN Commands = Calls
  /\ \A m \in AllCommands : /\ m.wallet \in Wallets
                            /\ m.kind \in Kinds
                            /\ m.amount \in Nat
  /\ DOMAIN Openings = Wallets
  /\ \A o \in AllOpenings : o.amount \in Nat

VARIABLES
  wallets,   \* wallets: a wallet's row, None before it is opened
  txs,       \* wager_transactions: committed rows by id
  ledger,    \* wallet_ledger_entries: each wallet's entries, oldest first
  due,       \* rows whose next_reference_retry_at has passed
  lock,      \* who holds each wallet row FOR UPDATE
  pc, cmd,   \* where each call is, and what it was asked
  seen,      \* the wallet as the call read it under its lock
  verdict,   \* what resolveReference told the call
  reply,     \* what execute() returned or threw
  wpc,       \* where each retry worker is
  todo,      \* rows of its batch still to process, in order
  wref,      \* the reference its current row resolved to
  written, copy, moved, \* rows, wallets and entries its transaction wrote
  crashes

dbVars == <<wallets, txs, ledger, due>>
callVars == <<pc, cmd, seen, verdict, reply>>
workerVars == <<wpc, todo, wref, written, copy, moved>>
vars == <<dbVars, lock, callVars, workerVars, crashes>>

-----------------------------------------------------------------------------
NoWrites == [t \in TxIds |-> None]
NoCopies == [w \in Wallets |-> None]
NoMoves  == [w \in Wallets |-> <<>>]

Init ==
  /\ wallets = NoCopies /\ txs = NoWrites /\ ledger = NoMoves /\ due = {}
  /\ lock = NoCopies
  /\ pc = [c \in Calls |-> "idle"]
  /\ cmd = [c \in Calls |-> None] /\ seen = [c \in Calls |-> None]
  /\ verdict = [c \in Calls |-> None] /\ reply = [c \in Calls |-> None]
  /\ wpc = [k \in Workers |-> "idle"] /\ todo = [k \in Workers |-> <<>>]
  /\ wref = [k \in Workers |-> None]
  /\ written = [k \in Workers |-> NoWrites]
  /\ copy = [k \in Workers |-> NoCopies]
  /\ moved = [k \in Workers |-> NoMoves]
  /\ crashes = 0

Released(p) == [w \in Wallets |-> IF lock[w] = p THEN None ELSE lock[w]]

\* Mutant: the partial unique index does not exist.
NoReferenceOnceIndex(table, t, row) == FALSE

\* wager_transactions_reference_once_idx would refuse row t next to the table.
ViolatesReferenceOnce(table, t, row) ==
  /\ row.status = "PROCESSED" /\ row.cmd.kind \in Reversals
  /\ ProcessedReversals(table, row.refTx, row.cmd.kind) \ {t} # {}

-----------------------------------------------------------------------------
(* OpenWalletUseCase.execute: one transaction; a second wallet of the same *)
(* player and currency is refused by the unique constraint and changes     *)
(* nothing.                                                                *)

\* newId() is an id that no command has named before.
FreshId(w) ==
  \A c \in Calls : pc[c] # "idle" => cmd[c].key # w /\ cmd[c].ext # w

OpenWallet(w, o) ==
  /\ wallets[w] = None /\ o \in Openings[w] /\ FreshId(w)
  /\ o.amount <= MaxBalance
  /\ \A v \in Wallets : wallets[v] # None =>
       ~(wallets[v].player = o.player /\ wallets[v].currency = o.currency)
  /\ wallets' = [wallets EXCEPT ![w] = OpenedWallet(o)]
  /\ IF o.amount > 0
       THEN /\ txs' = [txs EXCEPT ![w] = OpeningRow(w, o)]
            /\ ledger' = [ledger EXCEPT ![w] =
                            <<LedgerEntry(w, "CREDIT", 0, o.amount)>>]
       ELSE UNCHANGED <<txs, ledger>>
  /\ UNCHANGED <<due, lock, callVars, workerVars, crashes>>

-----------------------------------------------------------------------------
(* SubmitWagerTransactionUseCase.execute                                   *)

Returned(c, outcome, t, replay) ==
  reply' = [reply EXCEPT ![c] =
              [outcome |-> outcome, tx |-> t, replay |-> replay]]

\* The transaction ends: its lock goes, its reads are forgotten.
EndCall(c, next) ==
  /\ pc' = [pc EXCEPT ![c] = next]
  /\ lock' = Released(c)
  /\ seen' = [seen EXCEPT ![c] = None]
  /\ verdict' = [verdict EXCEPT ![c] = None]

Begin(c, m) ==
  /\ pc[c] = "idle" /\ m \in Commands[c]
  /\ pc' = [pc EXCEPT ![c] = "lock"]
  /\ cmd' = [cmd EXCEPT ![c] = m]
  /\ UNCHANGED <<dbVars, lock, seen, verdict, reply, workerVars, crashes>>

\* Errors before a row is claimed.  Both doors let kind OPENING in: execute()
\* refuses it before it asks the database anything.  An amount no bigint holds
\* is refused by the INSERT itself.
Refusal(m) ==
  CASE m.kind = "OPENING" -> "INVARIANT_VIOLATION"
    [] m.kind # "OPENING" /\ wallets[m.wallet] = None -> "WALLET_NOT_FOUND"
    [] OTHER -> IF wallets[m.wallet].player # m.player
                  THEN "WALLET_PLAYER_MISMATCH"
                ELSE IF RequiresReference(m.kind) /\ m.ref = None
                  THEN "MISSING_REFERENCE"
                ELSE IF m.amount > MaxBalance THEN "OUT_OF_RANGE"
                ELSE None

RefuseCommand(c) ==
  /\ pc[c] = "lock"
  /\ cmd[c].kind # "OPENING" => lock[cmd[c].wallet] = None
  /\ Refusal(cmd[c]) # None
  /\ EndCall(c, "done")
  /\ Returned(c, Refusal(cmd[c]), None, FALSE)
  /\ UNCHANGED <<dbVars, cmd, workerVars, crashes>>

\* Mutant: the wallet is read without FOR UPDATE.
ReadWallet(c) ==
  /\ pc[c] = "lock" /\ Refusal(cmd[c]) = None
  /\ lock' = [lock EXCEPT ![cmd[c].wallet] = c]
  /\ seen' = [seen EXCEPT ![c] = wallets[cmd[c].wallet]]
  /\ pc' = [pc EXCEPT ![c] = "claim"]
  /\ UNCHANGED <<dbVars, cmd, verdict, reply, workerVars, crashes>>

LockWallet(c) ==
  /\ pc[c] = "lock" /\ lock[cmd[c].wallet] = None
  /\ Refusal(cmd[c]) = None
  /\ lock' = [lock EXCEPT ![cmd[c].wallet] = c]
  /\ seen' = [seen EXCEPT ![c] = wallets[cmd[c].wallet]]
  /\ pc' = [pc EXCEPT ![c] = "claim"]
  /\ UNCHANGED <<dbVars, cmd, verdict, reply, workerVars, crashes>>

\* Mutant: rows are claimed before the claim can be refused, as a shared lock
\* that is upgraded later would be.
InFlightFromClaim(c) == pc[c] \in {"claim", "resolve", "finish"}

InFlight(c) == pc[c] \in {"resolve", "finish"}

\* Rows a worker has updated in its open transaction.  MikroORM flushes what
\* is dirty before the queries of the next row, so at the latest when the
\* worker asks for a wallet.
Updated(k) == IF wpc[k] = "lock" THEN Stored(written[k]) ELSE {}

\* Mutant: a SELECT instead of the unique constraint, blind to open inserts.
ClaimWaitsForNobody(c) == {}

\* The INSERT waits for whoever holds a clashing row uncommitted.
ClaimWaitsFor(c) ==
  {d \in Calls \ {c} : InFlight(d) /\ Clash(cmd[d], cmd[c])}
    \cup {k \in Workers : \E t \in Updated(k) : Clash(written[k][t].cmd, cmd[c])}

CommittedClash(m) == \E t \in Stored(txs) : Clash(txs[t].cmd, m)

Claim(c) ==
  /\ pc[c] = "claim" /\ ClaimWaitsFor(c) = {} /\ ~CommittedClash(cmd[c])
  /\ pc' = [pc EXCEPT ![c] =
              IF RequiresReference(cmd[c].kind) THEN "resolve" ELSE "finish"]
  /\ verdict' = [verdict EXCEPT ![c] =
              IF RequiresReference(cmd[c].kind) THEN None
                                                ELSE ResolvedVerdict(None)]
  /\ UNCHANGED <<dbVars, lock, cmd, seen, reply, workerVars, crashes>>

ClaimConflict(c) ==
  /\ pc[c] = "claim" /\ ClaimWaitsFor(c) = {} /\ CommittedClash(cmd[c])
  /\ EndCall(c, "lookupKey")
  /\ UNCHANGED <<dbVars, cmd, reply, workerVars, crashes>>

\* The transaction sees the committed rows and its own PENDING row.
CallView(c) == [txs EXCEPT ![c] = NewRow(cmd[c])]

Resolve(c) ==
  /\ pc[c] = "resolve"
  /\ verdict' = [verdict EXCEPT ![c] = ResolveReference(CallView(c), cmd[c])]
  /\ pc' = [pc EXCEPT ![c] = "finish"]
  /\ UNCHANGED <<dbVars, lock, cmd, seen, reply, workerVars, crashes>>

\* What the call is about to commit: processNew after the reference resolved.
CallEffect(c) ==
  LET row == NewRow(cmd[c])
      v == verdict[c]
  IN CASE v.outcome = "pending" ->
            Effect(MarkPendingReference(row), seen[c], <<>>, None)
       [] v.outcome = "rejected" ->
            Effect(MarkRejected(row, v.code), seen[c], <<>>, None)
       [] v.outcome = "resolved" ->
            ApplyEffect(c, row, seen[c], v.ref, RefKind(txs, v.ref))

Finish(c) ==
  LET e == CallEffect(c)
      w == cmd[c].wallet
  IN
  /\ pc[c] = "finish"
  /\ IF e.error # None
       THEN /\ EndCall(c, "done")
            /\ Returned(c, e.error, None, FALSE)
            /\ UNCHANGED dbVars
     ELSE IF ViolatesReferenceOnce(txs, c, e.row)
       THEN EndCall(c, "lookupKey") /\ UNCHANGED <<dbVars, reply>>
     ELSE /\ EndCall(c, "done")
          /\ Returned(c, "ok", c, FALSE)
          /\ txs' = [txs EXCEPT ![c] = e.row]
          /\ wallets' = [wallets EXCEPT ![w] = e.wallet]
          /\ ledger' = [ledger EXCEPT ![w] = @ \o e.entries]
          /\ UNCHANGED due
  /\ UNCHANGED <<cmd, workerVars, crashes>>

\* handleClaimConflict, on a connection of its own: two reads, two steps.
LookupKey(c) ==
  /\ pc[c] = "lookupKey"
  /\ LET found == FindByKey(txs, cmd[c].key) IN
     IF found = {} THEN /\ pc' = [pc EXCEPT ![c] = "lookupExternal"]
                        /\ UNCHANGED reply
     ELSE LET t == CHOOSE t \in found : TRUE IN
          /\ pc' = [pc EXCEPT ![c] = "done"]
          /\ IF SamePayload(txs[t].cmd, cmd[c])
               THEN Returned(c, "ok", t, TRUE)
               ELSE Returned(c, "IDEMPOTENCY_CONFLICT", None, FALSE)
  /\ UNCHANGED <<dbVars, lock, cmd, seen, verdict, workerVars, crashes>>

LookupExternal(c) ==
  /\ pc[c] = "lookupExternal"
  /\ pc' = [pc EXCEPT ![c] = "done"]
  /\ IF FindByExternal(txs, cmd[c].ext) # {}
       THEN Returned(c, "IDEMPOTENCY_CONFLICT", None, FALSE)
       ELSE Returned(c, "TRANSIENT_PROCESSING_ERROR", None, FALSE)
  /\ UNCHANGED <<dbVars, lock, cmd, seen, verdict, workerVars, crashes>>

\* The process dies with the call open: Postgres rolls back, nobody answers.
CrashCall(c) ==
  /\ crashes < MaxCrashes /\ pc[c] \notin {"idle", "done"}
  /\ crashes' = crashes + 1
  /\ EndCall(c, "done")
  /\ UNCHANGED <<dbVars, cmd, reply, workerVars>>

-----------------------------------------------------------------------------
(* ReprocessPendingReferencesUseCase.run                                   *)

\* computeReferenceBackoffMs has elapsed for row t.
BecomeDue(t) ==
  /\ txs[t] # None /\ txs[t].status = "PENDING_REFERENCE" /\ t \notin due
  /\ due' = due \cup {t}
  /\ UNCHANGED <<wallets, txs, ledger, lock, callVars, workerVars, crashes>>

\* FOR UPDATE SKIP LOCKED: the rows of open batches, processed or not.
InBatch(k) == Stored(written[k]) \cup {todo[k][i] : i \in 1 .. Len(todo[k])}

\* Mutant: the query loses its lock mode, and with it both the row locks and
\* SKIP LOCKED.
SelectableUnlocked == {t \in due : TRUE}

Selectable ==
  {t \in due : \A k \in Workers : t \notin InBatch(k)}

Orders(S) ==
  {s \in [1 .. Cardinality(S) -> S] :
     \A i, j \in 1 .. Cardinality(S) : s[i] = s[j] => i = j}

\* LIMIT without ORDER BY: which rows, and in which order, is open.
Batches ==
  {S \in SUBSET Selectable :
     /\ S # {} /\ Cardinality(S) <= BatchSize
     /\ Cardinality(S) < BatchSize => S = Selectable}

SelectBatch(k) ==
  /\ wpc[k] = "idle"
  /\ \E S \in Batches : \E s \in Orders(S) : todo' = [todo EXCEPT ![k] = s]
  /\ wpc' = [wpc EXCEPT ![k] = "batch"]
  /\ UNCHANGED <<dbVars, lock, callVars, wref, written, copy, moved, crashes>>

\* Mutant: the run ends without ending its transaction.
LeaveBatchOpen(k) ==
  /\ wpc' = [wpc EXCEPT ![k] = "idle"]
  /\ todo' = [todo EXCEPT ![k] = <<>>]
  /\ wref' = [wref EXCEPT ![k] = None]
  /\ UNCHANGED <<written, copy, moved, lock>>

EndBatch(k) ==
  /\ wpc' = [wpc EXCEPT ![k] = "idle"]
  /\ todo' = [todo EXCEPT ![k] = <<>>]
  /\ wref' = [wref EXCEPT ![k] = None]
  /\ written' = [written EXCEPT ![k] = NoWrites]
  /\ copy' = [copy EXCEPT ![k] = NoCopies]
  /\ moved' = [moved EXCEPT ![k] = NoMoves]
  /\ lock' = Released(k)

\* Own writes over the committed rows.
WorkerView(k) ==
  [t \in TxIds |-> IF written[k][t] # None THEN written[k][t] ELSE txs[t]]

Decided(k, t, row) ==
  /\ written' = [written EXCEPT ![k][t] = row]
  /\ todo' = [todo EXCEPT ![k] = Tail(@)]

\* Mutant: the timeout comes one attempt early.
TimesOutEarly(row, v) ==
  IF v.outcome = "rejected" THEN MarkRejected(row, v.code)
  ELSE IF row.attempts + 1 >= MaxAttempts
    THEN MarkRejected(row, "REFERENCE_RESOLUTION_TIMEOUT")
  ELSE MarkPendingReference(row)

\* Mutant: the retry is scheduled again without counting the attempt.
RetriesUncounted(row, v) ==
  IF v.outcome = "rejected" THEN MarkRejected(row, v.code) ELSE row

\* The row a reference that does not resolve leaves behind.
Unresolved(row, v) ==
  IF v.outcome = "rejected" THEN MarkRejected(row, v.code)
  ELSE IF row.attempts >= MaxAttempts
    THEN MarkRejected(row, "REFERENCE_RESOLUTION_TIMEOUT")
  ELSE MarkPendingReference(row)

\* The reference is resolved before the wallet is locked.
ResolveItem(k) ==
  LET t == Head(todo[k])
      v == ResolveReference(WorkerView(k), txs[t].cmd)
  IN
  /\ wpc[k] = "batch" /\ todo[k] # <<>>
  /\ IF v.outcome = "resolved"
       THEN /\ wpc' = [wpc EXCEPT ![k] = "lock"]
            /\ wref' = [wref EXCEPT ![k] = v.ref]
            /\ UNCHANGED <<written, todo>>
       ELSE Decided(k, t, Unresolved(txs[t], v)) /\ UNCHANGED <<wpc, wref>>
  /\ UNCHANGED <<dbVars, lock, callVars, copy, moved, crashes>>

\* Mutant: the worker forgets that an earlier row of its batch moved the wallet.
ItemEffectOnCommitted(k) ==
  LET t == Head(todo[k])
      w == txs[t].cmd.wallet
  IN ApplyEffect(t, txs[t], wallets[w], wref[k], RefKind(WorkerView(k), wref[k]))

ItemEffect(k) ==
  LET t == Head(todo[k])
      w == txs[t].cmd.wallet
      wallet == IF copy[k][w] # None THEN copy[k][w] ELSE wallets[w]
  IN ApplyEffect(t, txs[t], wallet, wref[k], RefKind(WorkerView(k), wref[k]))

\* The lock is granted and the effect applied; the flush may still violate
\* the reference-once index, and then the whole batch rolls back.
ApplyItem(k) ==
  LET t == Head(todo[k])
      w == txs[t].cmd.wallet
      e == ItemEffect(k)
  IN
  /\ wpc[k] = "lock" /\ lock[w] \in {None, k}
  /\ IF e.error # None \/ ViolatesReferenceOnce(WorkerView(k), t, e.row)
       THEN EndBatch(k)
       ELSE /\ Decided(k, t, e.row)
            /\ copy' = [copy EXCEPT ![k][w] = e.wallet]
            /\ moved' = [moved EXCEPT ![k][w] = @ \o e.entries]
            /\ lock' = [lock EXCEPT ![w] = k]
            /\ wpc' = [wpc EXCEPT ![k] = "batch"]
            /\ wref' = [wref EXCEPT ![k] = None]
  /\ UNCHANGED <<dbVars, callVars, crashes>>

CommitBatch(k) ==
  /\ wpc[k] = "batch" /\ todo[k] = <<>>
  /\ txs' = WorkerView(k)
  /\ wallets' = [w \in Wallets |->
                   IF copy[k][w] # None THEN copy[k][w] ELSE wallets[w]]
  /\ ledger' = [w \in Wallets |-> ledger[w] \o moved[k][w]]
  /\ due' = due \ Stored(written[k])
  /\ EndBatch(k)
  /\ UNCHANGED <<callVars, crashes>>

CrashWorker(k) ==
  /\ crashes < MaxCrashes /\ wpc[k] # "idle"
  /\ crashes' = crashes + 1
  /\ EndBatch(k)
  /\ UNCHANGED <<dbVars, callVars>>

-----------------------------------------------------------------------------
(* Postgres aborts one transaction of a cycle of waits.                    *)

WalletHolder(w, p) == {lock[w]} \ {None, p}

WaitsFor(p) ==
  IF p \in Calls
    THEN CASE pc[p] = "lock"  -> WalletHolder(cmd[p].wallet, p)
           [] pc[p] = "claim" -> ClaimWaitsFor(p)
           [] OTHER           -> {}
    ELSE IF wpc[p] = "lock" THEN WalletHolder(txs[Head(todo[p])].cmd.wallet, p)
                            ELSE {}

Stuck(S) == S # {} /\ \A p \in S : WaitsFor(p) \cap S # {}
Deadlocked(S) == Stuck(S) /\ \A T \in SUBSET S : Stuck(T) => T = S

AbortCall(c) ==
  /\ WaitsFor(c) # {}
  /\ \E S \in SUBSET Procs : c \in S /\ Deadlocked(S)
  /\ EndCall(c, "done")
  /\ Returned(c, "DEADLOCK", None, FALSE)
  /\ UNCHANGED <<dbVars, cmd, workerVars, crashes>>

AbortWorker(k) ==
  /\ WaitsFor(k) # {}
  /\ \E S \in SUBSET Procs : k \in S /\ Deadlocked(S)
  /\ EndBatch(k)
  /\ UNCHANGED <<dbVars, callVars, crashes>>

-----------------------------------------------------------------------------
CallStep(c) ==
  \/ RefuseCommand(c) \/ LockWallet(c) \/ Claim(c) \/ ClaimConflict(c)
  \/ Resolve(c) \/ Finish(c) \/ LookupKey(c) \/ LookupExternal(c)
  \/ AbortCall(c)

WorkerStep(k) ==
  \/ SelectBatch(k) \/ ResolveItem(k) \/ ApplyItem(k) \/ CommitBatch(k)
  \/ AbortWorker(k)

Next ==
  \/ \E w \in Wallets, o \in AllOpenings : OpenWallet(w, o)
  \/ \E c \in Calls, m \in AllCommands : Begin(c, m)
  \/ \E c \in Calls : CallStep(c) \/ CrashCall(c)
  \/ \E k \in Workers : WorkerStep(k) \/ CrashWorker(k)
  \/ \E t \in TxIds : BecomeDue(t)

Spec == Init /\ [][Next]_vars

\* A begun call and the retry loop keep running, and time passes.  A process
\* that asks for a lock is queued by Postgres, so it is not overtaken forever.
Fairness ==
  /\ \A c \in Calls : SF_vars(CallStep(c))
  /\ \A k \in Workers : SF_vars(WorkerStep(k))
  /\ \A t \in TxIds : WF_vars(BecomeDue(t))

FairSpec == Spec /\ Fairness
====
