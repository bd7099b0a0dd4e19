---- MODULE WageringProofs ----
(***************************************************************************)
(* Theorems about the wagering core, for every set of calls, workers,      *)
(* wallets, commands and openings.  TypeInv strengthens TypeOK with what   *)
(* each program point knows of the data it is about to use.                *)
(***************************************************************************)
EXTENDS WageringProperties, FiniteSetTheorems, TLAPS

\* A call that has begun knows its command, one that holds its wallet has
\* read it, and one about to finish has resolved its reference.
CallReady ==
  \A c \in Calls :
    /\ pc[c] # "idle" => cmd[c] \in AllCommands
    /\ InTransaction(c) => seen[c] \in WalletRows
    /\ pc[c] = "finish" => verdict[c] \in Verdicts

\* Due rows and rows of a batch exist, and so do the wallets of all rows.
BatchReady ==
  /\ \A t \in due : txs[t] \in Rows
  /\ \A k \in Workers :
       /\ \A i \in 1 .. Len(todo[k]) : txs[todo[k][i]] \in Rows
       /\ wpc[k] = "lock" => todo[k] # <<>>
       /\ \A t \in TxIds : written[k][t] \in Rows =>
            wallets[written[k][t].cmd.wallet] \in WalletRows
  /\ \A t \in TxIds :
       txs[t] \in Rows => wallets[txs[t].cmd.wallet] \in WalletRows

TypeInv == TypeOK /\ CallReady /\ BatchReady

-----------------------------------------------------------------------------
(* What the operators of the domain return                                 *)

\* Every command a row can hold names a wallet and a natural amount.
LEMMA CommandFields ==
  ASSUME NEW m \in CommandRecords
  PROVE  m.wallet \in Wallets /\ m.amount \in Nat
<1>1. CASE m \in AllCommands
  BY <1>1, CommandsAssumption
<1>2. CASE m \in {OpeningRow(w, o).cmd : w \in Wallets, o \in AllOpenings}
  BY <1>2, CommandsAssumption DEF OpeningRow
<1> QED
  BY <1>1, <1>2 DEF CommandRecords

\* The rows a command or an opening starts with are well typed.
LEMMA NewRowType ==
  ASSUME NEW m \in AllCommands
  PROVE  NewRow(m) \in Rows
BY BoundsAssumption DEF NewRow, Rows, Statuses, CommandRecords

LEMMA OpeningRowType ==
  ASSUME NEW w \in Wallets, NEW o \in AllOpenings
  PROVE  /\ OpeningRow(w, o) \in Rows
         /\ OpeningRow(w, o).cmd.wallet = w
         /\ o.amount <= MaxBalance => OpenedWallet(o) \in WalletRows
<1>1. OpeningRow(w, o).cmd \in CommandRecords
  BY DEF CommandRecords
<1>2. o.amount \in Nat
  BY CommandsAssumption
<1>3. o.amount <= MaxBalance => o.amount \in 0 .. MaxBalance
  BY <1>2, MaxBalanceAssumption
<1> QED
  BY <1>1, <1>3, BoundsAssumption
  DEF OpeningRow, OpenedWallet, Rows, WalletRows, Statuses

\* The transitions of a row keep it a row, of the same command.
LEMMA MarkType ==
  ASSUME NEW row \in Rows, NEW ref \in TxIds \cup {None}, NEW code \in FailureCodes
  PROVE  /\ MarkProcessed(row, ref) \in Rows
         /\ MarkProcessed(row, ref).cmd = row.cmd
         /\ MarkRejected(row, code) \in Rows
         /\ MarkRejected(row, code).cmd = row.cmd
         /\ row.attempts < MaxAttempts => MarkPendingReference(row) \in Rows
         /\ MarkPendingReference(row).cmd = row.cmd
<1>1. MarkProcessed(row, ref) \in Rows /\ MarkProcessed(row, ref).cmd = row.cmd
  BY DEF MarkProcessed, Rows, Statuses
<1>2. MarkRejected(row, code) \in Rows /\ MarkRejected(row, code).cmd = row.cmd
  BY DEF MarkRejected, Rows, Statuses
<1>3. row.attempts \in 0 .. MaxAttempts
  BY DEF Rows
<1>4. row.attempts < MaxAttempts => row.attempts + 1 \in 0 .. MaxAttempts
  BY <1>3, BoundsAssumption
<1>5. MarkPendingReference(row).cmd = row.cmd
  BY DEF MarkPendingReference, Rows
<1>6. row.attempts < MaxAttempts => MarkPendingReference(row) \in Rows
  BY <1>4 DEF MarkPendingReference, Rows, Statuses
<1> QED
  BY <1>1, <1>2, <1>5, <1>6

\* Whatever a reference resolves to is a verdict.
LEMMA VerdictType ==
  ASSUME NEW table \in [TxIds -> Rows \cup {None}], NEW m
  PROVE  ResolveReference(table, m) \in Verdicts
<1>1. PendingVerdict \in Verdicts
  BY DEF PendingVerdict, Verdicts
<1>2. \A code \in FailureCodes : RejectedVerdict(code) \in Verdicts
  BY NoneAssumption DEF RejectedVerdict, Verdicts
<1>3. \A t \in TxIds : ResolvedVerdict(t) \in Verdicts
  BY DEF ResolvedVerdict, Verdicts
<1>4. ASSUME NEW t \in TxIds PROVE JudgeReference(table, m, t) \in Verdicts
  BY <1>1, <1>2, <1>3 DEF JudgeReference, FailureCodes
<1>5. FindByExternal(table, m.ref) \subseteq TxIds
  BY DEF FindByExternal, Stored
<1> QED
  BY <1>1, <1>4, <1>5 DEF ResolveReference

\* A movement that is not refused leaves a balance its column can hold, and an
\* effect is made of a row, a wallet and entries of their types.
LEMMA EffectType ==
  ASSUME NEW t \in TxIds, NEW row \in Rows, NEW wallet \in WalletRows,
         NEW ref \in TxIds \cup {None}, NEW refKind
  PROVE  LET e == ApplyEffect(t, row, wallet, ref, refKind) IN
         /\ e.row \in Rows /\ e.row.cmd = row.cmd
         /\ e.wallet \in WalletRows /\ e.entries \in Seq(Entries)
         /\ e.error \in {None, "UNBALANCED_LEDGER_ENTRY", "OUT_OF_RANGE"}
<1> DEFINE dir == LedgerDirectionFor(row.cmd.kind, refKind)
           refusal == MovementRefusal(wallet, row.cmd, dir)
<1>1. row.cmd.amount \in Nat /\ row.cmd \in CommandRecords
  BY CommandFields DEF Rows
<1>2. dir \in Directions
  BY DEF LedgerDirectionFor, Direction, Opposite, Directions
<1> HIDE DEF dir
<1>3. wallet.balance \in Nat /\ wallet.version \in Nat
  BY MaxBalanceAssumption DEF WalletRows
<1>4. ASSUME refusal = None
      PROVE  ExpectedBalanceAfter(dir, wallet.balance, row.cmd.amount) \in Nat
  <2>1. ASSUME dir = "DEBIT", wallet.balance < row.cmd.amount PROVE FALSE
    <3>1. refusal \in {"WALLET_CURRENCY_MISMATCH", "INSUFFICIENT_BALANCE",
                       "ROLLBACK_INSUFFICIENT_BALANCE"}
      BY <2>1 DEF MovementRefusal
    <3> QED
      BY <3>1, <1>4, NoneAssumption DEF FailureCodes
  <2>2. CASE dir = "DEBIT"
    <3>1. wallet.balance >= row.cmd.amount
      BY <2>1, <2>2, <1>1, <1>3
    <3>2. wallet.balance - row.cmd.amount \in Nat
      BY <3>1, <1>1, <1>3
    <3> QED
      BY <2>2, <3>2 DEF ExpectedBalanceAfter
  <2>3. CASE dir = "CREDIT"
    <3>1. wallet.balance + row.cmd.amount \in Nat
      BY <1>1, <1>3
    <3> QED
      BY <2>3, <3>1 DEF ExpectedBalanceAfter
  <2> QED
    BY <1>2, <2>2, <2>3 DEF Directions
<1>5. ASSUME refusal = None
      PROVE  ApplyMovement(wallet, dir, row.cmd.amount) \in WalletRows
  <2> DEFINE after == ExpectedBalanceAfter(dir, wallet.balance, row.cmd.amount)
             version == wallet.version + 1
  <2>0. ~(after > MaxBalance)
    BY <1>5, NoneAssumption DEF MovementRefusal, FailureCodes, Errors
  <2>1. after \in 0 .. MaxBalance /\ version \in Nat
    BY <2>0, <1>3, <1>4, <1>5, MaxBalanceAssumption
  <2>2. ApplyMovement(wallet, dir, row.cmd.amount)
          = [wallet EXCEPT !.balance = after, !.version = version]
    BY DEF ApplyMovement
  <2> HIDE DEF after, version
  <2> QED
    BY <2>1, <2>2 DEF WalletRows
<1>6. ASSUME refusal = None
      PROVE  <<LedgerEntry(t, dir, wallet.balance, row.cmd.amount)>> \in Seq(Entries)
  <2>1. LedgerEntry(t, dir, wallet.balance, row.cmd.amount) \in Entries
    BY <1>1, <1>2, <1>3, <1>4, <1>6 DEF LedgerEntry, Entries
  <2> QED
    BY <2>1
<1>7. <<>> \in Seq(Entries)
  OBVIOUS
<1>8. MarkProcessed(row, ref) \in Rows /\ MarkProcessed(row, ref).cmd = row.cmd
  BY MarkType DEF FailureCodes
<1>9. ASSUME refusal \in FailureCodes
      PROVE  MarkRejected(row, refusal) \in Rows
             /\ MarkRejected(row, refusal).cmd = row.cmd
  BY <1>9, MarkType
<1>10. refusal \in FailureCodes \cup {None, "UNBALANCED_LEDGER_ENTRY", "OUT_OF_RANGE"}
  BY DEF MovementRefusal, FailureCodes
<1> HIDE DEF refusal
<1> QED
  BY <1>5, <1>6, <1>7, <1>8, <1>9, <1>10 DEF ApplyEffect, Effect, dir, refusal

-----------------------------------------------------------------------------
(* TypeInv is inductive: one lemma per group of actions                    *)

LEMMA InitType == Init => TypeInv
<1> SUFFICES ASSUME Init PROVE TypeInv
  OBVIOUS
<1>1. DbTypeOK
  BY DEF Init, DbTypeOK, NoWrites, NoCopies, NoMoves
<1>2. CallTypeOK /\ CallReady
  BY DEF Init, CallTypeOK, CallReady, InTransaction
<1>3. WorkerTypeOK
  BY DEF Init, WorkerTypeOK, NoWrites, NoCopies, NoMoves
<1>4. BatchReady
  <2>1. \A t \in TxIds : txs[t] \notin Rows
    BY RowAssumption DEF Init, NoWrites
  <2>2. \A k \in Workers : \A t \in TxIds : written[k][t] \notin Rows
    BY RowAssumption DEF Init, NoWrites
  <2>3. \A k \in Workers : todo[k] = <<>> /\ wpc[k] = "idle"
    BY DEF Init
  <2> QED
    BY <2>1, <2>2, <2>3 DEF Init, BatchReady
<1>5. crashes \in 0 .. MaxCrashes
  BY BoundsAssumption DEF Init
<1> QED
  BY <1>1, <1>2, <1>3, <1>4, <1>5 DEF TypeInv, TypeOK

\* What a call does before it finishes changes no table: only its own
\* program point, reads and reply, and perhaps the lock of its wallet.
LEMMA EndCallType ==
  ASSUME TypeInv, NEW c \in Calls, NEW next \in {"done", "lookupKey"},
         EndCall(c, next), cmd[c] \in AllCommands, UNCHANGED cmd
  PROVE  /\ lock' \in [Wallets -> Procs \cup {None}]
         /\ pc' \in [Calls -> {"idle", "lock", "claim", "resolve", "finish",
                                "lookupKey", "lookupExternal", "done"}]
         /\ cmd' \in [Calls -> AllCommands \cup {None}]
         /\ seen' \in [Calls -> WalletRows \cup {None}]
         /\ verdict' \in [Calls -> Verdicts \cup {None}]
         /\ CallReady'
<1>1. lock' \in [Wallets -> Procs \cup {None}]
  BY DEF TypeInv, TypeOK, DbTypeOK, EndCall, Released
<1>2. /\ pc' = [pc EXCEPT ![c] = next]
      /\ seen' = [seen EXCEPT ![c] = None]
      /\ verdict' = [verdict EXCEPT ![c] = None]
  BY DEF EndCall
<1> QED
  BY <1>1, <1>2 DEF TypeInv, TypeOK, CallTypeOK, CallReady, InTransaction

LEMMA ReplyType ==
  ASSUME TypeInv, NEW c \in Calls, NEW outcome \in Outcomes,
         NEW t \in TxIds \cup {None}, NEW replay \in BOOLEAN,
         Returned(c, outcome, t, replay)
  PROVE  reply' \in [Calls -> Replies \cup {None}]
<1>1. [outcome |-> outcome, tx |-> t, replay |-> replay] \in Replies
  BY DEF Replies
<1> QED
  BY <1>1 DEF Returned, TypeInv, TypeOK, CallTypeOK

\* Nothing a step leaves alone can stop being well typed.
LEMMA TablesKept ==
  ASSUME TypeInv, UNCHANGED dbVars, UNCHANGED workerVars
  PROVE  WorkerTypeOK' /\ BatchReady' /\ txs' \in [TxIds -> Rows \cup {None}]
         /\ wallets' \in [Wallets -> WalletRows \cup {None}]
         /\ ledger' \in [Wallets -> Seq(Entries)] /\ due' \subseteq TxIds
BY DEF TypeInv, TypeOK, DbTypeOK, WorkerTypeOK, BatchReady, dbVars, workerVars

LEMMA RefuseCommandType ==
  ASSUME TypeInv, NEW c \in Calls, RefuseCommand(c)
  PROVE  TypeInv'
<1>1. cmd[c] \in AllCommands
  BY DEF TypeInv, CallReady, RefuseCommand
<1>2. Refusal(cmd[c]) \in Outcomes
  BY DEF Refusal, Outcomes, Errors, RefuseCommand
<1>3. reply' \in [Calls -> Replies \cup {None}]
  BY <1>2, ReplyType DEF RefuseCommand
<1>4. EndCall(c, "done") /\ UNCHANGED <<dbVars, cmd, workerVars, crashes>>
  BY DEF RefuseCommand
<1> QED
  BY <1>1, <1>3, <1>4, EndCallType, TablesKept
  DEF TypeInv, TypeOK, DbTypeOK, CallTypeOK

LEMMA AbortCallType ==
  ASSUME TypeInv, NEW c \in Calls, AbortCall(c)
  PROVE  TypeInv'
<1>1. pc[c] # "idle"
  BY DEF AbortCall, WaitsFor
<1>2. cmd[c] \in AllCommands
  BY <1>1 DEF TypeInv, CallReady
<1>3. reply' \in [Calls -> Replies \cup {None}]
  BY ReplyType DEF AbortCall, Outcomes, Errors
<1>4. EndCall(c, "done") /\ UNCHANGED <<dbVars, cmd, workerVars, crashes>>
  BY DEF AbortCall
<1> QED
  BY <1>2, <1>3, <1>4, EndCallType, TablesKept
  DEF TypeInv, TypeOK, DbTypeOK, CallTypeOK

LEMMA CrashCallType ==
  ASSUME TypeInv, NEW c \in Calls, CrashCall(c)
  PROVE  TypeInv'
<1>1. cmd[c] \in AllCommands
  BY DEF TypeInv, CallReady, CrashCall
<1>2. EndCall(c, "done") /\ UNCHANGED <<dbVars, cmd, reply, workerVars>>
  BY DEF CrashCall
<1>3. crashes' \in 0 .. MaxCrashes
  BY BoundsAssumption DEF CrashCall, TypeInv, TypeOK
<1> QED
  BY <1>1, <1>2, <1>3, EndCallType, TablesKept
  DEF TypeInv, TypeOK, DbTypeOK, CallTypeOK

LEMMA ClaimConflictType ==
  ASSUME TypeInv, NEW c \in Calls, ClaimConflict(c)
  PROVE  TypeInv'
<1>1. cmd[c] \in AllCommands
  BY DEF TypeInv, CallReady, ClaimConflict
<1>2. EndCall(c, "lookupKey") /\ UNCHANGED <<dbVars, cmd, reply, workerVars, crashes>>
  BY DEF ClaimConflict
<1> QED
  BY <1>1, <1>2, EndCallType, TablesKept
  DEF TypeInv, TypeOK, DbTypeOK, CallTypeOK

LEMMA BeginType ==
  ASSUME TypeInv, NEW c \in Calls, NEW m \in AllCommands, Begin(c, m)
  PROVE  TypeInv'
<1>1. CallTypeOK' /\ CallReady'
  BY DEF Begin, TypeInv, TypeOK, CallTypeOK, CallReady, InTransaction
<1> QED
  BY <1>1, TablesKept DEF Begin, TypeInv, TypeOK, DbTypeOK

LEMMA LockWalletType ==
  ASSUME TypeInv, NEW c \in Calls, LockWallet(c)
  PROVE  TypeInv'
<1>1. cmd[c] \in AllCommands /\ cmd[c].wallet \in Wallets
  BY CommandsAssumption DEF TypeInv, CallReady, LockWallet
<1>2. wallets[cmd[c].wallet] # None
  BY NoneAssumption DEF LockWallet, Refusal, Errors
<1>3. wallets[cmd[c].wallet] \in WalletRows
  BY <1>1, <1>2 DEF TypeInv, TypeOK, DbTypeOK
<1>4. CallTypeOK' /\ CallReady'
  BY <1>3 DEF LockWallet, TypeInv, TypeOK, CallTypeOK, CallReady, InTransaction
<1>5. lock' \in [Wallets -> Procs \cup {None}]
  BY DEF LockWallet, TypeInv, TypeOK, DbTypeOK, Procs
<1> QED
  BY <1>4, <1>5, TablesKept DEF LockWallet, TypeInv, TypeOK, DbTypeOK

LEMMA ClaimType ==
  ASSUME TypeInv, NEW c \in Calls, Claim(c)
  PROVE  TypeInv'
<1>1. ResolvedVerdict(None) \in Verdicts
  BY DEF ResolvedVerdict, Verdicts
<1>2. CallTypeOK' /\ CallReady'
  BY <1>1 DEF Claim, TypeInv, TypeOK, CallTypeOK, CallReady, InTransaction
<1> QED
  BY <1>2, TablesKept DEF Claim, TypeInv, TypeOK, DbTypeOK

LEMMA ResolveType ==
  ASSUME TypeInv, NEW c \in Calls, Resolve(c)
  PROVE  TypeInv'
<1>1. CallView(c) \in [TxIds -> Rows \cup {None}]
  BY NewRowType
  DEF CallView, Resolve, TypeInv, TypeOK, DbTypeOK, CallReady
<1>2. ResolveReference(CallView(c), cmd[c]) \in Verdicts
  BY <1>1, VerdictType
<1>3. CallTypeOK' /\ CallReady'
  BY <1>2 DEF Resolve, TypeInv, TypeOK, CallTypeOK, CallReady, InTransaction
<1> QED
  BY <1>3, TablesKept DEF Resolve, TypeInv, TypeOK, DbTypeOK

LEMMA LookupType ==
  ASSUME TypeInv, NEW c \in Calls, LookupKey(c) \/ LookupExternal(c)
  PROVE  TypeInv'
<1>1. reply' \in [Calls -> Replies \cup {None}]
  <2>1. FindByKey(txs, cmd[c].key) \subseteq TxIds
    BY DEF FindByKey, Stored, TypeInv, TypeOK, DbTypeOK
  <2>2. CASE LookupKey(c)
    BY <2>1, <2>2, ReplyType
    DEF LookupKey, Outcomes, Errors, TypeInv, TypeOK, CallTypeOK
  <2>3. CASE LookupExternal(c)
    BY <2>3, ReplyType DEF LookupExternal, Outcomes, Errors
  <2> QED
    BY <2>2, <2>3
<1>3. /\ UNCHANGED <<dbVars, lock, cmd, seen, verdict, workerVars, crashes>>
      /\ pc[c] # "idle"
      /\ \E next \in {"done", "lookupExternal"} : pc' = [pc EXCEPT ![c] = next]
  BY DEF LookupKey, LookupExternal
<1>4. CallTypeOK' /\ CallReady'
  BY <1>1, <1>3 DEF TypeInv, TypeOK, CallTypeOK, CallReady, InTransaction
<1> QED
  BY <1>3, <1>4, TablesKept DEF TypeInv, TypeOK, DbTypeOK

\* What a call commits: a row, its wallet and at most one entry.
LEMMA CallEffectType ==
  ASSUME TypeInv, NEW c \in Calls, pc[c] = "finish"
  PROVE  LET e == CallEffect(c) IN
         /\ e.row \in Rows /\ e.row.cmd = cmd[c]
         /\ e.wallet \in WalletRows /\ e.entries \in Seq(Entries)
         /\ e.error \in {None, "UNBALANCED_LEDGER_ENTRY", "OUT_OF_RANGE"}
<1>1. NewRow(cmd[c]) \in Rows /\ NewRow(cmd[c]).cmd = cmd[c]
      /\ NewRow(cmd[c]).attempts = 0
  BY NewRowType DEF TypeInv, CallReady, NewRow
<1>2. seen[c] \in WalletRows /\ verdict[c] \in Verdicts
  BY DEF TypeInv, CallReady, InTransaction
<1>3. /\ verdict[c].outcome \in {"pending", "rejected", "resolved"}
      /\ verdict[c].ref \in TxIds \cup {None}
      /\ verdict[c].outcome = "rejected" => verdict[c].code \in FailureCodes
  BY <1>2 DEF Verdicts
<1>4. <<>> \in Seq(Entries)
  OBVIOUS
<1>5. CASE verdict[c].outcome = "pending"
  <2>1. MarkPendingReference(NewRow(cmd[c])) \in Rows
        /\ MarkPendingReference(NewRow(cmd[c])).cmd = cmd[c]
    BY <1>1, MarkType, BoundsAssumption DEF FailureCodes
  <2> QED
    BY <2>1, <1>2, <1>4, <1>5 DEF CallEffect, Effect
<1>6. CASE verdict[c].outcome = "rejected"
  <2>1. MarkRejected(NewRow(cmd[c]), verdict[c].code) \in Rows
        /\ MarkRejected(NewRow(cmd[c]), verdict[c].code).cmd = cmd[c]
    BY <1>1, <1>3, <1>6, MarkType
  <2> QED
    BY <2>1, <1>2, <1>4, <1>6 DEF CallEffect, Effect
<1>7. CASE verdict[c].outcome = "resolved"
  <2>1. CallEffect(c) = ApplyEffect(c, NewRow(cmd[c]), seen[c], verdict[c].ref,
                                    RefKind(txs, verdict[c].ref))
    BY <1>7 DEF CallEffect
  <2>2. c \in TxIds /\ seen[c] \in WalletRows /\ verdict[c].ref \in TxIds \cup {None}
    BY <1>2, <1>3 DEF TxIds
  <2> DEFINE ref == verdict[c].ref
             kind == RefKind(txs, ref)
             row == NewRow(cmd[c])
  <2> HIDE DEF ref, kind, row
  <2>3. LET e == ApplyEffect(c, row, seen[c], ref, kind) IN
        /\ e.row \in Rows /\ e.row.cmd = row.cmd
        /\ e.wallet \in WalletRows /\ e.entries \in Seq(Entries)
        /\ e.error \in {None, "UNBALANCED_LEDGER_ENTRY", "OUT_OF_RANGE"}
    BY <2>2, <1>1, EffectType DEF ref, row
  <2> QED
    BY <2>1, <2>3, <1>1 DEF ref, kind, row
<1> QED
  BY <1>3, <1>5, <1>6, <1>7

\* Writing rows of opened wallets keeps what batches rely on.
LEMMA BatchReadyKept ==
  ASSUME TypeInv, UNCHANGED <<due, workerVars>>,
         \A t \in TxIds :
           \/ txs'[t] = txs[t]
           \/ txs'[t] \in Rows /\ wallets'[txs'[t].cmd.wallet] \in WalletRows,
         \A w \in Wallets : wallets[w] \in WalletRows => wallets'[w] \in WalletRows
  PROVE  BatchReady'
<1>1. ASSUME NEW row \in Rows, wallets[row.cmd.wallet] \in WalletRows
      PROVE  wallets'[row.cmd.wallet] \in WalletRows
  BY <1>1, CommandFields DEF Rows
<1>2. ASSUME NEW t \in TxIds, txs'[t] \in Rows
      PROVE  wallets'[txs'[t].cmd.wallet] \in WalletRows
  BY <1>1, <1>2 DEF TypeInv, BatchReady
<1>3. \A t \in due' : txs'[t] \in Rows
  BY DEF TypeInv, TypeOK, DbTypeOK, BatchReady
<1>4. ASSUME NEW k \in Workers, NEW i \in 1 .. Len(todo[k])
      PROVE  txs'[todo[k][i]] \in Rows
  <2>1. todo[k][i] \in TxIds
    BY DEF TypeInv, TypeOK, WorkerTypeOK
  <2> QED
    BY <2>1 DEF TypeInv, BatchReady
<1>5. ASSUME NEW k \in Workers, NEW t \in TxIds, written[k][t] \in Rows
      PROVE  wallets'[written[k][t].cmd.wallet] \in WalletRows
  BY <1>1, <1>5 DEF TypeInv, BatchReady
<1> QED
  BY <1>2, <1>3, <1>4, <1>5 DEF BatchReady, TypeInv, workerVars

LEMMA OpenWalletType ==
  ASSUME TypeInv, NEW w \in Wallets, NEW o \in AllOpenings, OpenWallet(w, o)
  PROVE  TypeInv'
<1>1. OpeningRow(w, o) \in Rows /\ OpeningRow(w, o).cmd.wallet = w
      /\ OpenedWallet(o) \in WalletRows
  BY OpeningRowType DEF OpenWallet
<1>2. w \in TxIds /\ o.amount \in Nat
  BY CommandsAssumption DEF TxIds
<1>3. <<LedgerEntry(w, "CREDIT", 0, o.amount)>> \in Seq(Entries)
  <2>1. LedgerEntry(w, "CREDIT", 0, o.amount) \in Entries
    BY <1>2 DEF LedgerEntry, ExpectedBalanceAfter, Entries, Directions
  <2> QED
    BY <2>1
<1>4. wallets' = [wallets EXCEPT ![w] = OpenedWallet(o)]
  BY DEF OpenWallet
<1>5. \/ UNCHANGED <<txs, ledger>>
      \/ /\ txs' = [txs EXCEPT ![w] = OpeningRow(w, o)]
         /\ ledger' = [ledger EXCEPT ![w] = <<LedgerEntry(w, "CREDIT", 0, o.amount)>>]
  BY DEF OpenWallet
<1>6. UNCHANGED <<due, lock, callVars, workerVars, crashes>>
  BY DEF OpenWallet
<1>7. wallets' \in [Wallets -> WalletRows \cup {None}]
  BY <1>1, <1>4 DEF TypeInv, TypeOK, DbTypeOK
<1>8. txs' \in [TxIds -> Rows \cup {None}] /\ ledger' \in [Wallets -> Seq(Entries)]
  BY <1>1, <1>2, <1>3, <1>5 DEF TypeInv, TypeOK, DbTypeOK
<1>9. BatchReady'
  <2>1. \A v \in Wallets : wallets[v] \in WalletRows => wallets'[v] \in WalletRows
    BY <1>1, <1>4 DEF TypeInv, TypeOK, DbTypeOK
  <2>2. \A t \in TxIds :
          \/ txs'[t] = txs[t]
          \/ txs'[t] \in Rows /\ wallets'[txs'[t].cmd.wallet] \in WalletRows
    BY <1>1, <1>2, <1>4, <1>5 DEF TypeInv, TypeOK, DbTypeOK
  <2> QED
    BY <1>6, <2>1, <2>2, BatchReadyKept
<1> QED
  BY <1>6, <1>7, <1>8, <1>9
  DEF TypeInv, TypeOK, DbTypeOK, CallTypeOK, WorkerTypeOK, CallReady,
      InTransaction, callVars, workerVars

LEMMA FinishType ==
  ASSUME TypeInv, NEW c \in Calls, Finish(c)
  PROVE  TypeInv'
<1> DEFINE e == CallEffect(c)
           w == cmd[c].wallet
<1>1. /\ e.row \in Rows /\ e.row.cmd = cmd[c]
      /\ e.wallet \in WalletRows /\ e.entries \in Seq(Entries)
      /\ e.error \in {None, "UNBALANCED_LEDGER_ENTRY", "OUT_OF_RANGE"}
  BY CallEffectType DEF Finish
<1>2. cmd[c] \in AllCommands /\ w \in Wallets /\ c \in TxIds
  BY CommandsAssumption DEF TypeInv, CallReady, Finish, TxIds
<1>3. UNCHANGED <<due, cmd, workerVars, crashes>>
  BY DEF Finish, dbVars
<1>4. \E next \in {"done", "lookupKey"} : EndCall(c, next)
  BY DEF Finish
<1>5. reply' \in [Calls -> Replies \cup {None}]
  <2>1. UNCHANGED reply \/ Returned(c, "ok", c, FALSE)
          \/ (e.error # None /\ Returned(c, e.error, None, FALSE))
    BY DEF Finish
  <2> QED
    BY <1>1, <1>2, <2>1, ReplyType DEF Outcomes, Errors, TypeInv, TypeOK, CallTypeOK
<1>6. CallTypeOK' /\ CallReady' /\ lock' \in [Wallets -> Procs \cup {None}]
  BY <1>2, <1>3, <1>4, <1>5, EndCallType DEF CallTypeOK
<1>7. CASE UNCHANGED dbVars
  BY <1>3, <1>6, <1>7, TablesKept DEF TypeInv, TypeOK, DbTypeOK
<1>8. CASE /\ txs' = [txs EXCEPT ![c] = e.row]
           /\ wallets' = [wallets EXCEPT ![w] = e.wallet]
           /\ ledger' = [ledger EXCEPT ![w] = @ \o e.entries]
  <2> HIDE DEF e, w
  <2>1. txs' \in [TxIds -> Rows \cup {None}]
    BY <1>1, <1>8 DEF TypeInv, TypeOK, DbTypeOK
  <2>2. wallets' \in [Wallets -> WalletRows \cup {None}]
    BY <1>1, <1>8 DEF TypeInv, TypeOK, DbTypeOK
  <2>3. ledger' \in [Wallets -> Seq(Entries)]
    <3>1. ledger[w] \o e.entries \in Seq(Entries)
      BY <1>1, <1>2 DEF TypeInv, TypeOK, DbTypeOK
    <3> QED
      BY <1>8, <3>1 DEF TypeInv, TypeOK, DbTypeOK
  <2>4. BatchReady'
    <3>1. \A v \in Wallets : wallets[v] \in WalletRows => wallets'[v] \in WalletRows
      BY <1>1, <1>8 DEF TypeInv, TypeOK, DbTypeOK
    <3>2. wallets'[w] \in WalletRows /\ e.row.cmd.wallet = w
      BY <1>1, <1>2, <1>8 DEF TypeInv, TypeOK, DbTypeOK, w
    <3>3. \A t \in TxIds :
            \/ txs'[t] = txs[t]
            \/ txs'[t] \in Rows /\ wallets'[txs'[t].cmd.wallet] \in WalletRows
      BY <1>1, <1>8, <3>2 DEF TypeInv, TypeOK, DbTypeOK
    <3> QED
      BY <1>3, <3>1, <3>3, BatchReadyKept
  <2> QED
    BY <2>1, <2>2, <2>3, <2>4, <1>3, <1>6
    DEF TypeInv, TypeOK, DbTypeOK, WorkerTypeOK, workerVars
<1> QED
  BY <1>7, <1>8 DEF Finish

LEMMA BecomeDueType ==
  ASSUME TypeInv, NEW t \in TxIds, BecomeDue(t)
  PROVE  TypeInv'
<1>1. txs[t] \in Rows
  BY DEF BecomeDue, TypeInv, TypeOK, DbTypeOK
<1>2. due' \subseteq TxIds /\ \A u \in due' : txs[u] \in Rows
  BY <1>1 DEF BecomeDue, TypeInv, TypeOK, DbTypeOK, BatchReady
<1> QED
  BY <1>2
  DEF BecomeDue, TypeInv, TypeOK, DbTypeOK, CallTypeOK, WorkerTypeOK, CallReady,
      BatchReady, InTransaction, callVars, workerVars

\* The parts of TypeInv that a step of a worker alone does not touch.
LEMMA CallsKept ==
  ASSUME TypeInv, UNCHANGED callVars
  PROVE  CallTypeOK' /\ CallReady'
BY DEF TypeInv, TypeOK, CallTypeOK, CallReady, InTransaction, callVars

\* A worker that ends its transaction holds nothing that could be ill typed.
LEMMA EndBatchType ==
  ASSUME TypeInv, NEW k \in Workers, EndBatch(k)
  PROVE  /\ WorkerTypeOK' /\ lock' \in [Wallets -> Procs \cup {None}]
         /\ UNCHANGED dbVars => BatchReady'
<1>1. lock' \in [Wallets -> Procs \cup {None}]
  BY DEF TypeInv, TypeOK, DbTypeOK, EndBatch, Released
<1>2. WorkerTypeOK'
  <2>1. NoWrites \in [TxIds -> Rows \cup {None}]
        /\ NoCopies \in [Wallets -> WalletRows \cup {None}]
        /\ NoMoves \in [Wallets -> Seq(Entries)] /\ <<>> \in Seq(TxIds)
    BY DEF NoWrites, NoCopies, NoMoves
  <2> QED
    BY <2>1 DEF EndBatch, TypeInv, TypeOK, WorkerTypeOK
<1>3. ASSUME UNCHANGED dbVars PROVE BatchReady'
  BY <1>3, RowAssumption
  DEF EndBatch, TypeInv, TypeOK, WorkerTypeOK, BatchReady, NoWrites, dbVars
<1> QED
  BY <1>1, <1>2, <1>3

LEMMA SelectBatchType ==
  ASSUME TypeInv, NEW k \in Workers, SelectBatch(k)
  PROVE  TypeInv'
<1>1. PICK S \in Batches : \E s \in Orders(S) : todo' = [todo EXCEPT ![k] = s]
  BY DEF SelectBatch
<1>2. PICK s \in Orders(S) : todo' = [todo EXCEPT ![k] = s]
  BY <1>1
<1>3. S \subseteq due /\ S \subseteq TxIds
  BY DEF Batches, Selectable, TypeInv, TypeOK, DbTypeOK
<1>4. Cardinality(S) \in Nat
  BY <1>3, IdsAssumption, FS_Subset, FS_CardinalityType
<1>5. s \in Seq(TxIds) /\ \A i \in 1 .. Len(s) : txs[s[i]] \in Rows
  BY <1>3, <1>4 DEF Orders, TypeInv, BatchReady
<1>6. WorkerTypeOK'
  BY <1>2, <1>5 DEF SelectBatch, TypeInv, TypeOK, WorkerTypeOK
<1>7. BatchReady'
  BY <1>2, <1>5
  DEF SelectBatch, TypeInv, TypeOK, WorkerTypeOK, BatchReady, dbVars
<1> QED
  BY <1>6, <1>7, CallsKept DEF SelectBatch, TypeInv, TypeOK, DbTypeOK, dbVars

\* The row a worker is about to decide, and what it does to it.
LEMMA HeadType ==
  ASSUME TypeInv, NEW k \in Workers, todo[k] # <<>>
  PROVE  /\ Head(todo[k]) \in TxIds /\ txs[Head(todo[k])] \in Rows
         /\ Tail(todo[k]) \in Seq(TxIds)
         /\ \A i \in 1 .. Len(Tail(todo[k])) : txs[Tail(todo[k])[i]] \in Rows
<1>1. todo[k] \in Seq(TxIds)
  BY DEF TypeInv, TypeOK, WorkerTypeOK
<1>2. \A i \in 1 .. Len(todo[k]) : txs[todo[k][i]] \in Rows
  BY DEF TypeInv, BatchReady
<1>3. Head(todo[k]) = todo[k][1] /\ 1 \in 1 .. Len(todo[k])
  BY <1>1
<1>4. /\ Tail(todo[k]) \in Seq(TxIds)
      /\ \A i \in 1 .. Len(Tail(todo[k])) :
           i + 1 \in 1 .. Len(todo[k]) /\ Tail(todo[k])[i] = todo[k][i + 1]
  BY <1>1
<1> QED
  BY <1>1, <1>2, <1>3, <1>4

LEMMA DecidedType ==
  ASSUME TypeInv, NEW k \in Workers, todo[k] # <<>>, NEW row \in Rows,
         row.cmd = txs[Head(todo[k])].cmd, Decided(k, Head(todo[k]), row),
         UNCHANGED dbVars, wpc' \in [Workers -> {"idle", "batch", "lock"}],
         \A j \in Workers \ {k} : wpc'[j] = wpc[j], wpc'[k] # "lock"
  PROVE  /\ BatchReady' /\ todo' \in [Workers -> Seq(TxIds)]
         /\ written' \in [Workers -> [TxIds -> Rows \cup {None}]]
<1> DEFINE t == Head(todo[k])
<1>1. t \in TxIds /\ txs[t] \in Rows /\ Tail(todo[k]) \in Seq(TxIds)
      /\ \A i \in 1 .. Len(Tail(todo[k])) : txs[Tail(todo[k])[i]] \in Rows
  BY HeadType
<1>2. wallets[row.cmd.wallet] \in WalletRows
  BY <1>1 DEF TypeInv, BatchReady
<1>3. written' = [written EXCEPT ![k] = [written[k] EXCEPT ![t] = row]]
      /\ todo' = [todo EXCEPT ![k] = Tail(todo[k])]
  BY DEF Decided
<1> HIDE DEF t
<1>4. todo' \in [Workers -> Seq(TxIds)]
      /\ written' \in [Workers -> [TxIds -> Rows \cup {None}]]
  BY <1>1, <1>3 DEF TypeInv, TypeOK, WorkerTypeOK
<1>5. \A j \in Workers : \A i \in 1 .. Len(todo'[j]) : txs[todo'[j][i]] \in Rows
  BY <1>1, <1>3 DEF TypeInv, TypeOK, WorkerTypeOK, BatchReady
<1>6. \A j \in Workers : wpc'[j] = "lock" => todo'[j] # <<>>
  BY <1>3 DEF TypeInv, TypeOK, WorkerTypeOK, BatchReady
<1>7. \A j \in Workers : \A u \in TxIds : written'[j][u] \in Rows =>
        wallets[written'[j][u].cmd.wallet] \in WalletRows
  BY <1>2, <1>3 DEF TypeInv, TypeOK, WorkerTypeOK, BatchReady
<1> QED
  BY <1>4, <1>5, <1>6, <1>7 DEF TypeInv, BatchReady, dbVars

LEMMA WorkerViewType ==
  ASSUME TypeInv, NEW k \in Workers
  PROVE  /\ WorkerView(k) \in [TxIds -> Rows \cup {None}]
         /\ \A t \in TxIds : txs[t] \in Rows => WorkerView(k)[t] \in Rows
BY DEF WorkerView, TypeInv, TypeOK, DbTypeOK, WorkerTypeOK

\* A row whose reference does not resolve is rejected or gets one more try,
\* and the tries are bounded.
LEMMA UnresolvedType ==
  ASSUME NEW row \in Rows, NEW v \in Verdicts
  PROVE  Unresolved(row, v) \in Rows /\ Unresolved(row, v).cmd = row.cmd
<1>1. v.outcome = "rejected" => v.code \in FailureCodes
  BY DEF Verdicts
<1>2. "REFERENCE_RESOLUTION_TIMEOUT" \in FailureCodes
  BY DEF FailureCodes
<1>3. row.attempts \in Nat
  BY BoundsAssumption DEF Rows
<1>4. ~(row.attempts >= MaxAttempts) => row.attempts < MaxAttempts
  BY <1>3, BoundsAssumption
<1> QED
  BY <1>1, <1>2, <1>4, MarkType DEF Unresolved

LEMMA ResolveItemType ==
  ASSUME TypeInv, NEW k \in Workers, ResolveItem(k)
  PROVE  TypeInv'
<1> DEFINE t == Head(todo[k])
           v == ResolveReference(WorkerView(k), txs[t].cmd)
<1>1. todo[k] # <<>> /\ wpc[k] = "batch"
  BY DEF ResolveItem
<1>2. t \in TxIds /\ txs[t] \in Rows
  BY <1>1, HeadType
<1>3. v \in Verdicts
  BY WorkerViewType, VerdictType
<1>4. UNCHANGED <<dbVars, lock, callVars, copy, moved, crashes>>
  BY DEF ResolveItem
<1>5. CASE v.outcome = "resolved"
  <2>1. /\ wpc' = [wpc EXCEPT ![k] = "lock"] /\ wref' = [wref EXCEPT ![k] = v.ref]
        /\ UNCHANGED <<written, todo>>
    BY <1>5 DEF ResolveItem
  <2>2. v.ref \in TxIds \cup {None}
    BY <1>3 DEF Verdicts
  <2>3. WorkerTypeOK'
    BY <2>1, <2>2, <1>4 DEF TypeInv, TypeOK, WorkerTypeOK
  <2>4. BatchReady'
    BY <2>1, <1>1, <1>4 DEF TypeInv, TypeOK, WorkerTypeOK, BatchReady, dbVars
  <2> QED
    BY <2>3, <2>4, <1>4, CallsKept DEF TypeInv, TypeOK, DbTypeOK, dbVars
<1>6. CASE v.outcome # "resolved"
  <2> DEFINE row == Unresolved(txs[t], v)
  <2>1. Decided(k, t, row) /\ UNCHANGED <<wpc, wref>>
    BY <1>6 DEF ResolveItem
  <2>2. row \in Rows /\ row.cmd = txs[t].cmd
    BY <1>2, <1>3, <1>6, UnresolvedType
  <2> HIDE DEF row
  <2>3. /\ BatchReady' /\ todo' \in [Workers -> Seq(TxIds)]
        /\ written' \in [Workers -> [TxIds -> Rows \cup {None}]]
    BY <2>1, <2>2, <1>1, <1>4, DecidedType DEF TypeInv, TypeOK, WorkerTypeOK
  <2>4. WorkerTypeOK'
    BY <2>1, <2>3, <1>4 DEF TypeInv, TypeOK, WorkerTypeOK
  <2> QED
    BY <2>3, <2>4, <1>4, CallsKept DEF TypeInv, TypeOK, DbTypeOK, dbVars
<1> QED
  BY <1>5, <1>6

LEMMA ItemEffectType ==
  ASSUME TypeInv, NEW k \in Workers, wpc[k] = "lock"
  PROVE  LET e == ItemEffect(k) IN
         /\ e.row \in Rows /\ e.row.cmd = txs[Head(todo[k])].cmd
         /\ e.wallet \in WalletRows /\ e.entries \in Seq(Entries)
<1> DEFINE t == Head(todo[k])
           w == txs[t].cmd.wallet
           wallet == IF copy[k][w] # None THEN copy[k][w] ELSE wallets[w]
<1>1. t \in TxIds /\ txs[t] \in Rows
  BY HeadType DEF TypeInv, BatchReady
<1>2. w \in Wallets
  BY <1>1, CommandFields DEF Rows
<1>3. wallet \in WalletRows
  BY <1>1, <1>2 DEF TypeInv, TypeOK, WorkerTypeOK, BatchReady
<1>4. wref[k] \in TxIds \cup {None}
  BY DEF TypeInv, TypeOK, WorkerTypeOK
<1> DEFINE kind == RefKind(WorkerView(k), wref[k])
<1>5. ItemEffect(k) = ApplyEffect(t, txs[t], wallet, wref[k], kind)
  BY DEF ItemEffect
<1> DEFINE row == txs[t]
           ref == wref[k]
<1> HIDE DEF t, wallet, kind, row, ref
<1>6. t \in TxIds /\ row \in Rows /\ ref \in TxIds \cup {None}
  BY <1>1, <1>4 DEF row, ref
<1>7. LET e == ApplyEffect(t, row, wallet, ref, kind) IN
      /\ e.row \in Rows /\ e.row.cmd = row.cmd
      /\ e.wallet \in WalletRows /\ e.entries \in Seq(Entries)
  BY <1>6, <1>3, EffectType
<1> QED
  BY <1>5, <1>7 DEF t, row, ref

LEMMA ApplyItemType ==
  ASSUME TypeInv, NEW k \in Workers, ApplyItem(k)
  PROVE  TypeInv'
<1> DEFINE t == Head(todo[k])
           w == txs[t].cmd.wallet
           e == ItemEffect(k)
<1>1. todo[k] # <<>> /\ wpc[k] = "lock"
  BY DEF ApplyItem, TypeInv, BatchReady
<1>2. t \in TxIds /\ txs[t] \in Rows /\ w \in Wallets
  BY <1>1, HeadType, CommandFields DEF Rows
<1>3. /\ e.row \in Rows /\ e.row.cmd = txs[t].cmd
      /\ e.wallet \in WalletRows /\ e.entries \in Seq(Entries)
  BY <1>1, ItemEffectType
<1>4. UNCHANGED <<dbVars, callVars, crashes>>
  BY DEF ApplyItem
<1>5. CASE EndBatch(k)
  <2>1. UNCHANGED dbVars /\ UNCHANGED callVars
    BY <1>4
  <2>2. WorkerTypeOK' /\ BatchReady' /\ lock' \in [Wallets -> Procs \cup {None}]
    BY <1>5, <2>1, EndBatchType
  <2> QED
    BY <1>4, <2>1, <2>2, CallsKept DEF TypeInv, TypeOK, DbTypeOK, dbVars
<1>6. CASE ~EndBatch(k)
  <2>1. /\ Decided(k, t, e.row)
        /\ copy' = [copy EXCEPT ![k] = [copy[k] EXCEPT ![w] = e.wallet]]
        /\ moved' = [moved EXCEPT ![k] = [moved[k] EXCEPT ![w] = moved[k][w] \o e.entries]]
        /\ lock' = [lock EXCEPT ![w] = k]
        /\ wpc' = [wpc EXCEPT ![k] = "batch"]
        /\ wref' = [wref EXCEPT ![k] = None]
    BY <1>6 DEF ApplyItem
  <2> HIDE DEF t, w, e
  <2>2. moved[k][w] \o e.entries \in Seq(Entries)
    BY <1>2, <1>3 DEF TypeInv, TypeOK, WorkerTypeOK
  <2>3. /\ BatchReady' /\ todo' \in [Workers -> Seq(TxIds)]
        /\ written' \in [Workers -> [TxIds -> Rows \cup {None}]]
    BY <2>1, <1>1, <1>3, <1>4, DecidedType DEF TypeInv, TypeOK, WorkerTypeOK, t
  <2>4. copy' \in [Workers -> [Wallets -> WalletRows \cup {None}]]
    BY <2>1, <1>3 DEF TypeInv, TypeOK, WorkerTypeOK
  <2>5. moved' \in [Workers -> [Wallets -> Seq(Entries)]]
    BY <2>1, <2>2 DEF TypeInv, TypeOK, WorkerTypeOK
  <2>6. WorkerTypeOK'
    BY <2>1, <2>3, <2>4, <2>5 DEF TypeInv, TypeOK, WorkerTypeOK
  <2>7. lock' \in [Wallets -> Procs \cup {None}]
    BY <2>1 DEF TypeInv, TypeOK, DbTypeOK, Procs
  <2> QED
    BY <2>3, <2>6, <2>7, <1>4, CallsKept DEF TypeInv, TypeOK, DbTypeOK, dbVars
<1> QED
  BY <1>5, <1>6

LEMMA CommitBatchType ==
  ASSUME TypeInv, NEW k \in Workers, CommitBatch(k)
  PROVE  TypeInv'
<1>1. txs' = WorkerView(k) /\ txs' \in [TxIds -> Rows \cup {None}]
  BY WorkerViewType DEF CommitBatch
<1>2. wallets' = [w \in Wallets |->
                    IF copy[k][w] # None THEN copy[k][w] ELSE wallets[w]]
  BY DEF CommitBatch
<1>3. wallets' \in [Wallets -> WalletRows \cup {None}]
      /\ \A w \in Wallets : wallets[w] \in WalletRows => wallets'[w] \in WalletRows
  BY <1>2 DEF TypeInv, TypeOK, DbTypeOK, WorkerTypeOK
<1>4. ledger' \in [Wallets -> Seq(Entries)]
  <2>1. \A w \in Wallets : ledger[w] \o moved[k][w] \in Seq(Entries)
    BY DEF TypeInv, TypeOK, DbTypeOK, WorkerTypeOK
  <2> QED
    BY <2>1 DEF CommitBatch
<1>5. EndBatch(k) /\ due' = due \ Stored(written[k])
      /\ UNCHANGED <<callVars, crashes>>
  BY DEF CommitBatch
<1>6. WorkerTypeOK' /\ lock' \in [Wallets -> Procs \cup {None}]
  BY <1>5, EndBatchType
<1>7. BatchReady'
  <2>1. \A t \in TxIds : txs[t] \in Rows => txs'[t] \in Rows
    BY <1>1, WorkerViewType
  <2>2. ASSUME NEW row \in Rows, wallets[row.cmd.wallet] \in WalletRows
        PROVE  wallets'[row.cmd.wallet] \in WalletRows
    BY <2>2, <1>3, CommandFields DEF Rows
  <2>3. ASSUME NEW t \in TxIds, txs'[t] \in Rows
        PROVE  wallets'[txs'[t].cmd.wallet] \in WalletRows
    <3>1. txs'[t] = written[k][t] \/ txs'[t] = txs[t]
      BY <1>1 DEF WorkerView
    <3> QED
      BY <2>2, <2>3, <3>1 DEF TypeInv, BatchReady
  <2>4. \A t \in due' : txs'[t] \in Rows
    BY <2>1, <1>5 DEF TypeInv, TypeOK, DbTypeOK, BatchReady
  <2>5. ASSUME NEW j \in Workers
        PROVE  \/ j = k /\ todo'[j] = <<>> /\ wpc'[j] = "idle" /\ written'[j] = NoWrites
               \/ todo'[j] = todo[j] /\ wpc'[j] = wpc[j] /\ written'[j] = written[j]
    BY <1>5 DEF EndBatch, TypeInv, TypeOK, WorkerTypeOK
  <2>6. ASSUME NEW j \in Workers, NEW i \in 1 .. Len(todo'[j])
        PROVE  txs'[todo'[j][i]] \in Rows
    <3>1. todo'[j] # <<>> => todo'[j] = todo[j]
      BY <2>5
    <3>2. todo'[j] = todo[j]
      BY <3>1, <2>6
    <3>3. todo[j][i] \in TxIds /\ txs[todo[j][i]] \in Rows
      BY <3>2 DEF TypeInv, TypeOK, WorkerTypeOK, BatchReady
    <3> QED
      BY <3>2, <3>3, <2>1
  <2>7. ASSUME NEW j \in Workers, wpc'[j] = "lock" PROVE todo'[j] # <<>>
    BY <2>5, <2>7 DEF TypeInv, BatchReady
  <2>8. ASSUME NEW j \in Workers, NEW t \in TxIds, written'[j][t] \in Rows
        PROVE  wallets'[written'[j][t].cmd.wallet] \in WalletRows
    <3>1. NoWrites[t] \notin Rows
      BY RowAssumption DEF NoWrites
    <3>2. written'[j] = written[j]
      BY <2>5, <2>8, <3>1
    <3> QED
      BY <2>2, <2>8, <3>2 DEF TypeInv, BatchReady
  <2> QED
    BY <2>3, <2>4, <2>6, <2>7, <2>8 DEF BatchReady
<1>8. due' \subseteq TxIds
  BY <1>5 DEF TypeInv, TypeOK, DbTypeOK
<1> QED
  BY <1>1, <1>3, <1>4, <1>5, <1>6, <1>7, <1>8, CallsKept
  DEF TypeInv, TypeOK, DbTypeOK

LEMMA RollbackBatchType ==
  ASSUME TypeInv, NEW k \in Workers, CrashWorker(k) \/ AbortWorker(k)
  PROVE  TypeInv'
<1>1. EndBatch(k) /\ UNCHANGED dbVars /\ UNCHANGED callVars
  BY DEF CrashWorker, AbortWorker
<1>2. crashes' \in 0 .. MaxCrashes
  BY BoundsAssumption DEF CrashWorker, AbortWorker, TypeInv, TypeOK
<1>3. WorkerTypeOK' /\ BatchReady' /\ lock' \in [Wallets -> Procs \cup {None}]
  BY <1>1, EndBatchType
<1> QED
  BY <1>1, <1>2, <1>3, CallsKept DEF TypeInv, TypeOK, DbTypeOK, dbVars

-----------------------------------------------------------------------------
\* TypeInv holds at first and every step keeps it.
LEMMA TypeInvInductive == TypeInv /\ [Next]_vars => TypeInv'
<1> SUFFICES ASSUME TypeInv, [Next]_vars PROVE TypeInv'
  OBVIOUS
<1>1. CASE \E w \in Wallets, o \in AllOpenings : OpenWallet(w, o)
  BY <1>1, OpenWalletType
<1>2. CASE \E c \in Calls, m \in AllCommands : Begin(c, m)
  BY <1>2, BeginType
<1>3. ASSUME NEW c \in Calls, CallStep(c) \/ CrashCall(c) PROVE TypeInv'
  BY <1>3, RefuseCommandType, LockWalletType, ClaimType, ClaimConflictType,
     ResolveType, FinishType, LookupType, AbortCallType, CrashCallType
  DEF CallStep
<1>4. ASSUME NEW k \in Workers, WorkerStep(k) \/ CrashWorker(k) PROVE TypeInv'
  BY <1>4, SelectBatchType, ResolveItemType, ApplyItemType, CommitBatchType,
     RollbackBatchType
  DEF WorkerStep
<1>5. CASE \E t \in TxIds : BecomeDue(t)
  BY <1>5, BecomeDueType
<1>6. CASE UNCHANGED vars
  <2>1. UNCHANGED <<dbVars, lock, callVars, workerVars, crashes>>
    BY <1>6 DEF vars
  <2>2. UNCHANGED dbVars /\ UNCHANGED workerVars /\ UNCHANGED callVars
    BY <2>1
  <2> QED
    BY <2>1, <2>2, TablesKept, CallsKept DEF TypeInv, TypeOK, DbTypeOK
<1> QED
  BY <1>1, <1>2, <1>3, <1>4, <1>5, <1>6 DEF Next

\* Every state of every behaviour is well typed: no balance is ever negative
\* and no row is tried more than MaxAttempts times.
THEOREM TypeCorrect == Spec => []TypeOK
<1>1. TypeInv => TypeOK
  BY DEF TypeInv
<1> QED
  BY InitType, TypeInvInductive, <1>1, PTL DEF Spec
====
