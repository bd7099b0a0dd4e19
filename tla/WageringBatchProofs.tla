---- MODULE WageringBatchProofs ----
(***************************************************************************)
(* What the retry workers and the calls have decided but not committed yet *)
(* stays right while everybody else commits: the invariant under which the *)
(* core implements the abstract book.                                      *)
(*                                                                         *)
(* The verdict on a reference is reached before the wallet lock, and used  *)
(* after it.  It keeps because terminal rows never change; that the        *)
(* reference is still not reversed by anybody else keeps because whoever   *)
(* reverses it has to hold the lock of the one wallet both belong to.      *)
(***************************************************************************)
EXTENDS WageringLedgerProofs

Tables == [TxIds -> Rows \cup {None}]

\* Table b is a later state of table a: rows stay, for what they were asked,
\* and terminal rows stay as they are.
Extends(a, b) ==
  \A t \in TxIds : a[t] # None =>
    /\ b[t] # None /\ b[t].cmd = a[t].cmd
    /\ IsTerminal(a[t]) => b[t] = a[t]

\* The reversal m may reverse transaction r of the table.
MayReverse(table, m, r) ==
  /\ r \in FindByExternal(table, m.ref)
  /\ table[r].status = "PROCESSED"
  /\ SameOwner(m, table[r].cmd)
  /\ table[r].cmd.amount = m.amount
  /\ table[r].cmd.kind \in ReversibleKinds(m.kind)

\* Some transaction m refers to refuses it with that code.
Refused(table, m, code) ==
  \E r \in FindByExternal(table, m.ref) : Book!RefusedBy(table, m, r, code)

\* What a verdict says about the table it was reached on.
Grounds(table, m, v) ==
  /\ v.outcome = "resolved" => MayReverse(table, m, v.ref)
  /\ v.outcome = "rejected" => Refused(table, m, v.code)

-----------------------------------------------------------------------------
(* The invariant                                                           *)

\* Only reversals wait, and a waiting row has no failure; due rows wait.
RowsWait ==
  \A t \in TxIds :
    (txs[t] # None /\ txs[t].status = "PENDING_REFERENCE") =>
      txs[t].cmd.kind \in Reversals /\ txs[t].failure = None

DueWait == \A t \in due : txs[t] # None /\ txs[t].status = "PENDING_REFERENCE"

\* A batch is made of due rows, each of them once and with one worker.
Queued(k) ==
  /\ \A i \in 1 .. Len(todo[k]) : todo[k][i] \in due /\ written[k][todo[k][i]] = None
  /\ \A i, j \in 1 .. Len(todo[k]) : todo[k][i] = todo[k][j] => i = j
  /\ \A t \in TxIds : written[k][t] # None => t \in due

BatchesApart ==
  \A j, k \in Workers : j # k => InBatch(j) \cap InBatch(k) = {}

\* What a worker has decided about row t of its batch, and still holds.
ItemWaits(k, t) ==
  /\ written[k][t].status = "PENDING_REFERENCE" /\ written[k][t].failure = None
  /\ written[k][t].attempts = txs[t].attempts + 1

ItemProcessed(k, t) ==
  LET row == written[k][t] IN
  /\ row.status = "PROCESSED" /\ row.failure = None
  /\ row.attempts = txs[t].attempts
  /\ MayReverse(WorkerView(k), row.cmd, row.refTx)
  /\ ProcessedReversals(WorkerView(k), row.refTx, row.cmd.kind) = {t}
  /\ copy[k][row.cmd.wallet] # None

WalletRefuses(k, m, code) ==
  /\ copy[k][m.wallet] # None
  /\ \/ code = "WALLET_CURRENCY_MISMATCH" /\ m.currency # wallets[m.wallet].currency
     \/ /\ code = IF m.kind = "ROLLBACK" THEN "ROLLBACK_INSUFFICIENT_BALANCE"
                                         ELSE "INSUFFICIENT_BALANCE"
        /\ \/ wallets[m.wallet].balance < m.amount
           \/ \E i \in 1 .. Len(moved[k][m.wallet]) :
                moved[k][m.wallet][i].after < m.amount

ItemRejected(k, t) ==
  LET row == written[k][t] IN
  /\ row.status = "REJECTED" /\ row.attempts = txs[t].attempts
  /\ \/ row.failure = "REFERENCE_RESOLUTION_TIMEOUT" /\ row.attempts = MaxAttempts
     \/ Refused(WorkerView(k), row.cmd, row.failure)
     \/ WalletRefuses(k, row.cmd, row.failure)

ItemsDecided(k) ==
  \A t \in TxIds : written[k][t] # None =>
    ItemWaits(k, t) \/ ItemProcessed(k, t) \/ ItemRejected(k, t)

\* The private entries of a wallet are those of the rows that move it.
Matches(e, row, table) ==
  /\ Moves(row) /\ e.amount = row.cmd.amount
  /\ e.dir = LedgerDirectionFor(row.cmd.kind, RefKind(table, row.refTx))

MovesRecorded(k) ==
  /\ \A t \in TxIds : (written[k][t] # None /\ Moves(written[k][t])) =>
       LET s == moved[k][written[k][t].cmd.wallet] IN
       \E i \in 1 .. Len(s) : s[i].tx = t
  /\ \A w \in Wallets : \A i \in 1 .. Len(moved[k][w]) :
       LET e == moved[k][w][i] IN
       /\ written[k][e.tx] # None /\ written[k][e.tx].cmd.wallet = w
       /\ Matches(e, written[k][e.tx], WorkerView(k))
       /\ \A j \in 1 .. Len(moved[k][w]) : moved[k][w][j].tx = e.tx => i = j

CopiesCounted(k) ==
  \A w \in Wallets : copy[k][w] # None =>
    copy[k][w] = [wallets[w] EXCEPT !.balance = copy[k][w].balance,
                                    !.version = @ + Len(moved[k][w])]

\* The row that waits for its wallet may still reverse what it resolved to.
StillResolved(k) ==
  wpc[k] = "lock" => MayReverse(WorkerView(k), txs[Head(todo[k])].cmd, wref[k])

WorkerInv(k) ==
  /\ Queued(k) /\ ItemsDecided(k) /\ MovesRecorded(k) /\ CopiesCounted(k)
  /\ StillResolved(k)

\* So may a call that is about to finish; only reversals have a reference.
CallVerdicts ==
  \A c \in Calls :
    /\ pc[c] = "resolve" => cmd[c].kind \in Reversals
    /\ pc[c] = "finish" =>
         IF cmd[c].kind \in Reversals THEN Grounds(CallView(c), cmd[c], verdict[c])
                                      ELSE verdict[c] = ResolvedVerdict(None)

DecisionInv ==
  /\ RowsWait /\ DueWait /\ BatchesApart /\ CallVerdicts
  /\ \A k \in Workers : WorkerInv(k)

BatchInv == LedgerInv /\ ClaimInv /\ DecisionInv

-----------------------------------------------------------------------------
(* Tables and what later tables keep of them                               *)

LEMMA RefusedByMeans ==
  ASSUME NEW table, NEW m, NEW r, NEW code
  PROVE  Book!RefusedBy(table, m, r, code) <=>
           \/ code = "REFERENCE_MISMATCH" /\ ~SameOwner(m, table[r].cmd)
           \/ code = "REFERENCE_INVALID_KIND"
                /\ table[r].cmd.kind \notin ReversibleKinds(m.kind)
           \/ code = "REFERENCE_INVALID_STATE"
                /\ table[r].status \in {"REJECTED", "FAILED"}
           \/ code = "REFERENCE_AMOUNT_MISMATCH" /\ table[r].cmd.amount # m.amount
           \/ code = "REFERENCE_ALREADY_REVERSED"
                /\ ProcessedReversals(table, r, m.kind) # {}
BY DEF Book!RefusedBy, Book!SameOwner, SameOwner, Book!ReversibleKinds,
       ReversibleKinds, Book!ProcessedReversals, ProcessedReversals,
       Book!Stored, Stored

\* resolveReference gives a verdict with its grounds.
LEMMA VerdictGrounds ==
  ASSUME NEW table \in Tables, NEW m
  PROVE  Grounds(table, m, ResolveReference(table, m))
<1> DEFINE found == FindByExternal(table, m.ref)
           t == CHOOSE t \in found : TRUE
           v == JudgeReference(table, m, t)
<1>1. CASE found = {}
  BY <1>1 DEF ResolveReference, Grounds, PendingVerdict
<1>2. CASE found # {}
  <2>1. t \in found /\ ResolveReference(table, m) = v
    BY <1>2 DEF ResolveReference
  <2>2. t \in TxIds /\ table[t] \in Rows
    BY <2>1 DEF FindByExternal, Stored, Tables
  <2>3. table[t].status \in Statuses
    BY <2>2 DEF Rows
  <2> HIDE DEF t
  <2>4. v.outcome = "resolved" => MayReverse(table, m, t) /\ v.ref = t
    BY <2>1, <2>3 DEF JudgeReference, MayReverse, PendingVerdict, RejectedVerdict,
           ResolvedVerdict, Statuses
  <2>5. v.outcome = "rejected" => Book!RefusedBy(table, m, t, v.code)
    BY <2>1, <2>3, RefusedByMeans
    DEF JudgeReference, PendingVerdict, RejectedVerdict, ResolvedVerdict, Statuses
  <2> QED
    BY <2>1, <2>4, <2>5 DEF Grounds, Refused
<1> QED
  BY <1>1, <1>2

LEMMA ExtendsItself == ASSUME NEW a PROVE Extends(a, a)
BY DEF Extends

\* A later table keeps the grounds of every verdict.
LEMMA FoundKept ==
  ASSUME NEW a \in Tables, NEW b \in Tables, Extends(a, b), NEW x
  PROVE  FindByExternal(a, x) \subseteq FindByExternal(b, x)
BY DEF Extends, FindByExternal, Stored, Tables

LEMMA MayReverseKept ==
  ASSUME NEW a \in Tables, NEW b \in Tables, Extends(a, b), NEW m, NEW r,
         MayReverse(a, m, r)
  PROVE  MayReverse(b, m, r)
<1>1. r \in TxIds /\ a[r] # None /\ IsTerminal(a[r])
  BY DEF MayReverse, FindByExternal, Stored, Tables, IsTerminal, TerminalStatuses
<1>2. b[r] = a[r]
  BY <1>1 DEF Extends
<1> QED
  BY <1>2, FoundKept DEF MayReverse

LEMMA RefusedKept ==
  ASSUME NEW a \in Tables, NEW b \in Tables, Extends(a, b), NEW m, NEW code,
         Refused(a, m, code)
  PROVE  Refused(b, m, code)
<1>1. PICK r \in FindByExternal(a, m.ref) : Book!RefusedBy(a, m, r, code)
  BY DEF Refused
<1>2. r \in TxIds /\ a[r] # None
  BY DEF FindByExternal, Stored, Tables
<1>3. b[r].cmd = a[r].cmd /\ (IsTerminal(a[r]) => b[r] = a[r])
  BY <1>2 DEF Extends
<1>4. a[r].status \in {"REJECTED", "FAILED"} => b[r].status = a[r].status
  BY <1>3 DEF IsTerminal, TerminalStatuses
<1>5. ProcessedReversals(a, r, m.kind) \subseteq ProcessedReversals(b, r, m.kind)
  BY DEF ProcessedReversals, Stored, Tables, Extends, IsTerminal, TerminalStatuses
<1>6. Book!RefusedBy(b, m, r, code)
  BY <1>1, <1>3, <1>4, <1>5, RefusedByMeans
<1> QED
  BY <1>6, FoundKept DEF Refused

LEMMA GroundsKept ==
  ASSUME NEW a \in Tables, NEW b \in Tables, Extends(a, b), NEW m, NEW v,
         Grounds(a, m, v)
  PROVE  Grounds(b, m, v)
BY MayReverseKept, RefusedKept DEF Grounds

-----------------------------------------------------------------------------
(* What the transactions of the others do to an open batch                 *)

\* Nothing of worker k's transaction changes, nor what it rests on: its rows,
\* the wallets it has copied, and the reversals of their transactions.
Undisturbed(k) ==
  /\ written'[k] = written[k] /\ copy'[k] = copy[k] /\ moved'[k] = moved[k]
  /\ todo'[k] = todo[k] /\ wpc'[k] = wpc[k] /\ wref'[k] = wref[k]
  /\ Extends(txs, txs')
  /\ \A t \in InBatch(k) : txs'[t] = txs[t] /\ (t \in due => t \in due')
  /\ \A w \in Wallets : copy[k][w] # None => wallets'[w] = wallets[w]
  /\ \A u \in TxIds :
       (/\ txs'[u] # None /\ txs'[u] # txs[u] /\ txs'[u].status = "PROCESSED"
        /\ txs'[u].cmd.kind \in Reversals) =>
         /\ SameOwner(txs'[u].cmd, txs'[txs'[u].refTx].cmd)
         /\ copy[k][txs'[u].cmd.wallet] = None

LEMMA MovedType ==
  ASSUME TypeInv, NEW k \in Workers, NEW w \in Wallets, NEW i \in 1 .. Len(moved[k][w])
  PROVE  moved[k][w][i] \in Entries /\ moved[k][w][i].tx \in TxIds
<1>1. moved[k][w] \in Seq(Entries)
  BY DEF TypeInv, TypeOK, WorkerTypeOK
<1>2. moved[k][w][i] \in Entries
  BY <1>1
<1> QED
  BY <1>2 DEF Entries

LEMMA ViewType == ASSUME TypeInv, NEW k \in Workers PROVE WorkerView(k) \in Tables
BY WorkerViewType DEF Tables

LEMMA ViewTypeNext == ASSUME TypeInv', NEW k \in Workers PROVE WorkerView(k)' \in Tables
BY DEF TypeInv, TypeOK, DbTypeOK, WorkerTypeOK, WorkerView, Tables

\* A row a worker has updated is one of its batch: it waits and is a reversal.
LEMMA UpdatedWaits ==
  ASSUME BatchInv, NEW k \in Workers, NEW t \in TxIds, written[k][t] # None
  PROVE  /\ t \in due /\ t \in InBatch(k) /\ written[k][t] \in Rows
         /\ txs[t] \in Rows /\ txs[t].status = "PENDING_REFERENCE"
         /\ written[k][t].cmd = txs[t].cmd /\ txs[t].cmd.kind \in Reversals
         /\ txs[t].failure = None
<1>1. written[k][t] \in Rows /\ txs[t] \in Rows \cup {None}
  BY DEF BatchInv, LedgerInv, TypeInv, TypeOK, DbTypeOK, WorkerTypeOK
<1>2. t \in Stored(written[k])
  BY DEF Stored, BatchInv, LedgerInv, TypeInv, TypeOK, WorkerTypeOK
<1>3. t \in due
  BY DEF BatchInv, DecisionInv, WorkerInv, Queued
<1> QED
  BY <1>1, <1>2, <1>3
  DEF BatchInv, DecisionInv, DueWait, RowsWait, ClaimInv, UpdatesOnly, InBatch

\* The same of the rows it still has to deal with.
LEMMA QueuedWaits ==
  ASSUME BatchInv, NEW k \in Workers, todo[k] # <<>>
  PROVE  LET t == Head(todo[k]) IN
         /\ t \in due /\ t \in InBatch(k) /\ t \in TxIds /\ written[k][t] = None
         /\ txs[t] \in Rows /\ txs[t].status = "PENDING_REFERENCE"
         /\ txs[t].cmd.kind \in Reversals /\ txs[t].failure = None
         /\ txs[t].cmd.wallet \in Wallets
         /\ WorkerView(k)[t] = txs[t]
<1> DEFINE t == Head(todo[k])
<1>1. todo[k] \in Seq(TxIds)
  BY DEF BatchInv, LedgerInv, TypeInv, TypeOK, WorkerTypeOK
<1>2. 1 \in 1 .. Len(todo[k]) /\ t = todo[k][1] /\ t \in TxIds
  BY <1>1
<1>3. t \in due /\ written[k][t] = None
  BY <1>2 DEF BatchInv, DecisionInv, WorkerInv, Queued
<1>4. t \in InBatch(k)
  BY <1>2 DEF InBatch
<1>5. txs[t] \in Rows
  BY <1>2, <1>3 DEF BatchInv, DecisionInv, DueWait, LedgerInv, TypeInv, TypeOK, DbTypeOK
<1>6. txs[t].cmd.wallet \in Wallets
  BY <1>5, CommandFields DEF Rows
<1>7. txs[t].status = "PENDING_REFERENCE" /\ txs[t] # None
  BY <1>3 DEF BatchInv, DecisionInv, DueWait
<1>8. txs[t].cmd.kind \in Reversals /\ txs[t].failure = None
  BY <1>2, <1>7 DEF BatchInv, DecisionInv, RowsWait
<1> QED
  BY <1>2, <1>3, <1>4, <1>5, <1>6, <1>7, <1>8 DEF WorkerView

LEMMA ViewKept ==
  ASSUME TypeInv, NEW k \in Workers, written'[k] = written[k], Extends(txs, txs')
  PROVE  Extends(WorkerView(k), WorkerView(k)')
BY DEF Extends, WorkerView

\* Nobody else reverses what a batch reverses while it is open.
LEMMA OnceKept ==
  ASSUME BatchInv, TypeInv', NEW k \in Workers, Undisturbed(k),
         NEW t \in TxIds, written[k][t] # None, ItemProcessed(k, t)
  PROVE  ProcessedReversals(WorkerView(k)', written[k][t].refTx, written[k][t].cmd.kind)
           = {t}
<1> DEFINE row == written[k][t]
           r == row.refTx
           old == WorkerView(k)
           new == WorkerView(k)'
<1>1. old \in Tables /\ new \in Tables /\ Extends(old, new)
  BY ViewType, ViewTypeNext, ViewKept DEF BatchInv, LedgerInv, Undisturbed
<1>2. /\ row \in Rows /\ row.cmd = txs[t].cmd /\ row.cmd.kind \in Reversals
      /\ row.status = "PROCESSED" /\ MayReverse(old, row.cmd, r)
      /\ ProcessedReversals(old, r, row.cmd.kind) = {t} /\ copy[k][row.cmd.wallet] # None
  BY UpdatedWaits DEF ItemProcessed
<1>3. new[t] = row /\ old[t] = row
  BY DEF WorkerView, Undisturbed
<1>4. t \in ProcessedReversals(new, r, row.cmd.kind)
  BY <1>1, <1>2, <1>3, RowAssumption DEF ProcessedReversals, Stored, Tables
<1>5. r \in TxIds /\ old[r] # None /\ SameOwner(row.cmd, old[r].cmd)
  BY <1>1, <1>2 DEF MayReverse, FindByExternal, Stored, Tables
<1>6. txs'[r].cmd = old[r].cmd /\ txs'[r] # None
  <2>1. txs[r] # None /\ txs[r].cmd = old[r].cmd
    <3>1. CASE written[k][r] = None
      BY <1>5, <3>1 DEF WorkerView
    <3>2. CASE written[k][r] # None
      BY <1>5, <3>2, UpdatedWaits, RowAssumption DEF WorkerView
    <3> QED
      BY <3>1, <3>2
  <2> QED
    BY <1>5, <2>1 DEF Undisturbed, Extends
<1>7. ASSUME NEW x \in ProcessedReversals(new, r, row.cmd.kind) PROVE x = t
  <2>1. /\ x \in TxIds /\ new[x] # None /\ new[x].refTx = r
        /\ new[x].cmd.kind = row.cmd.kind /\ new[x].status = "PROCESSED"
    BY <1>1 DEF ProcessedReversals, Stored, Tables
  <2>2. CASE new[x] = old[x]
    BY <1>1, <1>2, <2>1, <2>2 DEF ProcessedReversals, Stored, Tables
  <2>3. CASE new[x] # old[x]
    <3>1. written[k][x] = None /\ new[x] = txs'[x] /\ txs'[x] # txs[x]
      BY <2>1, <2>3 DEF WorkerView, Undisturbed
    <3>2. SameOwner(txs'[x].cmd, txs'[r].cmd) /\ copy[k][txs'[x].cmd.wallet] = None
      BY <1>2, <2>1, <3>1 DEF Undisturbed
    <3>3. txs'[x].cmd.wallet = row.cmd.wallet
      BY <1>5, <1>6, <3>2 DEF SameOwner
    <3> QED
      BY <1>2, <3>2, <3>3
  <2> QED
    BY <2>2, <2>3
<1> QED
  BY <1>4, <1>7

\* Entries go on matching the rows they were made for.
LEMMA MatchesKept ==
  ASSUME BatchInv, NEW k \in Workers, NEW new \in Tables, Extends(WorkerView(k), new),
         NEW x \in TxIds, written[k][x] # None,
         NEW e, Matches(e, written[k][x], WorkerView(k))
  PROVE  Matches(e, written[k][x], new)
<1> DEFINE row == written[k][x]
           old == WorkerView(k)
<1>1. old \in Tables /\ WorkerInv(k)
  BY ViewType DEF BatchInv, LedgerInv, DecisionInv
<1>2. ItemProcessed(k, x)
  BY <1>1 DEF WorkerInv, ItemsDecided, ItemWaits, ItemRejected, Matches, Moves
<1>3. row.refTx \in TxIds /\ old[row.refTx] # None
  BY <1>1, <1>2 DEF ItemProcessed, MayReverse, FindByExternal, Stored, Tables
<1>4. new[row.refTx].cmd = old[row.refTx].cmd
  BY <1>3 DEF Extends
<1> QED
  BY <1>4 DEF Matches, RefKind

LEMMA WorkerKept ==
  ASSUME BatchInv, TypeInv', NEW k \in Workers, Undisturbed(k)
  PROVE  WorkerInv(k)'
<1> DEFINE old == WorkerView(k)
           new == WorkerView(k)'
<1>1. old \in Tables /\ new \in Tables /\ Extends(old, new) /\ TypeInv
  BY ViewType, ViewTypeNext, ViewKept DEF BatchInv, LedgerInv, Undisturbed
<1>2. WorkerInv(k)
  BY DEF BatchInv, DecisionInv
<1>3. Queued(k)'
  <2>1. \A i \in 1 .. Len(todo[k]) : todo[k][i] \in InBatch(k)
    BY DEF InBatch
  <2>2. \A t \in TxIds : written[k][t] # None => t \in InBatch(k)
    BY UpdatedWaits
  <2> QED
    BY <1>2, <2>1, <2>2 DEF WorkerInv, Queued, Undisturbed
<1>4. ItemsDecided(k)'
  <2> SUFFICES ASSUME NEW t \in TxIds, written[k][t] # None
               PROVE  ItemWaits(k, t)' \/ ItemProcessed(k, t)' \/ ItemRejected(k, t)'
    BY DEF ItemsDecided, Undisturbed
  <2>1. t \in InBatch(k) /\ written[k][t].cmd \in CommandRecords
    BY UpdatedWaits DEF Rows
  <2>2. txs'[t] = txs[t] /\ written'[k][t] = written[k][t]
    BY <2>1 DEF Undisturbed
  <2>3. CASE ItemWaits(k, t)
    BY <2>2, <2>3 DEF ItemWaits
  <2>4. CASE ItemProcessed(k, t)
    <3>1. MayReverse(new, written[k][t].cmd, written[k][t].refTx)
      BY <1>1, <2>4, MayReverseKept DEF ItemProcessed
    <3>2. ProcessedReversals(new, written[k][t].refTx, written[k][t].cmd.kind) = {t}
      BY <2>4, OnceKept
    <3> QED
      BY <2>2, <2>4, <3>1, <3>2 DEF ItemProcessed, Undisturbed
  <2>5. CASE ItemRejected(k, t)
    <3> DEFINE m == written[k][t].cmd
               code == written[k][t].failure
    <3>1. Refused(old, m, code) => Refused(new, m, code)
      BY <1>1, RefusedKept
    <3>2. m.wallet \in Wallets
      BY <2>1, CommandFields
    <3>3. WalletRefuses(k, m, code) => WalletRefuses(k, m, code)'
      BY <2>2, <3>2 DEF WalletRefuses, Undisturbed
    <3> QED
      BY <2>2, <2>5, <3>1, <3>3 DEF ItemRejected
  <2> QED
    BY <1>2, <2>3, <2>4, <2>5 DEF WorkerInv, ItemsDecided
<1>5. MovesRecorded(k)'
  <2>1. ASSUME NEW w \in Wallets, NEW i \in 1 .. Len(moved[k][w]), 
               written[k][moved[k][w][i].tx] # None,
               Matches(moved[k][w][i], written[k][moved[k][w][i].tx], old)
        PROVE  Matches(moved[k][w][i], written[k][moved[k][w][i].tx], new)
    <3>1. moved[k][w][i].tx \in TxIds
      BY <1>1, MovedType
    <3> QED
      BY <1>1, <2>1, <3>1, MatchesKept
  <2>4. MovesRecorded(k)
    BY <1>2 DEF WorkerInv
  <2>5. written'[k] = written[k] /\ moved'[k] = moved[k]
    BY DEF Undisturbed
  <2>6. \A t \in TxIds : (written[k][t] # None /\ Moves(written[k][t])) =>
          \E i \in 1 .. Len(moved[k][written[k][t].cmd.wallet]) :
            moved[k][written[k][t].cmd.wallet][i].tx = t
    BY <2>4 DEF MovesRecorded
  <2>7. \A w \in Wallets : \A i \in 1 .. Len(moved[k][w]) :
          LET e == moved[k][w][i] IN
          /\ written[k][e.tx] # None /\ written[k][e.tx].cmd.wallet = w
          /\ Matches(e, written[k][e.tx], old)
          /\ \A j \in 1 .. Len(moved[k][w]) : moved[k][w][j].tx = e.tx => i = j
    BY <2>4 DEF MovesRecorded
  <2>2. ASSUME NEW t \in TxIds, written'[k][t] # None, Moves(written'[k][t])
        PROVE  \E i \in 1 .. Len(moved'[k][written'[k][t].cmd.wallet]) :
                 moved'[k][written'[k][t].cmd.wallet][i].tx = t
    BY <2>2, <2>5, <2>6
  <2>3. ASSUME NEW w \in Wallets, NEW i \in 1 .. Len(moved'[k][w])
        PROVE  LET e == moved'[k][w][i] IN
               /\ written'[k][e.tx] # None /\ written'[k][e.tx].cmd.wallet = w
               /\ Matches(e, written'[k][e.tx], new)
               /\ \A j \in 1 .. Len(moved'[k][w]) : moved'[k][w][j].tx = e.tx => i = j
    BY <2>1, <2>5, <2>7
  <2> QED
    BY <2>2, <2>3 DEF MovesRecorded, Moves, Matches
<1>6. CopiesCounted(k)'
  BY <1>2 DEF WorkerInv, CopiesCounted, Undisturbed
<1>7. StillResolved(k)'
  <2>1. CASE wpc[k] = "lock"
    <3>1. todo[k] # <<>>
      BY <1>1, <2>1 DEF TypeInv, BatchReady
    <3>2. txs'[Head(todo[k])] = txs[Head(todo[k])]
      BY <3>1, QueuedWaits DEF Undisturbed
    <3>3. MayReverse(new, txs[Head(todo[k])].cmd, wref[k])
      BY <1>1, <1>2, <2>1, MayReverseKept DEF WorkerInv, StillResolved
    <3> QED
      BY <3>2, <3>3 DEF StillResolved, Undisturbed
  <2>2. CASE wpc[k] # "lock"
    BY <2>2 DEF StillResolved, Undisturbed
  <2> QED
    BY <2>1, <2>2
<1> QED
  BY <1>3, <1>4, <1>5, <1>6, <1>7 DEF WorkerInv

-----------------------------------------------------------------------------
(* Calls                                                                   *)

LEMMA CallViewType ==
  ASSUME TypeInv, NEW c \in Calls, pc[c] = "finish" \/ pc[c] = "resolve"
  PROVE  /\ CallView(c) \in Tables /\ c \in TxIds
         /\ \A t \in TxIds : CallView(c)[t] = IF t = c THEN NewRow(cmd[c]) ELSE txs[t]
<1>1. cmd[c] \in AllCommands /\ c \in TxIds /\ txs \in Tables
  BY DEF TypeInv, CallReady, TxIds, TypeOK, DbTypeOK, Tables
<1> QED
  BY <1>1, NewRowType DEF CallView, Tables

\* A call that has claimed its row has not committed it.
LEMMA NotYetStored ==
  ASSUME ClaimInv, NEW c \in Calls, InFlight(c)
  PROVE  c \in TxIds /\ txs[c] = None
<1>1. c \in TxIds
  BY DEF TxIds
<1>2. ASSUME txs[c] # None PROVE FALSE
  <2>1. c \in Stored(txs)
    BY <1>1, <1>2 DEF Stored, ClaimInv, TypeInv, TypeOK, DbTypeOK
  <2>2. txs[c].cmd = cmd[c] /\ ~Clash(txs[c].cmd, cmd[c])
    BY <2>1 DEF ClaimInv, RowsOwned, ClaimsApart
  <2> QED
    BY <2>2 DEF Clash
<1> QED
  BY <1>1, <1>2

\* The verdict of a call keeps its grounds while the tables grow.
LEMMA VerdictsKept ==
  ASSUME BatchInv, TypeInv', Extends(txs, txs'),
         \A c \in Calls : pc'[c] = "finish" =>
           pc[c] = "finish" /\ cmd'[c] = cmd[c] /\ verdict'[c] = verdict[c],
         \A c \in Calls : pc'[c] = "resolve" => pc[c] = "resolve" /\ cmd'[c] = cmd[c]
  PROVE  CallVerdicts'
<1> SUFFICES ASSUME NEW c \in Calls, pc'[c] = "finish", cmd[c].kind \in Reversals
             PROVE  Grounds(CallView(c)', cmd[c], verdict[c])
  BY DEF CallVerdicts, BatchInv, DecisionInv
<1>1. pc[c] = "finish" /\ cmd'[c] = cmd[c] /\ TypeInv
  BY DEF BatchInv, LedgerInv
<1>2. CallView(c) \in Tables /\ c \in TxIds
      /\ \A t \in TxIds : CallView(c)[t] = IF t = c THEN NewRow(cmd[c]) ELSE txs[t]
  BY <1>1, CallViewType
<1>3. cmd[c] \in AllCommands /\ txs' \in Tables
  BY <1>1 DEF TypeInv, CallReady, TypeOK, DbTypeOK, Tables
<1>4. /\ CallView(c)' \in Tables
      /\ \A t \in TxIds : CallView(c)'[t] = IF t = c THEN NewRow(cmd[c]) ELSE txs'[t]
  BY <1>1, <1>2, <1>3, NewRowType DEF CallView, Tables
<1>5. Extends(CallView(c), CallView(c)')
  <2> DEFINE a == CallView(c)
             b == CallView(c)'
  <2>1. ASSUME NEW t \in TxIds, a[t] # None
        PROVE  b[t] # None /\ b[t].cmd = a[t].cmd /\ (IsTerminal(a[t]) => b[t] = a[t])
    BY <1>2, <1>4, <2>1 DEF Extends
  <2> QED
    BY <2>1 DEF Extends
<1>6. Grounds(CallView(c), cmd[c], verdict[c])
  BY <1>1 DEF BatchInv, DecisionInv, CallVerdicts
<1> HIDE DEF CallView
<1> QED
  BY <1>2, <1>4, <1>5, <1>6, GroundsKept

\* A call that resolves its reference, or has none, knows what it knows.
LEMMA VerdictReached ==
  ASSUME BatchInv, TypeInv', NEW c \in Calls, Claim(c) \/ Resolve(c)
  PROVE  CallVerdicts'
<1>1. TypeInv /\ UNCHANGED <<txs, cmd>>
  BY DEF BatchInv, LedgerInv, Claim, Resolve, dbVars
<1>2. ASSUME NEW d \in Calls, d # c
      PROVE  pc'[d] = pc[d] /\ verdict'[d] = verdict[d]
  BY <1>1, <1>2 DEF Claim, Resolve, TypeInv, TypeOK, CallTypeOK
<1>3. CASE Claim(c)
  <2>1. /\ pc'[c] = "finish" => /\ cmd[c].kind \notin Reversals
                                /\ verdict'[c] = ResolvedVerdict(None)
        /\ pc'[c] = "resolve" => cmd[c].kind \in Reversals
    BY <1>1, <1>3 DEF Claim, RequiresReference, TypeInv, TypeOK, CallTypeOK
  <2> QED
    BY <1>1, <1>2, <2>1 DEF CallVerdicts, CallView, BatchInv, DecisionInv
<1>4. CASE Resolve(c)
  <2>1. verdict'[c] = ResolveReference(CallView(c), cmd[c])
    BY <1>1, <1>4 DEF Resolve, TypeInv, TypeOK, CallTypeOK
  <2>2. CallView(c) \in Tables
    BY <1>1, <1>4, CallViewType DEF Resolve
  <2>3. Grounds(CallView(c), cmd[c], verdict'[c])
    BY <2>1, <2>2, VerdictGrounds
  <2>4. cmd[c].kind \in Reversals /\ pc'[c] = "finish"
    BY <1>1, <1>4 DEF Resolve, BatchInv, DecisionInv, CallVerdicts, TypeInv, TypeOK,
                      CallTypeOK
  <2> QED
    BY <1>1, <1>2, <2>3, <2>4 DEF CallVerdicts, CallView, BatchInv, DecisionInv
<1> QED
  BY <1>3, <1>4

-----------------------------------------------------------------------------
(* What a transaction commits                                              *)

WalletSays(m, wallet, code) ==
  \/ code = "WALLET_CURRENCY_MISMATCH" /\ m.currency # wallet.currency
  \/ /\ code = IF m.kind = "ROLLBACK" THEN "ROLLBACK_INSUFFICIENT_BALANCE"
                                      ELSE "INSUFFICIENT_BALANCE"
     /\ wallet.balance < m.amount

\* An effect moves nothing, moves the wallet once, or refuses the row.
Still(e, row, wallet, ref) ==
  /\ ~AffectsBalance(row.cmd.kind) /\ e.row = MarkProcessed(row, ref)
  /\ e.wallet = wallet /\ e.entries = <<>>

MovesOnce(e, t, row, wallet, ref, refKind) ==
  /\ AffectsBalance(row.cmd.kind) /\ e.row = MarkProcessed(row, ref)
  /\ e.wallet = [wallet EXCEPT !.balance = e.wallet.balance, !.version = @ + 1]
  /\ Len(e.entries) = 1 /\ e.entries[1].tx = t
  /\ e.entries[1].amount = row.cmd.amount
  /\ e.entries[1].dir = LedgerDirectionFor(row.cmd.kind, refKind)

Refuses(e, row, wallet) ==
  /\ e.row = MarkRejected(row, e.row.failure)
  /\ WalletSays(row.cmd, wallet, e.row.failure)
  /\ e.wallet = wallet /\ e.entries = <<>>

LEMMA EffectCases ==
  ASSUME NEW t \in TxIds, NEW row \in Rows, NEW wallet \in WalletRows,
         NEW ref \in TxIds \cup {None}, NEW refKind,
         ApplyEffect(t, row, wallet, ref, refKind).error = None
  PROVE  LET e == ApplyEffect(t, row, wallet, ref, refKind) IN
         \/ Still(e, row, wallet, ref)
         \/ MovesOnce(e, t, row, wallet, ref, refKind)
         \/ Refuses(e, row, wallet)
<1> DEFINE dir == LedgerDirectionFor(row.cmd.kind, refKind)
           refusal == MovementRefusal(wallet, row.cmd, dir)
           e == ApplyEffect(t, row, wallet, ref, refKind)
           entry == LedgerEntry(t, dir, wallet.balance, row.cmd.amount)
<1>1. CASE ~AffectsBalance(row.cmd.kind)
  BY <1>1 DEF ApplyEffect, Effect, Still
<1>2. CASE AffectsBalance(row.cmd.kind) /\ refusal = None
  <2>1. e = Effect(MarkProcessed(row, ref), ApplyMovement(wallet, dir, row.cmd.amount),
                   <<entry>>, None)
    BY <1>2 DEF ApplyEffect
  <2>2. entry.tx = t /\ entry.amount = row.cmd.amount /\ entry.dir = dir
    BY DEF LedgerEntry
  <2>3. ApplyMovement(wallet, dir, row.cmd.amount)
          = [wallet EXCEPT !.balance = ApplyMovement(wallet, dir, row.cmd.amount).balance,
                           !.version = @ + 1]
    BY DEF ApplyMovement, WalletRows
  <2> HIDE DEF dir, entry
  <2> QED
    BY <1>2, <2>1, <2>2, <2>3 DEF Effect, MovesOnce, dir
<1>3. CASE AffectsBalance(row.cmd.kind) /\ refusal # None
  <2>1. /\ refusal \in FailureCodes
        /\ e = Effect(MarkRejected(row, refusal), wallet, <<>>, None)
    BY <1>3 DEF ApplyEffect, Effect
  <2>2. WalletSays(row.cmd, wallet, refusal)
    BY <1>3, <2>1 DEF MovementRefusal, WalletSays, FailureCodes
  <2>3. MarkRejected(row, refusal).failure = refusal
    BY DEF MarkRejected, Rows
  <2> HIDE DEF refusal
  <2> QED
    BY <2>1, <2>2, <2>3 DEF Effect, Refuses
<1> QED
  BY <1>1, <1>2, <1>3

\* A call that commits its row does so on the grounds it has.
CallWaits(c, row) ==
  /\ row.status = "PENDING_REFERENCE" /\ row.attempts = 1 /\ row.failure = None
  /\ cmd[c].kind \in Reversals

CallProcesses(c, row) ==
  /\ row.status = "PROCESSED" /\ row.attempts = 0 /\ row.failure = None
  /\ cmd[c].kind \in Reversals =>
       /\ MayReverse(CallView(c), cmd[c], row.refTx)
       /\ ProcessedReversals(txs, row.refTx, cmd[c].kind) = {}

CallRejects(c, row) ==
  /\ row.status = "REJECTED" /\ row.attempts = 0
  /\ \/ Refused(CallView(c), cmd[c], row.failure)
     \/ WalletSays(cmd[c], seen[c], row.failure)

CallMoves(c, e) ==
  /\ Moves(e.row) /\ Len(e.entries) = 1 /\ e.entries[1].tx = c
  /\ e.entries[1].amount = cmd[c].amount
  /\ e.entries[1].dir = LedgerDirectionFor(cmd[c].kind, RefKind(txs, e.row.refTx))
  /\ e.wallet = [seen[c] EXCEPT !.balance = e.wallet.balance, !.version = @ + 1]

CallStays(c, e) ==
  ~Moves(e.row) /\ e.entries = <<>> /\ e.wallet = seen[c]

LEMMA CallOutcome ==
  ASSUME BatchInv, NEW c \in Calls, pc[c] = "finish", CallEffect(c).error = None,
         ~ViolatesReferenceOnce(txs, c, CallEffect(c).row)
  PROVE  LET e == CallEffect(c) IN
         /\ e.row \in Rows /\ e.row.cmd = cmd[c]
         /\ CallWaits(c, e.row) \/ CallProcesses(c, e.row) \/ CallRejects(c, e.row)
         /\ CallMoves(c, e) \/ CallStays(c, e)
<1> DEFINE e == CallEffect(c)
           row == NewRow(cmd[c])
           v == verdict[c]
<1>1. TypeInv /\ ClaimInv
  BY DEF BatchInv, LedgerInv
<1>2. e.row \in Rows /\ e.row.cmd = cmd[c]
  BY <1>1, CallEffectType
<1>3. /\ row \in Rows /\ row.cmd = cmd[c] /\ row.attempts = 0 /\ row.failure = None
      /\ cmd[c] \in AllCommands
  BY <1>1, NewRowType DEF TypeInv, CallReady, NewRow
<1>4. /\ v \in Verdicts /\ seen[c] \in WalletRows /\ c \in TxIds /\ txs[c] = None
      /\ v.outcome \in {"pending", "rejected", "resolved"} /\ v.ref \in TxIds \cup {None}
  BY <1>1, NotYetStored DEF TypeInv, CallReady, InTransaction, InFlight, Verdicts
<1>5. IF cmd[c].kind \in Reversals THEN Grounds(CallView(c), cmd[c], v)
                                   ELSE v = ResolvedVerdict(None)
  BY DEF BatchInv, DecisionInv, CallVerdicts
<1> HIDE DEF row, v
<1>6. CASE v.outcome = "pending"
  <2>1. e = Effect(MarkPendingReference(row), seen[c], <<>>, None)
    BY <1>6 DEF CallEffect, row, v
  <2> HIDE DEF e
  <2>5. e.row = MarkPendingReference(row) /\ e.entries = <<>> /\ e.wallet = seen[c]
    BY <2>1 DEF Effect
  <2>2. /\ e.row.status = "PENDING_REFERENCE" /\ e.row.attempts = 1
        /\ e.row.failure = None
    BY <1>3, <2>5 DEF MarkPendingReference, Rows
  <2>3. cmd[c].kind \in Reversals
    BY <1>5, <1>6 DEF ResolvedVerdict
  <2>4. CallStays(c, e)
    BY <2>5, <2>2 DEF CallStays, Moves
  <2> QED
    BY <1>2, <2>2, <2>3, <2>4 DEF CallWaits, e
<1>7. CASE v.outcome = "rejected"
  <2>1. e = Effect(MarkRejected(row, v.code), seen[c], <<>>, None)
    BY <1>7 DEF CallEffect, row, v
  <2> HIDE DEF e
  <2>5. e.row = MarkRejected(row, v.code) /\ e.entries = <<>> /\ e.wallet = seen[c]
    BY <2>1 DEF Effect
  <2>2. e.row.status = "REJECTED" /\ e.row.attempts = 0 /\ e.row.failure = v.code
    BY <1>3, <2>5 DEF MarkRejected, Rows
  <2>3. Refused(CallView(c), cmd[c], v.code)
    BY <1>5, <1>7 DEF ResolvedVerdict, Grounds
  <2>4. CallStays(c, e)
    BY <2>5, <2>2 DEF CallStays, Moves
  <2> QED
    BY <1>2, <2>2, <2>3, <2>4 DEF CallRejects, e
<1>8. CASE v.outcome = "resolved"
  <2> DEFINE refKind == RefKind(txs, v.ref)
  <2>1. e = ApplyEffect(c, row, seen[c], v.ref, refKind)
    BY <1>8 DEF CallEffect, row, v
  <2>2. \/ Still(e, row, seen[c], v.ref)
        \/ MovesOnce(e, c, row, seen[c], v.ref, refKind)
        \/ Refuses(e, row, seen[c])
    BY <1>3, <1>4, <2>1, EffectCases
  <2>3. CASE e.row = MarkProcessed(row, v.ref)
    <3>1. /\ e.row.status = "PROCESSED" /\ e.row.refTx = v.ref
          /\ e.row.attempts = 0 /\ e.row.failure = None
      BY <1>3, <2>3 DEF MarkProcessed, Rows
    <3>2. ASSUME cmd[c].kind \in Reversals
          PROVE  /\ MayReverse(CallView(c), cmd[c], v.ref)
                 /\ ProcessedReversals(txs, v.ref, cmd[c].kind) = {}
      <4>1. c \notin ProcessedReversals(txs, v.ref, cmd[c].kind)
        BY <1>4 DEF ProcessedReversals, Stored
      <4>2. ProcessedReversals(txs, v.ref, cmd[c].kind) \ {c} = {}
        BY <1>2, <3>1, <3>2 DEF ViolatesReferenceOnce
      <4> QED
        BY <1>5, <1>8, <3>2, <4>1, <4>2 DEF Grounds
    <3>3. CallProcesses(c, e.row)
      BY <3>1, <3>2 DEF CallProcesses
    <3> HIDE DEF e
    <3>4. CASE Still(e, row, seen[c], v.ref)
      BY <1>2, <1>3, <3>3, <3>4 DEF Still, CallStays, Moves, e
    <3>5. CASE MovesOnce(e, c, row, seen[c], v.ref, refKind)
      BY <1>2, <1>3, <3>1, <3>3, <3>5 DEF MovesOnce, CallMoves, Moves, e
    <3>6. CASE Refuses(e, row, seen[c])
      <4>1. e.row.status = "REJECTED"
        BY <1>3, <3>6 DEF Refuses, MarkRejected, Rows
      <4> QED
        BY <3>1, <4>1
    <3> QED
      BY <2>2, <3>4, <3>5, <3>6 DEF e
  <2>4. CASE Refuses(e, row, seen[c])
    <3>1. e.row.status = "REJECTED" /\ e.row.attempts = 0
      BY <1>3, <2>4 DEF Refuses, MarkRejected, Rows
    <3> QED
      BY <1>2, <1>3, <2>4, <3>1 DEF Refuses, CallRejects, CallStays, Moves
  <2> QED
    BY <2>2, <2>3, <2>4 DEF Still, MovesOnce
<1> QED
  BY <1>4, <1>6, <1>7, <1>8

-----------------------------------------------------------------------------
(* Steps of calls, of wallets and of time                                  *)

LEMMA BatchRowsWait ==
  ASSUME BatchInv, NEW k \in Workers, NEW t \in InBatch(k)
  PROVE  t \in TxIds /\ t \in due /\ txs[t] # None
<1>1. CASE t \in Stored(written[k])
  <2>1. t \in TxIds /\ written[k][t] # None
    BY <1>1 DEF Stored, BatchInv, LedgerInv, TypeInv, TypeOK, WorkerTypeOK
  <2> QED
    BY <2>1 DEF BatchInv, DecisionInv, WorkerInv, Queued, DueWait
<1>2. CASE t \in {todo[k][i] : i \in 1 .. Len(todo[k])}
  BY <1>2 DEF BatchInv, DecisionInv, WorkerInv, Queued, DueWait, LedgerInv,
              TypeInv, TypeOK, DbTypeOK
<1> QED
  BY <1>1, <1>2 DEF InBatch

\* Where rows and batches stay, so does what was decided about them.
LEMMA RowsStay ==
  ASSUME BatchInv, TypeInv', UNCHANGED txs, UNCHANGED workerVars,
         due \subseteq due', DueWait', CallVerdicts',
         \A k \in Workers, w \in Wallets : copy[k][w] # None => wallets'[w] = wallets[w]
  PROVE  DecisionInv'
<1>1. RowsWait' /\ BatchesApart'
  BY DEF RowsWait, BatchesApart, InBatch, Stored, BatchInv, DecisionInv, workerVars
<1>2. ASSUME NEW k \in Workers PROVE WorkerInv(k)'
  <2>1. Undisturbed(k)
    BY DEF Undisturbed, Extends, workerVars
  <2> QED
    BY <2>1, WorkerKept
<1> QED
  BY <1>1, <1>2 DEF DecisionInv

\* A new row disturbs no batch unless it reverses what the batch may reverse.
LEMMA NewRowDecides ==
  ASSUME BatchInv, TypeInv', NEW n \in TxIds, NEW row, row # None,
         txs[n] = None, txs' = [txs EXCEPT ![n] = row],
         UNCHANGED due, UNCHANGED workerVars, CallVerdicts',
         row.status = "PENDING_REFERENCE" =>
           row.cmd.kind \in Reversals /\ row.failure = None,
         \A k \in Workers, w \in Wallets : copy[k][w] # None => wallets'[w] = wallets[w],
         (row.status = "PROCESSED" /\ row.cmd.kind \in Reversals) =>
           /\ SameOwner(row.cmd, txs'[row.refTx].cmd)
           /\ \A k \in Workers : copy[k][row.cmd.wallet] = None
  PROVE  DecisionInv'
<1>1. \A t \in TxIds : txs'[t] = IF t = n THEN row ELSE txs[t]
  BY DEF BatchInv, LedgerInv, TypeInv, TypeOK, DbTypeOK
<1>2. RowsWait'
  BY <1>1 DEF RowsWait, BatchInv, DecisionInv
<1>3. DueWait'
  BY <1>1 DEF DueWait, BatchInv, DecisionInv, LedgerInv, TypeInv, TypeOK, DbTypeOK
<1>4. BatchesApart'
  BY DEF BatchesApart, InBatch, Stored, BatchInv, DecisionInv, workerVars
<1>5. ASSUME NEW k \in Workers PROVE WorkerInv(k)'
  <2>1. Extends(txs, txs')
    BY <1>1 DEF Extends
  <2>2. \A t \in InBatch(k) : txs'[t] = txs[t]
    BY <1>1, BatchRowsWait
  <2>3. Undisturbed(k)
    BY <1>1, <2>1, <2>2 DEF Undisturbed, workerVars
  <2> QED
    BY <2>3, WorkerKept
<1> QED
  BY <1>2, <1>3, <1>4, <1>5 DEF DecisionInv

\* A call that neither claims nor resolves leaves every verdict as it was.
LEMMA CallEnds ==
  ASSUME BatchInv, TypeInv', Extends(txs, txs'), NEW c \in Calls, NEW next,
         pc' = [pc EXCEPT ![c] = next], next \notin {"resolve", "finish"},
         \A d \in Calls \ {c} : cmd'[d] = cmd[d] /\ verdict'[d] = verdict[d]
  PROVE  CallVerdicts'
<1>1. \A d \in Calls : pc'[d] = IF d = c THEN next ELSE pc[d]
  BY DEF BatchInv, LedgerInv, TypeInv, TypeOK, CallTypeOK
<1>2. \A d \in Calls : pc'[d] = "finish" =>
        pc[d] = "finish" /\ cmd'[d] = cmd[d] /\ verdict'[d] = verdict[d]
  BY <1>1
<1>3. \A d \in Calls : pc'[d] = "resolve" => pc[d] = "resolve" /\ cmd'[d] = cmd[d]
  BY <1>1
<1> QED
  BY <1>2, <1>3, VerdictsKept

LEMMA CallStepDecides ==
  ASSUME BatchInv, TypeInv', NEW c \in Calls, CallStep(c) \/ CrashCall(c),
         UNCHANGED dbVars
  PROVE  DecisionInv'
<1>1. /\ UNCHANGED wallets /\ UNCHANGED txs /\ UNCHANGED due /\ UNCHANGED workerVars
      /\ UNCHANGED cmd
  BY DEF CallStep, RefuseCommand, LockWallet, Claim, ClaimConflict, Resolve, Finish,
         LookupKey, LookupExternal, AbortCall, CrashCall, dbVars
<1>2. CallVerdicts'
  <2>1. CASE Claim(c) \/ Resolve(c)
    BY <2>1, VerdictReached
  <2>2. CASE ~Claim(c) /\ ~Resolve(c)
    <3>1. \E next \in {"done", "lookupKey", "lookupExternal", "claim"} :
            pc' = [pc EXCEPT ![c] = next]
      BY <2>2
      DEF CallStep, RefuseCommand, LockWallet, ClaimConflict, Finish, LookupKey,
          LookupExternal, AbortCall, CrashCall, EndCall
    <3>2. \A d \in Calls \ {c} : verdict'[d] = verdict[d]
      BY <2>2
      DEF CallStep, RefuseCommand, LockWallet, ClaimConflict, Finish, LookupKey,
          LookupExternal, AbortCall, CrashCall, EndCall,
          BatchInv, LedgerInv, TypeInv, TypeOK, CallTypeOK
    <3> QED
      BY <1>1, <3>1, <3>2, ExtendsItself, CallEnds
  <2> QED
    BY <2>1, <2>2
<1>3. DueWait'
  BY <1>1 DEF DueWait, BatchInv, DecisionInv
<1> QED
  BY <1>1, <1>2, <1>3, RowsStay

LEMMA BeginDecides ==
  ASSUME BatchInv, TypeInv', NEW c \in Calls, NEW m \in AllCommands, Begin(c, m)
  PROVE  DecisionInv'
<1>1. /\ UNCHANGED wallets /\ UNCHANGED txs /\ UNCHANGED due /\ UNCHANGED workerVars
      /\ UNCHANGED verdict
  BY DEF Begin, dbVars
<1>2. CallVerdicts'
  <2>1. pc' = [pc EXCEPT ![c] = "lock"] /\ \A d \in Calls \ {c} : cmd'[d] = cmd[d]
    BY DEF Begin, BatchInv, LedgerInv, TypeInv, TypeOK, CallTypeOK
  <2> QED
    BY <1>1, <2>1, ExtendsItself, CallEnds
<1>3. DueWait'
  BY <1>1 DEF DueWait, BatchInv, DecisionInv
<1> QED
  BY <1>1, <1>2, <1>3, RowsStay

\* Nobody calls: time passes, a wallet is opened, or nothing happens.
LEMMA CallsStay ==
  ASSUME BatchInv, TypeInv', Extends(txs, txs'), UNCHANGED callVars
  PROVE  CallVerdicts'
BY VerdictsKept DEF callVars

LEMMA BecomeDueDecides ==
  ASSUME BatchInv, TypeInv', (\E t \in TxIds : BecomeDue(t)) \/ UNCHANGED vars
  PROVE  DecisionInv'
<1>1. /\ UNCHANGED wallets /\ UNCHANGED txs /\ UNCHANGED workerVars /\ UNCHANGED callVars
      /\ due \subseteq due'
  BY DEF BecomeDue, vars, dbVars
<1>2. DueWait'
  BY DEF BecomeDue, DueWait, BatchInv, DecisionInv, vars, dbVars
<1> QED
  BY <1>1, <1>2, ExtendsItself, CallsStay, RowsStay

\* An opening transaction is a new row, and nobody has a copy of its wallet.
LEMMA NotYetOpened ==
  ASSUME BatchInv, NEW w \in Wallets, wallets[w] = None
  PROVE  /\ w \in TxIds /\ txs[w] = None
         /\ \A k \in Workers, v \in Wallets : copy[k][v] # None => v # w
<1>1. ClaimInv /\ TypeInv /\ CopiesLocked
  BY DEF BatchInv, LedgerInv, LockInv
<1>2. w \in TxIds /\ w \notin Calls
  BY IdsAssumption DEF TxIds
<1>3. ASSUME txs[w] # None PROVE FALSE
  <2>1. txs[w] \in Rows /\ w \in Stored(txs)
    BY <1>1, <1>2, <1>3 DEF TypeInv, TypeOK, DbTypeOK, Stored
  <2>2. txs[w].cmd.wallet = w
    BY <1>1, <1>2, <2>1 DEF ClaimInv, RowsOwned
  <2> QED
    BY <1>1, <1>2, <2>1, <2>2, RowAssumption DEF TypeInv, BatchReady
<1> QED
  BY <1>1, <1>2, <1>3 DEF CopiesLocked

LEMMA OpenWalletDecides ==
  ASSUME BatchInv, TypeInv', NEW w \in Wallets, NEW o \in AllOpenings, OpenWallet(w, o)
  PROVE  DecisionInv'
<1>1. /\ wallets[w] = None /\ wallets' = [wallets EXCEPT ![w] = OpenedWallet(o)]
      /\ UNCHANGED due /\ UNCHANGED workerVars /\ UNCHANGED callVars
  BY DEF OpenWallet
<1>2. /\ w \in TxIds /\ txs[w] = None
      /\ \A k \in Workers, v \in Wallets : copy[k][v] # None => v # w
  BY <1>1, NotYetOpened
<1>3. \A k \in Workers, v \in Wallets : copy[k][v] # None => wallets'[v] = wallets[v]
  BY <1>1, <1>2 DEF BatchInv, LedgerInv, TypeInv, TypeOK, DbTypeOK
<1>4. CASE UNCHANGED txs
  <2>1. DueWait'
    BY <1>1, <1>4 DEF DueWait, BatchInv, DecisionInv
  <2> QED
    BY <1>1, <1>3, <1>4, <2>1, ExtendsItself, CallsStay, RowsStay
<1>5. CASE txs' = [txs EXCEPT ![w] = OpeningRow(w, o)]
  <2> DEFINE row == OpeningRow(w, o)
  <2>1. row # None /\ row.status = "PROCESSED" /\ row.cmd.kind \notin Reversals
    BY OpeningRowType, RowAssumption DEF OpeningRow, Reversals
  <2> HIDE DEF row
  <2>2. txs' = [txs EXCEPT ![w] = row]
    BY <1>5 DEF row
  <2>3. Extends(txs, txs')
    BY <1>2, <2>2 DEF Extends, BatchInv, LedgerInv, TypeInv, TypeOK, DbTypeOK
  <2> QED
    BY <1>1, <1>2, <1>3, <2>1, <2>2, <2>3, CallsStay, NewRowDecides
<1> QED
  BY <1>4, <1>5 DEF OpenWallet

\* Whoever commits a row has the lock of its wallet, so no batch has a copy.
LEMMA FinishDecides ==
  ASSUME BatchInv, TypeInv', NEW c \in Calls, Finish(c)
  PROVE  DecisionInv'
<1> DEFINE e == CallEffect(c)
           w == cmd[c].wallet
<1>1. CASE UNCHANGED dbVars
  BY <1>1, CallStepDecides DEF CallStep
<1>2. CASE e.error = None /\ ~ViolatesReferenceOnce(txs, c, e.row)
  <2>1. /\ pc[c] = "finish" /\ EndCall(c, "done") /\ UNCHANGED cmd
        /\ UNCHANGED due /\ UNCHANGED workerVars
        /\ txs' = [txs EXCEPT ![c] = e.row]
        /\ wallets' = [wallets EXCEPT ![w] = e.wallet]
    BY <1>2 DEF Finish
  <2>2. c \in TxIds /\ txs[c] = None /\ TypeInv
    BY <2>1, NotYetStored DEF BatchInv, LedgerInv, InFlight
  <2>3. e.row \in Rows /\ e.row.cmd = cmd[c] /\ e.row # None
        /\ (CallWaits(c, e.row) \/ CallProcesses(c, e.row) \/ CallRejects(c, e.row))
    BY <1>2, <2>1, CallOutcome, RowAssumption
  <2> HIDE DEF e
  <2>4. \A t \in TxIds : txs'[t] = IF t = c THEN e.row ELSE txs[t]
    BY <2>1, <2>2 DEF TypeInv, TypeOK, DbTypeOK
  <2>5. Extends(txs, txs')
    BY <2>2, <2>4 DEF Extends
  <2>6. CallVerdicts'
    <3>1. pc' = [pc EXCEPT ![c] = "done"] /\ \A d \in Calls \ {c} : verdict'[d] = verdict[d]
      BY <2>1, <2>2 DEF EndCall, TypeInv, TypeOK, CallTypeOK
    <3> QED
      BY <2>1, <2>5, <3>1, CallEnds
  <2>7. lock[w] = c /\ w \in Wallets
    BY <2>1, <2>2, CommandsAssumption
    DEF BatchInv, LedgerInv, LockInv, SeenIsCurrent, InTransaction, TypeInv, CallReady
  <2>8. \A k \in Workers : copy[k][w] = None
    BY <2>7, IdsAssumption DEF BatchInv, LedgerInv, LockInv, CopiesLocked, Procs
  <2>9. \A k \in Workers, v \in Wallets : copy[k][v] # None => wallets'[v] = wallets[v]
    BY <2>1, <2>2, <2>8 DEF TypeInv, TypeOK, DbTypeOK
  <2>10. ASSUME e.row.status = "PROCESSED", e.row.cmd.kind \in Reversals
         PROVE  SameOwner(e.row.cmd, txs'[e.row.refTx].cmd)
    <3> DEFINE r == e.row.refTx
    <3>1. MayReverse(CallView(c), cmd[c], r)
      BY <2>3, <2>10 DEF CallWaits, CallProcesses, CallRejects
    <3>2. /\ CallView(c) \in Tables
          /\ \A t \in TxIds : CallView(c)[t] = IF t = c THEN NewRow(cmd[c]) ELSE txs[t]
      BY <2>1, <2>2, CallViewType
    <3>3. r \in TxIds /\ CallView(c)[r].status = "PROCESSED"
      BY <3>1, <3>2 DEF MayReverse, FindByExternal, Stored, Tables
    <3>4. r # c
      BY <3>2, <3>3 DEF NewRow
    <3>5. CallView(c)[r] = txs'[r]
      BY <2>4, <3>2, <3>3, <3>4
    <3> QED
      BY <2>3, <3>1, <3>5 DEF MayReverse
  <2>11. e.row.status = "PENDING_REFERENCE" =>
           e.row.cmd.kind \in Reversals /\ e.row.failure = None
    BY <2>3 DEF CallWaits, CallProcesses, CallRejects
  <2>12. \A k \in Workers : copy[k][e.row.cmd.wallet] = None
    BY <2>3, <2>8
  <2> QED
    BY <2>1, <2>2, <2>3, <2>6, <2>9, <2>10, <2>11, <2>12, NewRowDecides
<1> QED
  BY <1>1, <1>2 DEF Finish, dbVars

-----------------------------------------------------------------------------
(* Steps of a worker                                                       *)

OthersStay(k) ==
  \A j \in Workers \ {k} :
    /\ written'[j] = written[j] /\ copy'[j] = copy[j] /\ moved'[j] = moved[j]
    /\ todo'[j] = todo[j] /\ wpc'[j] = wpc[j] /\ wref'[j] = wref[j]

\* A worker that commits nothing has its own batch to answer for.
LEMMA OwnBatch ==
  ASSUME BatchInv, TypeInv', NEW k \in Workers, UNCHANGED dbVars, UNCHANGED callVars,
         OthersStay(k), WorkerInv(k)',
         \A j \in Workers \ {k} : InBatch(k)' \cap InBatch(j) = {}
  PROVE  DecisionInv'
<1>1. UNCHANGED wallets /\ UNCHANGED txs /\ UNCHANGED due
  BY DEF dbVars
<1>2. RowsWait' /\ DueWait' /\ CallVerdicts'
  BY <1>1, ExtendsItself, CallsStay DEF RowsWait, DueWait, BatchInv, DecisionInv
<1>3. ASSUME NEW j \in Workers PROVE WorkerInv(j)'
  <2>1. CASE j = k
    BY <2>1
  <2>2. CASE j # k
    <3>1. Undisturbed(j)
      BY <1>1, <2>2 DEF OthersStay, Undisturbed, Extends
    <3> QED
      BY <3>1, WorkerKept
  <2> QED
    BY <2>1, <2>2
<1>4. BatchesApart'
  <2>1. \A j \in Workers \ {k} : InBatch(j)' = InBatch(j)
    BY DEF OthersStay, InBatch, Stored
  <2> QED
    BY <2>1 DEF BatchesApart, BatchInv, DecisionInv
<1> QED
  BY <1>2, <1>3, <1>4 DEF DecisionInv

LEMMA EmptyBatch ==
  ASSUME TypeInv, NEW k \in Workers, EndBatch(k)
  PROVE  WorkerInv(k)' /\ InBatch(k)' = {} /\ OthersStay(k)
<1>1. /\ wpc'[k] = "idle" /\ todo'[k] = <<>> /\ written'[k] = NoWrites
      /\ copy'[k] = NoCopies /\ moved'[k] = NoMoves /\ OthersStay(k)
  BY DEF EndBatch, OthersStay, TypeInv, TypeOK, WorkerTypeOK
<1>2. InBatch(k)' = {}
  BY <1>1 DEF InBatch, Stored, NoWrites
<1>3. Queued(k)' /\ ItemsDecided(k)' /\ StillResolved(k)'
  BY <1>1 DEF Queued, ItemsDecided, StillResolved, NoWrites
<1>4. MovesRecorded(k)' /\ CopiesCounted(k)'
  BY <1>1 DEF MovesRecorded, CopiesCounted, NoWrites, NoMoves, NoCopies
<1> QED
  BY <1>1, <1>2, <1>3, <1>4 DEF WorkerInv

LEMMA EndBatchDecides ==
  ASSUME BatchInv, TypeInv', NEW k \in Workers, EndBatch(k),
         UNCHANGED dbVars, UNCHANGED callVars
  PROVE  DecisionInv'
BY EmptyBatch, OwnBatch DEF BatchInv, LedgerInv

\* What is written stays what it is.
LEMMA WritesKept ==
  ASSUME NEW k \in Workers, WorkerInv(k), UNCHANGED <<dbVars, written, copy, moved>>
  PROVE  ItemsDecided(k)' /\ MovesRecorded(k)' /\ CopiesCounted(k)'
<1>1. WorkerView(k)' = WorkerView(k)
  BY DEF WorkerView, dbVars
<1> HIDE DEF WorkerView
<1>2. ASSUME NEW t \in TxIds
      PROVE  /\ ItemWaits(k, t) => ItemWaits(k, t)'
             /\ ItemProcessed(k, t) => ItemProcessed(k, t)'
             /\ ItemRejected(k, t) => ItemRejected(k, t)'
  <2>1. ItemWaits(k, t) => ItemWaits(k, t)'
    BY DEF ItemWaits, dbVars
  <2>2. ItemProcessed(k, t) => ItemProcessed(k, t)'
    BY <1>1 DEF ItemProcessed, dbVars
  <2>3. ItemRejected(k, t) => ItemRejected(k, t)'
    BY <1>1 DEF ItemRejected, WalletRefuses, dbVars
  <2> QED
    BY <2>1, <2>2, <2>3
<1>3. ItemsDecided(k)'
  BY <1>2 DEF WorkerInv, ItemsDecided
<1>4. MovesRecorded(k)'
  <2>1. MovesRecorded(k)
    BY DEF WorkerInv
  <2>2. UNCHANGED <<written, moved>>
    OBVIOUS
  <2> QED
    BY <1>1, <2>1, <2>2, SMTT(30) DEF MovesRecorded
<1>5. CopiesCounted(k)'
  BY DEF WorkerInv, CopiesCounted, dbVars
<1> QED
  BY <1>3, <1>4, <1>5

\* A new batch takes rows of no other batch, each of them once.
LEMMA SelectBatchDecides ==
  ASSUME BatchInv, TypeInv', NEW k \in Workers, SelectBatch(k)
  PROVE  DecisionInv'
<1>1. PICK S \in Batches : \E s \in Orders(S) : todo' = [todo EXCEPT ![k] = s]
  BY DEF SelectBatch
<1>2. PICK s \in Orders(S) : todo' = [todo EXCEPT ![k] = s]
  BY <1>1
<1>3. TypeInv /\ WorkerInv(k)
  BY DEF BatchInv, LedgerInv, DecisionInv
<1>4. /\ todo'[k] = s /\ OthersStay(k) /\ wpc'[k] = "batch"
      /\ UNCHANGED <<dbVars, callVars, wref, written, copy, moved>>
  BY <1>2, <1>3 DEF SelectBatch, OthersStay, TypeInv, TypeOK, WorkerTypeOK
<1>5. S \subseteq due /\ \A j \in Workers : S \cap InBatch(j) = {}
  BY DEF Batches, Selectable
<1>6. Cardinality(S) \in Nat
  BY <1>3, <1>5, IdsAssumption, FS_Subset, FS_CardinalityType DEF TypeInv, TypeOK, DbTypeOK
<1>7. /\ Len(s) = Cardinality(S)
      /\ \A i \in 1 .. Len(s) : s[i] \in S
      /\ \A i, j \in 1 .. Len(s) : s[i] = s[j] => i = j
  BY <1>6 DEF Orders
<1>8. Queued(k)'
  <2>1. \A t \in TxIds : written[k][t] # None => t \in InBatch(k)
    BY UpdatedWaits
  <2>2. S \subseteq TxIds
    BY <1>3, <1>5 DEF TypeInv, TypeOK, DbTypeOK
  <2>3. \A t \in S : t \in due /\ written[k][t] = None
    BY <1>5, <2>1, <2>2
  <2> QED
    BY <1>3, <1>4, <1>7, <2>3 DEF Queued, WorkerInv, dbVars
<1>9. ItemsDecided(k)' /\ MovesRecorded(k)' /\ CopiesCounted(k)'
  BY <1>3, <1>4, WritesKept
<1>10. StillResolved(k)'
  BY <1>4 DEF StillResolved
<1>11. \A j \in Workers \ {k} : InBatch(k)' \cap InBatch(j) = {}
  <2>1. InBatch(k)' \subseteq InBatch(k) \cup S
    BY <1>4, <1>7 DEF InBatch
  <2> QED
    BY <1>5, <2>1 DEF BatchesApart, BatchInv, DecisionInv
<1> QED
  BY <1>4, <1>8, <1>9, <1>10, <1>11, OwnBatch DEF WorkerInv

\* A reference that resolves is kept in mind until the wallet is locked.
LEMMA ResolvedDecides ==
  ASSUME BatchInv, TypeInv', NEW k \in Workers, ResolveItem(k), wpc'[k] = "lock"
  PROVE  DecisionInv'
<1> DEFINE t == Head(todo[k])
           v == ResolveReference(WorkerView(k), txs[t].cmd)
<1>1. TypeInv /\ WorkerInv(k)
  BY DEF BatchInv, LedgerInv, DecisionInv
<1>2. v.outcome = "resolved" /\ wpc[k] = "batch"
  BY DEF ResolveItem
<1>3. /\ wref'[k] = v.ref /\ OthersStay(k)
      /\ UNCHANGED <<dbVars, callVars, copy, moved, written, todo>>
  BY <1>1, <1>2 DEF ResolveItem, OthersStay, TypeInv, TypeOK, WorkerTypeOK
<1>4. MayReverse(WorkerView(k), txs[t].cmd, v.ref)
  BY <1>1, <1>2, ViewType, VerdictGrounds DEF Grounds
<1>5. WorkerView(k)' = WorkerView(k)
  BY <1>3 DEF WorkerView, dbVars
<1> HIDE DEF v
<1>6. Queued(k)' /\ ItemsDecided(k)' /\ MovesRecorded(k)' /\ CopiesCounted(k)'
  <2>1. Queued(k)'
    BY <1>1, <1>3 DEF WorkerInv, Queued, dbVars
  <2> QED
    BY <1>1, <1>3, <2>1, WritesKept
<1>7. StillResolved(k)'
  BY <1>3, <1>4, <1>5 DEF StillResolved, dbVars
<1>8. \A j \in Workers \ {k} : InBatch(k)' \cap InBatch(j) = {}
  BY <1>3 DEF InBatch, Stored, BatchesApart, BatchInv, DecisionInv
<1> QED
  BY <1>3, <1>6, <1>7, <1>8, OwnBatch DEF WorkerInv

\* What the worker sees once row t of its batch is decided.
LEMMA DecidedView ==
  ASSUME BatchInv, TypeInv', NEW k \in Workers, todo[k] # <<>>, NEW row \in Rows,
         row.cmd = txs[Head(todo[k])].cmd, Decided(k, Head(todo[k]), row),
         UNCHANGED txs
  PROVE  LET t == Head(todo[k]) IN
         /\ written'[k] = [written[k] EXCEPT ![t] = row] /\ todo'[k] = Tail(todo[k])
         /\ WorkerView(k) \in Tables /\ WorkerView(k)' \in Tables
         /\ \A x \in TxIds : WorkerView(k)'[x] = IF x = t THEN row ELSE WorkerView(k)[x]
         /\ Extends(WorkerView(k), WorkerView(k)')
<1> DEFINE t == Head(todo[k])
<1>1. TypeInv /\ WorkerView(k) \in Tables /\ WorkerView(k)' \in Tables
  BY ViewType, ViewTypeNext DEF BatchInv, LedgerInv
<1>2. /\ t \in TxIds /\ WorkerView(k)[t] = txs[t] /\ row # None
      /\ txs[t].status = "PENDING_REFERENCE"
  BY QueuedWaits, RowAssumption
<1> HIDE DEF t
<1>3. written'[k] = [written[k] EXCEPT ![t] = row] /\ todo'[k] = Tail(todo[k])
  BY <1>1 DEF Decided, TypeInv, TypeOK, WorkerTypeOK, t
<1>4. \A x \in TxIds : written'[k][x] = IF x = t THEN row ELSE written[k][x]
  BY <1>1, <1>3 DEF TypeInv, TypeOK, WorkerTypeOK
<1>5. \A x \in TxIds : WorkerView(k)'[x] = IF x = t THEN row ELSE WorkerView(k)[x]
  BY <1>2, <1>4 DEF WorkerView
<1>6. row.cmd = WorkerView(k)[t].cmd /\ ~IsTerminal(WorkerView(k)[t])
  BY <1>2 DEF IsTerminal, TerminalStatuses, t
<1> HIDE DEF WorkerView
<1>7. Extends(WorkerView(k), WorkerView(k)')
  BY <1>2, <1>5, <1>6 DEF Extends
<1> QED
  BY <1>1, <1>3, <1>5, <1>7 DEF t

\* Row by row: what was decided before stays right, and the new row is too.
LEMMA ItemDecides ==
  ASSUME BatchInv, TypeInv', NEW k \in Workers, todo[k] # <<>>, NEW row \in Rows,
         NEW t \in TxIds, t = Head(todo[k]),
         row.cmd = txs[t].cmd, Decided(k, t, row),
         UNCHANGED dbVars,
         ~ViolatesReferenceOnce(WorkerView(k), t, row),
         \A w \in Wallets :
           /\ copy[k][w] # None => copy'[k][w] # None
           /\ Len(moved[k][w]) \in Nat /\ Len(moved'[k][w]) \in Nat
           /\ Len(moved[k][w]) <= Len(moved'[k][w])
           /\ \A i \in 1 .. Len(moved[k][w]) : moved'[k][w][i] = moved[k][w][i],
         ItemWaits(k, t)' \/ ItemProcessed(k, t)' \/ ItemRejected(k, t)'
  PROVE  Queued(k)' /\ ItemsDecided(k)'
<1> DEFINE old == WorkerView(k)
           new == WorkerView(k)'
<1>1. TypeInv /\ WorkerInv(k) /\ UNCHANGED txs /\ UNCHANGED due /\ UNCHANGED wallets
  BY DEF BatchInv, LedgerInv, DecisionInv, dbVars
<1>2. /\ t \in due /\ t \in TxIds /\ written[k][t] = None /\ old[t] = txs[t]
      /\ txs[t].status = "PENDING_REFERENCE"
  BY QueuedWaits
<1>3. /\ written'[k] = [written[k] EXCEPT ![t] = row] /\ todo'[k] = Tail(todo[k])
      /\ old \in Tables /\ new \in Tables /\ Extends(old, new)
      /\ \A x \in TxIds : new[x] = IF x = t THEN row ELSE old[x]
  BY <1>1, DecidedView
<1>4. todo[k] \in Seq(TxIds) /\ t = todo[k][1]
  BY <1>1 DEF TypeInv, TypeOK, WorkerTypeOK
<1>5. \A x \in TxIds : written'[k][x] = IF x = t THEN row ELSE written[k][x]
  BY <1>1, <1>3 DEF TypeInv, TypeOK, WorkerTypeOK
<1>6. Queued(k)'
  <2>1. /\ Len(todo'[k]) = Len(todo[k]) - 1 /\ Len(todo[k]) \in Nat
        /\ \A i \in 1 .. Len(todo'[k]) :
             i + 1 \in 2 .. Len(todo[k]) /\ todo'[k][i] = todo[k][i + 1]
    BY <1>3, <1>4
  <2>2. ASSUME NEW i \in 1 .. Len(todo'[k])
        PROVE  todo'[k][i] \in due /\ written'[k][todo'[k][i]] = None
    <3>1. i + 1 \in 1 .. Len(todo[k]) /\ i + 1 # 1 /\ 1 \in 1 .. Len(todo[k])
      BY <2>1
    <3>2. todo[k][i + 1] # t /\ todo[k][i + 1] \in due /\ todo[k][i + 1] \in TxIds
          /\ written[k][todo[k][i + 1]] = None
      BY <1>1, <1>4, <3>1 DEF WorkerInv, Queued, TypeInv, TypeOK, DbTypeOK
    <3> QED
      BY <1>5, <2>1, <3>2
  <2>3. ASSUME NEW i \in 1 .. Len(todo'[k]), NEW j \in 1 .. Len(todo'[k]),
               todo'[k][i] = todo'[k][j]
        PROVE  i = j
    <3>1. /\ i + 1 \in 1 .. Len(todo[k]) /\ j + 1 \in 1 .. Len(todo[k])
          /\ todo[k][i + 1] = todo[k][j + 1]
      BY <2>1, <2>3
    <3>2. i + 1 = j + 1
      BY <1>1, <3>1 DEF WorkerInv, Queued
    <3> QED
      BY <3>2
  <2>4. \A x \in TxIds : written'[k][x] # None => x \in due
    BY <1>1, <1>2, <1>5 DEF WorkerInv, Queued
  <2> QED
    BY <1>1, <2>2, <2>3, <2>4 DEF Queued
<1>7. ItemsDecided(k)'
  <2> SUFFICES ASSUME NEW x \in TxIds, written'[k][x] # None, x # t
               PROVE  ItemWaits(k, x)' \/ ItemProcessed(k, x)' \/ ItemRejected(k, x)'
    BY DEF ItemsDecided
  <2>1. written'[k][x] = written[k][x] /\ written[k][x] # None
    BY <1>5
  <2>2. /\ written[k][x].cmd.wallet \in Wallets /\ old[x] = written[k][x]
        /\ written[k][x].cmd.kind \in Reversals
    <3>1. /\ written[k][x] \in Rows /\ written[k][x].cmd = txs[x].cmd
          /\ txs[x].cmd.kind \in Reversals
      BY <2>1, UpdatedWaits
    <3>2. written[k][x].cmd.wallet \in Wallets
      BY <3>1, CommandFields DEF Rows
    <3> QED
      BY <2>1, <3>1, <3>2 DEF WorkerView
  <2> HIDE DEF old, new
  <2>3. CASE ItemWaits(k, x)
    BY <1>1, <2>1, <2>3 DEF ItemWaits
  <2>4. CASE ItemProcessed(k, x)
    <3> DEFINE r == written[k][x].refTx
               kind == written[k][x].cmd.kind
    <3>1. MayReverse(old, written[k][x].cmd, r) /\ ProcessedReversals(old, r, kind) = {x}
          /\ written[k][x].status = "PROCESSED"
      BY <2>4 DEF ItemProcessed, old
    <3>2. MayReverse(new, written[k][x].cmd, r)
      BY <1>3, <3>1, MayReverseKept
    <3>3. ~(row.refTx = r /\ row.cmd.kind = kind /\ row.status = "PROCESSED")
      BY <2>2, <3>1 DEF ViolatesReferenceOnce, old
    <3>4. ProcessedReversals(new, r, kind) = {x}
      <4>1. \A y \in TxIds : y # t => new[y] = old[y]
        BY <1>3
      <4>2. x \in ProcessedReversals(new, r, kind)
        BY <1>3, <3>1, <4>1 DEF ProcessedReversals, Stored, Tables
      <4>3. \A y \in ProcessedReversals(new, r, kind) : y # t
        BY <1>2, <1>3, <3>3 DEF ProcessedReversals, Stored, Tables
      <4>4. ProcessedReversals(new, r, kind) \subseteq ProcessedReversals(old, r, kind)
        BY <1>3, <4>1, <4>3 DEF ProcessedReversals, Stored, Tables
      <4> QED
        BY <3>1, <4>2, <4>4
    <3> QED
      BY <1>1, <2>1, <2>2, <2>4, <3>2, <3>4 DEF ItemProcessed, new
  <2>5. CASE ItemRejected(k, x)
    <3> DEFINE m == written[k][x].cmd
               code == written[k][x].failure
    <3>1. Refused(old, m, code) => Refused(new, m, code)
      BY <1>3, RefusedKept
    <3>2. WalletRefuses(k, m, code) => WalletRefuses(k, m, code)'
      <4>1. ASSUME NEW i \in 1 .. Len(moved[k][m.wallet])
            PROVE  i \in 1 .. Len(moved'[k][m.wallet])
                   /\ moved'[k][m.wallet][i] = moved[k][m.wallet][i]
        BY <2>2
      <4> QED
        BY <1>1, <2>1, <2>2, <4>1 DEF WalletRefuses
    <3> QED
      BY <1>1, <2>1, <2>5, <3>1, <3>2 DEF ItemRejected, old, new
  <2> QED
    BY <1>1, <2>1, <2>3, <2>4, <2>5 DEF WorkerInv, ItemsDecided
<1> QED
  BY <1>6, <1>7

\* The private entries follow the rows that move money.
LEMMA ItemRecorded ==
  ASSUME BatchInv, TypeInv', NEW k \in Workers, todo[k] # <<>>, NEW row \in Rows,
         NEW t \in TxIds, t = Head(todo[k]), row.cmd = txs[t].cmd, Decided(k, t, row),
         UNCHANGED txs, NEW w \in Wallets, w = row.cmd.wallet, NEW s \in Seq(Entries),
         \A v \in Wallets :
           moved'[k][v] = IF v = w THEN moved[k][w] \o s ELSE moved[k][v],
         \/ ~Moves(row) /\ s = <<>>
         \/ Len(s) = 1 /\ s[1].tx = t /\ Matches(s[1], row, WorkerView(k)')
  PROVE  MovesRecorded(k)'
<1> DEFINE new == WorkerView(k)'
           n == Len(moved[k][w])
<1>1. TypeInv /\ MovesRecorded(k)
  BY DEF BatchInv, LedgerInv, DecisionInv, WorkerInv
<1>2. written[k][t] = None
  BY QueuedWaits
<1>3. /\ new \in Tables /\ Extends(WorkerView(k), new)
      /\ written'[k] = [written[k] EXCEPT ![t] = row]
  BY DecidedView
<1>4. \A x \in TxIds : written'[k][x] = IF x = t THEN row ELSE written[k][x]
  BY <1>1, <1>3 DEF TypeInv, TypeOK, WorkerTypeOK
<1>5. \A v \in Wallets : moved[k][v] \in Seq(Entries)
  BY <1>1 DEF TypeInv, TypeOK, WorkerTypeOK
<1>6. /\ n \in Nat /\ Len(s) \in 0 .. 1 /\ Len(moved'[k][w]) = n + Len(s)
      /\ \A i \in 1 .. n : i \in 1 .. Len(moved'[k][w]) /\ moved'[k][w][i] = moved[k][w][i]
      /\ Len(s) = 1 => moved'[k][w][n + 1] = s[1]
  <2> DEFINE u == moved[k][w]
             z == moved'[k][w]
  <2>1. u \in Seq(Entries) /\ z = u \o s
    BY <1>5
  <2> HIDE DEF u, z
  <2>2. Len(s) \in 0 .. 1
    OBVIOUS
  <2>3. Len(u) \in Nat /\ Len(z) = Len(u) + Len(s)
    BY <2>1, <2>2
  <2>4. \A i \in 1 .. Len(u) : i \in 1 .. Len(z) /\ z[i] = u[i]
    BY <2>1, <2>2, <2>3
  <2>5. Len(s) = 1 => z[Len(u) + 1] = s[1]
    BY <2>1, <2>2, <2>3
  <2> QED
    BY <2>2, <2>3, <2>4, <2>5 DEF u, z
<1> HIDE DEF n
<1>13. n \in Nat /\ Len(s) \in 0 .. 1 /\ Len(moved'[k][w]) = n + Len(s)
  BY <1>6
<1>14. \A i \in 1 .. n + Len(s) : i \in 1 .. n \/ (i = n + 1 /\ Len(s) = 1)
  <2> DEFINE l == Len(s)
  <2>1. n \in Nat /\ l \in 0 .. 1
    BY <1>13
  <2> HIDE DEF l
  <2>2. \A i \in 1 .. n + l : i \in 1 .. n \/ (i = n + 1 /\ l = 1)
    BY <2>1
  <2> QED
    BY <2>2 DEF l
<1>15. Len(s) = 1 => n + 1 \in 1 .. Len(moved'[k][w])
  BY <1>13
<1>16. Len(s) = 1 => s[1].tx = t /\ Matches(s[1], row, WorkerView(k)')
  <2>1. s = <<>> => Len(s) # 1
    OBVIOUS
  <2> QED
    BY <2>1
<1>12. \A v \in Wallets : v # w => moved'[k][v] = moved[k][v]
  OBVIOUS
<1>7. \A v \in Wallets : \A i \in 1 .. Len(moved[k][v]) :
        i \in 1 .. Len(moved'[k][v]) /\ moved'[k][v][i] = moved[k][v][i]
  BY <1>6, <1>12 DEF n
<1>8. ASSUME NEW v \in Wallets, NEW i \in 1 .. Len(moved'[k][v])
      PROVE  \/ i \in 1 .. Len(moved[k][v])
             \/ v = w /\ i = n + 1 /\ Len(s) = 1
  <2>1. CASE v # w
    BY <1>12, <2>1
  <2>2. CASE v = w
    <3>1. i \in 1 .. n + Len(s)
      BY <1>13, <2>2
    <3>2. i \in 1 .. n \/ (i = n + 1 /\ Len(s) = 1)
      BY <1>14, <3>1
    <3> QED
      BY <2>2, <3>2 DEF n
  <2> QED
    BY <2>1, <2>2
<1>9. ASSUME NEW v \in Wallets, NEW i \in 1 .. Len(moved[k][v])
      PROVE  LET x == moved[k][v][i].tx IN
             /\ x \in TxIds /\ x # t /\ written[k][x] # None
             /\ written[k][x].cmd.wallet = v
             /\ Matches(moved[k][v][i], written[k][x], WorkerView(k))
             /\ \A j \in 1 .. Len(moved[k][v]) : moved[k][v][j].tx = x => i = j
  BY <1>1, <1>2, MovedType DEF MovesRecorded
<1> HIDE DEF new
<1>10. ASSUME NEW x \in TxIds, written'[k][x] # None, Moves(written'[k][x])
       PROVE  \E i \in 1 .. Len(moved'[k][written'[k][x].cmd.wallet]) :
                moved'[k][written'[k][x].cmd.wallet][i].tx = x
  <2>1. CASE x = t
    <3>1. written'[k][x] = row /\ Len(s) = 1 /\ s[1].tx = t
      BY <1>4, <1>10, <2>1
    <3>2. n + 1 \in 1 .. Len(moved'[k][w]) /\ moved'[k][w][n + 1].tx = t
      BY <1>6, <1>15, <3>1
    <3> QED
      BY <2>1, <3>1, <3>2
  <2>2. CASE x # t
    <3>1. written'[k][x] = written[k][x]
      BY <1>4, <2>2
    <3>2. PICK i \in 1 .. Len(moved[k][written[k][x].cmd.wallet]) :
                 moved[k][written[k][x].cmd.wallet][i].tx = x
      BY <1>1, <1>10, <3>1 DEF MovesRecorded
    <3>3. written[k][x].cmd.wallet \in Wallets
      BY <1>10, <3>1, UpdatedWaits, CommandFields DEF Rows
    <3> DEFINE v == written[k][x].cmd.wallet
    <3>4. i \in 1 .. Len(moved'[k][v]) /\ moved'[k][v][i] = moved[k][v][i]
      BY <1>7, <3>2, <3>3
    <3> QED
      BY <3>1, <3>2, <3>4
  <2> QED
    BY <2>1, <2>2
<1>11. ASSUME NEW v \in Wallets, NEW i \in 1 .. Len(moved'[k][v])
       PROVE  LET e == moved'[k][v][i] IN
              /\ written'[k][e.tx] # None /\ written'[k][e.tx].cmd.wallet = v
              /\ Matches(e, written'[k][e.tx], new)
              /\ \A j \in 1 .. Len(moved'[k][v]) : moved'[k][v][j].tx = e.tx => i = j
  <2> DEFINE e == moved'[k][v][i]
  <2>1. CASE i \in 1 .. Len(moved[k][v])
    <3> DEFINE x == moved[k][v][i].tx
    <3>1. e = moved[k][v][i] /\ x \in TxIds /\ x # t /\ written'[k][x] = written[k][x]
      BY <1>4, <1>7, <1>9, <2>1
    <3>2. Matches(e, written'[k][x], new)
      BY <1>3, <1>9, <2>1, <3>1, MatchesKept
    <3>3. ASSUME NEW j \in 1 .. Len(moved'[k][v]), moved'[k][v][j].tx = x PROVE i = j
      <4>1. CASE j \in 1 .. Len(moved[k][v])
        BY <1>7, <1>9, <2>1, <3>3, <4>1
      <4>2. CASE v = w /\ j = n + 1 /\ Len(s) = 1
        <5>1. s[1].tx = t /\ moved'[k][w][n + 1] = s[1]
          BY <1>6, <1>16, <4>2
        <5> QED
          BY <3>1, <3>3, <4>2, <5>1
      <4> QED
        BY <1>8, <4>1, <4>2
    <3>4. written[k][x] # None /\ written[k][x].cmd.wallet = v
      BY <1>9, <2>1
    <3> QED
      BY <3>1, <3>2, <3>3, <3>4
  <2>2. CASE v = w /\ i = n + 1 /\ Len(s) = 1
    <3>1. /\ e = s[1] /\ e.tx = t /\ written'[k][t] = row /\ row # None
          /\ Matches(e, row, new)
      <4>1. e = s[1] /\ s[1].tx = t /\ Matches(s[1], row, WorkerView(k)')
        BY <1>6, <1>16, <2>2
      <4> QED
        BY <1>4, <4>1, RowAssumption DEF new
    <3>2. ASSUME NEW j \in 1 .. Len(moved'[k][v]), moved'[k][v][j].tx = t PROVE i = j
      <4>1. j \notin 1 .. Len(moved[k][v])
        BY <1>7, <1>9, <3>2
      <4> QED
        BY <1>8, <2>2, <4>1
    <3> QED
      BY <2>2, <3>1, <3>2
  <2> QED
    BY <1>8, <2>1, <2>2
<1> QED
  BY <1>10, <1>11 DEF MovesRecorded, new, Matches, Moves

\* Deciding a row does not add to the batch.
LEMMA DecidedApart ==
  ASSUME BatchInv, TypeInv', NEW k \in Workers, todo[k] # <<>>, NEW row \in Rows,
         row.cmd = txs[Head(todo[k])].cmd, Decided(k, Head(todo[k]), row),
         UNCHANGED txs
  PROVE  \A j \in Workers \ {k} : InBatch(k)' \cap InBatch(j) = {}
<1> DEFINE t == Head(todo[k])
<1>1. /\ written'[k] = [written[k] EXCEPT ![t] = row] /\ todo'[k] = Tail(todo[k])
      /\ t \in InBatch(k) /\ t \in TxIds
  BY DecidedView, QueuedWaits
<1> HIDE DEF t
<1>2. todo[k] \in Seq(TxIds) /\ written[k] \in [TxIds -> Rows \cup {None}]
  BY DEF BatchInv, LedgerInv, TypeInv, TypeOK, WorkerTypeOK
<1>3. Stored(written'[k]) \subseteq Stored(written[k]) \cup {t}
  BY <1>1, <1>2 DEF Stored
<1>4. \A i \in 1 .. Len(todo'[k]) :
        i + 1 \in 1 .. Len(todo[k]) /\ todo'[k][i] = todo[k][i + 1]
  BY <1>1, <1>2
<1>5. InBatch(k)' \subseteq InBatch(k)
  BY <1>1, <1>3, <1>4 DEF InBatch
<1> QED
  BY <1>5 DEF BatchInv, DecisionInv, BatchesApart

\* A reference that does not resolve leaves the row waiting, or refuses it for
\* a reason that the batch itself shows.
LEMMA UnresolvedDecides ==
  ASSUME BatchInv, TypeInv', NEW k \in Workers, ResolveItem(k), wpc'[k] # "lock"
  PROVE  DecisionInv'
<1> SUFFICES ASSUME NEW t \in TxIds, t = Head(todo[k]) PROVE DecisionInv'
  <2>1. Head(todo[k]) \in TxIds
    BY HeadType DEF ResolveItem, BatchInv, LedgerInv
  <2> QED
    BY <2>1
<1> DEFINE v == ResolveReference(WorkerView(k), txs[t].cmd)
           row == Unresolved(txs[t], v)
<1>1. TypeInv /\ WorkerInv(k) /\ todo[k] # <<>>
  BY DEF BatchInv, LedgerInv, DecisionInv, ResolveItem
<1>2. v.outcome # "resolved"
  BY <1>1 DEF ResolveItem, TypeInv, TypeOK, WorkerTypeOK
<1>3. Decided(k, t, row) /\ wpc'[k] = "batch"
      /\ UNCHANGED <<dbVars, callVars, lock, copy, moved, wpc, wref>>
  BY <1>2 DEF ResolveItem
<1>4. /\ txs[t] \in Rows /\ txs[t].status = "PENDING_REFERENCE" /\ txs[t].failure = None
      /\ txs[t].cmd.wallet \in Wallets
  BY <1>1, QueuedWaits
<1>5. v \in Verdicts /\ Grounds(WorkerView(k), txs[t].cmd, v)
  BY <1>1, ViewType, VerdictGrounds, VerdictType DEF Tables
<1>6. row \in Rows /\ row.cmd = txs[t].cmd
  BY <1>4, <1>5, UnresolvedType
<1>7. /\ WorkerView(k) \in Tables /\ WorkerView(k)' \in Tables
      /\ Extends(WorkerView(k), WorkerView(k)') /\ written'[k] = [written[k] EXCEPT ![t] = row]
  BY <1>1, <1>3, <1>6, DecidedView DEF dbVars
<1>8. written'[k][t] = row /\ UNCHANGED txs
  BY <1>1, <1>3, <1>7 DEF TypeInv, TypeOK, WorkerTypeOK, dbVars
<1>9. txs[t].attempts \in 0 .. MaxAttempts /\ MaxAttempts \in Nat
  BY <1>4, BoundsAssumption DEF Rows
<1> HIDE DEF v
<1>10. (ItemWaits(k, t)' \/ ItemRejected(k, t)') /\ row.status # "PROCESSED"
  <2>1. CASE v.outcome = "rejected"
    <3>1. row = MarkRejected(txs[t], v.code)
      BY <2>1 DEF Unresolved
    <3>2. row.status = "REJECTED" /\ row.attempts = txs[t].attempts /\ row.failure = v.code
      BY <1>4, <3>1 DEF MarkRejected, Rows
    <3>3. Refused(WorkerView(k)', row.cmd, row.failure)
      BY <1>5, <1>6, <1>7, <2>1, <3>2, RefusedKept DEF Grounds
    <3> HIDE DEF row
    <3> QED
      BY <1>8, <3>2, <3>3 DEF ItemRejected, Moves
  <2>2. CASE v.outcome # "rejected" /\ txs[t].attempts >= MaxAttempts
    <3>1. row = MarkRejected(txs[t], "REFERENCE_RESOLUTION_TIMEOUT")
      BY <2>2 DEF Unresolved
    <3>2. /\ row.status = "REJECTED" /\ row.attempts = txs[t].attempts
          /\ row.failure = "REFERENCE_RESOLUTION_TIMEOUT" /\ row.attempts = MaxAttempts
      BY <1>4, <1>9, <2>2, <3>1 DEF MarkRejected, Rows
    <3> HIDE DEF row
    <3> QED
      BY <1>8, <3>2 DEF ItemRejected, Moves
  <2>3. CASE v.outcome # "rejected" /\ ~(txs[t].attempts >= MaxAttempts)
    <3>1. row = MarkPendingReference(txs[t])
      BY <2>3 DEF Unresolved
    <3>2. /\ row.status = "PENDING_REFERENCE" /\ row.attempts = txs[t].attempts + 1
          /\ row.failure = None
      BY <1>4, <1>9, <3>1 DEF MarkPendingReference, Rows
    <3> HIDE DEF row
    <3> QED
      BY <1>8, <3>2 DEF ItemWaits, Moves
  <2> QED
    BY <2>1, <2>2, <2>3
<1> HIDE DEF row
<1>11. Queued(k)' /\ ItemsDecided(k)'
  <2>1. \A w \in Wallets : Len(moved[k][w]) \in Nat
    BY <1>1 DEF TypeInv, TypeOK, WorkerTypeOK
  <2>2. ~ViolatesReferenceOnce(WorkerView(k), t, row)
    BY <1>10 DEF ViolatesReferenceOnce
  <2> QED
    BY <1>1, <1>3, <1>6, <1>10, <2>1, <2>2, ItemDecides
<1>12. MovesRecorded(k)'
  <2>1. \A w \in Wallets : moved[k][w] \in Seq(Entries) /\ moved'[k][w] = moved[k][w] \o <<>>
    BY <1>1, <1>3 DEF TypeInv, TypeOK, WorkerTypeOK
  <2>2. ~Moves(row) /\ <<>> \in Seq(Entries)
    BY <1>10 DEF Moves
  <2>3. txs[t].cmd.wallet \in Wallets /\ \A w \in Wallets : moved'[k][w] = moved[k][w]
    BY <1>3, <1>4
  <2> DEFINE w == txs[t].cmd.wallet
             s == <<>>
  <2>4. \A y \in Wallets : moved'[k][y] = IF y = w THEN moved[k][w] \o s ELSE moved[k][y]
    BY <2>1, <2>3
  <2>5. w \in Wallets /\ w = row.cmd.wallet /\ s \in Seq(Entries) /\ s = <<>>
    BY <1>6, <2>2, <2>3
  <2> HIDE DEF w, s
  <2> QED
    BY <1>1, <1>3, <1>6, <1>8, <2>2, <2>4, <2>5, ItemRecorded
<1>13. CopiesCounted(k)' /\ StillResolved(k)'
  BY <1>1, <1>3 DEF WorkerInv, CopiesCounted, StillResolved, dbVars
<1>14. OthersStay(k)
  BY <1>1, <1>3 DEF OthersStay, Decided, TypeInv, TypeOK, WorkerTypeOK
<1>15. \A j \in Workers \ {k} : InBatch(k)' \cap InBatch(j) = {}
  BY <1>1, <1>3, <1>6, <1>8, DecidedApart
<1> QED
  BY <1>3, <1>11, <1>12, <1>13, <1>14, <1>15, OwnBatch DEF WorkerInv

\* The wallet a worker applies an effect to: its own copy, if it has one.
ItemWallet(k) ==
  LET w == txs[Head(todo[k])].cmd.wallet
  IN IF copy[k][w] # None THEN copy[k][w] ELSE wallets[w]

LEMMA ItemWalletKnown ==
  ASSUME BatchInv, NEW k \in Workers, todo[k] # <<>>, NEW w \in Wallets,
         w = txs[Head(todo[k])].cmd.wallet
  PROVE  /\ ItemWallet(k) \in WalletRows /\ wallets[w] \in WalletRows
         /\ ItemWallet(k) = [wallets[w] EXCEPT !.balance = ItemWallet(k).balance,
                                               !.version = @ + Len(moved[k][w])]
         /\ \/ ItemWallet(k).balance = wallets[w].balance
            \/ \E i \in 1 .. Len(moved[k][w]) :
                 moved[k][w][i].after = ItemWallet(k).balance
<1>1. TypeInv /\ WorkerInv(k) /\ CopiesLocked
  BY DEF BatchInv, LedgerInv, LockInv, DecisionInv
<1>2. wallets[w] \in WalletRows
  BY <1>1, QueuedWaits DEF TypeInv, BatchReady
<1>3. moved[k][w] \in Seq(Entries) /\ wallets[w].version \in Nat
  BY <1>1, <1>2 DEF TypeInv, TypeOK, WorkerTypeOK, WalletRows
<1>4. CASE copy[k][w] = None
  <2>1. ItemWallet(k) = wallets[w]
    BY <1>4 DEF ItemWallet
  <2>2. Len(moved[k][w]) = 0
    BY <1>1, <1>4 DEF CopiesLocked
  <2>3. wallets[w].version + Len(moved[k][w]) = wallets[w].version
    BY <1>3, <2>2
  <2>4. wallets[w] = [wallets[w] EXCEPT !.balance = wallets[w].balance,
                                        !.version = wallets[w].version]
    BY <1>2 DEF WalletRows
  <2> QED
    BY <1>2, <2>1, <2>3, <2>4
<1>5. CASE copy[k][w] # None
  <2>1. ItemWallet(k) = copy[k][w]
    BY <1>5 DEF ItemWallet
  <2>2. Chained(moved[k][w], wallets[w].balance, copy[k][w].balance)
    BY <1>1, <1>5 DEF CopiesLocked
  <2>3. copy[k][w] \in WalletRows
    BY <1>1, <1>5 DEF TypeInv, TypeOK, WorkerTypeOK
  <2>4. copy[k][w] = [wallets[w] EXCEPT !.balance = copy[k][w].balance,
                                        !.version = @ + Len(moved[k][w])]
    BY <1>1, <1>5 DEF WorkerInv, CopiesCounted
  <2>5. \/ copy[k][w].balance = wallets[w].balance
        \/ \E i \in 1 .. Len(moved[k][w]) : moved[k][w][i].after = copy[k][w].balance
    <3> DEFINE s == moved[k][w]
               n == Len(s)
    <3>1. s \in Seq(Entries)
      BY <1>3
    <3>2. copy[k][w].balance = IF n = 0 THEN wallets[w].balance ELSE s[n].after
      BY <2>2 DEF Chained
    <3> HIDE DEF s
    <3>3. n \in Nat
      BY <3>1
    <3> HIDE DEF n
    <3>4. n # 0 => n \in 1 .. n
      BY <3>3
    <3> QED
      BY <3>2, <3>4 DEF n, s
  <2> QED
    BY <1>2, <2>1, <2>3, <2>4, <2>5
<1> QED
  BY <1>4, <1>5

LEMMA ItemOutcome ==
  ASSUME BatchInv, NEW k \in Workers, wpc[k] = "lock", ItemEffect(k).error = None,
         NEW t \in TxIds, t = Head(todo[k])
  PROVE  LET e == ItemEffect(k) IN
         /\ todo[k] # <<>> /\ e.row \in Rows /\ e.row.cmd = txs[t].cmd
         /\ e.wallet \in WalletRows /\ e.entries \in Seq(Entries)
         /\ \/ MovesOnce(e, t, txs[t], ItemWallet(k), wref[k],
                         RefKind(WorkerView(k), wref[k]))
            \/ Refuses(e, txs[t], ItemWallet(k))
<1> DEFINE e == ItemEffect(k)
           row == txs[t]
           ref == wref[k]
           refKind == RefKind(WorkerView(k), ref)
           wallet == ItemWallet(k)
<1>1. todo[k] # <<>> /\ TypeInv
  BY DEF BatchInv, LedgerInv, TypeInv, BatchReady
<1>2. row \in Rows /\ row.cmd.wallet \in Wallets /\ row.cmd.kind \in Reversals
  BY <1>1, QueuedWaits
<1>3. ref \in TxIds \cup {None} /\ wallet \in WalletRows
  BY <1>1, <1>2, ItemWalletKnown DEF TypeInv, TypeOK, WorkerTypeOK
<1>4. e = ApplyEffect(t, row, wallet, ref, refKind)
  BY DEF ItemEffect, ItemWallet
<1>5. /\ e.row \in Rows /\ e.row.cmd = row.cmd
      /\ e.wallet \in WalletRows /\ e.entries \in Seq(Entries) /\ e.error = None
  BY <1>1, ItemEffectType
<1> HIDE DEF e, row, ref, refKind, wallet
<1>6. ApplyEffect(t, row, wallet, ref, refKind).error = None
  BY <1>4, <1>5
<1>7. \/ Still(e, row, wallet, ref) \/ MovesOnce(e, t, row, wallet, ref, refKind)
      \/ Refuses(e, row, wallet)
  BY <1>2, <1>3, <1>4, <1>6, EffectCases
<1>8. ~Still(e, row, wallet, ref)
  BY <1>2 DEF Still, AffectsBalance, Reversals
<1> QED
  BY <1>1, <1>5, <1>7, <1>8 DEF e, row, ref, refKind, wallet

\* Under the wallet lock the row is processed once, or refused for what the
\* wallet holds at that moment.
LEMMA AppliedDecides ==
  ASSUME BatchInv, TypeInv', NEW k \in Workers, ApplyItem(k), ~EndBatch(k)
  PROVE  DecisionInv'
<1> SUFFICES ASSUME NEW t \in TxIds, t = Head(todo[k]) PROVE DecisionInv'
  <2>1. Head(todo[k]) \in TxIds
    BY HeadType DEF ApplyItem, BatchInv, LedgerInv, TypeInv, BatchReady
  <2> QED
    BY <2>1
<1> DEFINE e == ItemEffect(k)
           row == e.row
           w == txs[t].cmd.wallet
           wallet == ItemWallet(k)
           ref == wref[k]
           s == e.entries
           old == WorkerView(k)
           new == WorkerView(k)'
<1>1. TypeInv /\ WorkerInv(k) /\ todo[k] # <<>> /\ wpc[k] = "lock"
  BY DEF BatchInv, LedgerInv, DecisionInv, ApplyItem, TypeInv, BatchReady
<1>2. /\ e.error = None /\ ~ViolatesReferenceOnce(old, t, row) /\ Decided(k, t, row)
      /\ copy' = [copy EXCEPT ![k] = [copy[k] EXCEPT ![w] = e.wallet]]
      /\ moved' = [moved EXCEPT ![k] = [moved[k] EXCEPT ![w] = moved[k][w] \o s]]
      /\ wpc' = [wpc EXCEPT ![k] = "batch"] /\ wref' = [wref EXCEPT ![k] = None]
      /\ UNCHANGED dbVars /\ UNCHANGED callVars
  BY DEF ApplyItem
<1>3. /\ txs[t] \in Rows /\ txs[t].failure = None /\ txs[t].cmd.kind \in Reversals
      /\ w \in Wallets /\ old[t] = txs[t]
  BY <1>1, QueuedWaits
<1>4. /\ row \in Rows /\ row.cmd = txs[t].cmd /\ e.wallet \in WalletRows
      /\ s \in Seq(Entries)
      /\ \/ MovesOnce(e, t, txs[t], wallet, ref, RefKind(old, ref))
         \/ Refuses(e, txs[t], wallet)
  BY <1>1, <1>2, ItemOutcome
<1>5. /\ wallet \in WalletRows /\ wallets[w] \in WalletRows
      /\ wallet = [wallets[w] EXCEPT !.balance = wallet.balance,
                                     !.version = @ + Len(moved[k][w])]
      /\ \/ wallet.balance = wallets[w].balance
         \/ \E i \in 1 .. Len(moved[k][w]) : moved[k][w][i].after = wallet.balance
  BY <1>1, <1>3, ItemWalletKnown
<1> HIDE DEF e, wallet
<1>6. /\ old \in Tables /\ new \in Tables /\ Extends(old, new)
      /\ written'[k] = [written[k] EXCEPT ![t] = row]
      /\ \A x \in TxIds : new[x] = IF x = t THEN row ELSE old[x]
  BY <1>1, <1>2, <1>4, DecidedView DEF dbVars
<1>7. /\ written'[k][t] = row /\ UNCHANGED txs /\ UNCHANGED wallets
      /\ \A v \in Wallets :
           /\ copy'[k][v] = IF v = w THEN e.wallet ELSE copy[k][v]
           /\ moved'[k][v] = IF v = w THEN moved[k][w] \o s ELSE moved[k][v]
      /\ wpc'[k] = "batch" /\ OthersStay(k)
  <2>1. written'[k][t] = row /\ UNCHANGED txs /\ UNCHANGED wallets
    <3>1. written[k] \in [TxIds -> Rows \cup {None}]
      BY <1>1 DEF TypeInv, TypeOK, WorkerTypeOK
    <3>2. UNCHANGED txs /\ UNCHANGED wallets
      BY <1>2 DEF dbVars
    <3> HIDE DEF row
    <3> QED
      BY <1>6, <3>1, <3>2
  <2>2. OthersStay(k) /\ wpc'[k] = "batch"
    BY <1>1, <1>2 DEF Decided, OthersStay, TypeInv, TypeOK, WorkerTypeOK
  <2> HIDE DEF w, s
  <2>3. \A v \in Wallets : copy'[k][v] = IF v = w THEN e.wallet ELSE copy[k][v]
    BY <1>1, <1>2 DEF TypeInv, TypeOK, WorkerTypeOK
  <2>4. \A v \in Wallets : moved'[k][v] = IF v = w THEN moved[k][w] \o s ELSE moved[k][v]
    BY <1>1, <1>2 DEF TypeInv, TypeOK, WorkerTypeOK
  <2> QED
    BY <2>1, <2>2, <2>3, <2>4
<1>8. e.wallet # None /\ copy'[k][w] # None
  BY <1>3, <1>4, <1>7, RowAssumption
<1>9. MayReverse(old, txs[t].cmd, ref)
  BY <1>1 DEF WorkerInv, StillResolved
<1>10. ref \in TxIds /\ old[ref] # None /\ new[ref].cmd = old[ref].cmd
  BY <1>6, <1>9 DEF MayReverse, FindByExternal, Stored, Tables, Extends
<1> DEFINE Out ==
             /\ ItemProcessed(k, t)' \/ ItemRejected(k, t)'
             /\ \/ ~Moves(row) /\ s = <<>>
                \/ Len(s) = 1 /\ s[1].tx = t /\ Matches(s[1], row, new)
             /\ Len(s) \in Nat
             /\ e.wallet = [wallet EXCEPT !.balance = e.wallet.balance,
                                          !.version = @ + Len(s)]
<1>11. ASSUME MovesOnce(e, t, txs[t], wallet, ref, RefKind(old, ref)) PROVE Out
  <2>1. /\ row = MarkProcessed(txs[t], ref) /\ AffectsBalance(txs[t].cmd.kind)
        /\ Len(s) = 1 /\ s[1].tx = t /\ s[1].amount = txs[t].cmd.amount
        /\ s[1].dir = LedgerDirectionFor(txs[t].cmd.kind, RefKind(old, ref))
        /\ e.wallet = [wallet EXCEPT !.balance = e.wallet.balance, !.version = @ + 1]
    BY <1>11 DEF MovesOnce
  <2>2. /\ row.status = "PROCESSED" /\ row.refTx = ref /\ row.failure = None
        /\ row.attempts = txs[t].attempts
    BY <1>3, <2>1 DEF MarkProcessed, Rows
  <2> HIDE DEF row, s, old, new, w, ref
  <2>3. MayReverse(new, row.cmd, ref)
    BY <1>4, <1>6, <1>9, MayReverseKept
  <2>4. ProcessedReversals(new, ref, row.cmd.kind) = {t}
    <3>1. ProcessedReversals(old, ref, row.cmd.kind) \ {t} = {}
      BY <1>2, <1>3, <1>4, <2>2 DEF ViolatesReferenceOnce
    <3>2. ProcessedReversals(new, ref, row.cmd.kind)
            \subseteq ProcessedReversals(old, ref, row.cmd.kind) \cup {t}
      BY <1>6 DEF ProcessedReversals, Stored, Tables
    <3>3. t \in ProcessedReversals(new, ref, row.cmd.kind)
      BY <1>4, <1>6, <2>2, RowAssumption DEF ProcessedReversals, Stored, Tables
    <3> QED
      BY <3>1, <3>2, <3>3
  <2>5. ItemProcessed(k, t)'
    BY <1>4, <1>7, <1>8, <2>2, <2>3, <2>4 DEF ItemProcessed, new, w
  <2>6. Matches(s[1], row, new)
    BY <1>4, <1>10, <2>1, <2>2, NoneAssumption, IdsAssumption
    DEF Matches, Moves, RefKind
  <2> QED
    BY <1>4, <2>1, <2>5, <2>6
<1>12. ASSUME Refuses(e, txs[t], wallet) PROVE Out
  <2>1. /\ row = MarkRejected(txs[t], row.failure) /\ e.wallet = wallet /\ s = <<>>
        /\ WalletSays(txs[t].cmd, wallet, row.failure)
    BY <1>12 DEF Refuses
  <2>2. row.status = "REJECTED" /\ row.attempts = txs[t].attempts
    BY <1>3, <2>1 DEF MarkRejected, Rows
  <2>3. moved'[k][w] = moved[k][w] /\ Len(s) = 0
    <3>1. moved[k][w] \in Seq(Entries)
      BY <1>1, <1>3 DEF TypeInv, TypeOK, WorkerTypeOK
    <3>2. moved[k][w] \o <<>> = moved[k][w] /\ Len(<<>>) = 0
      BY <3>1
    <3> QED
      BY <1>3, <1>7, <2>1, <3>2
  <2>4. e.wallet = [wallet EXCEPT !.balance = e.wallet.balance, !.version = @ + Len(s)]
    <3>1. wallet \in WalletRows
      BY <1>5
    <3>2. wallet.version \in Nat
      BY <3>1 DEF WalletRows
    <3>3. wallet.version + 0 = wallet.version
      BY <3>2
    <3>4. wallet = [wallet EXCEPT !.balance = wallet.balance, !.version = wallet.version]
      BY <3>1 DEF WalletRows
    <3> QED
      BY <2>1, <2>3, <3>3, <3>4
  <2>5. wallet.currency = wallets[w].currency
    BY <1>5 DEF WalletRows
  <2>6. WalletRefuses(k, txs[t].cmd, written[k][t].failure)'
    <3> DEFINE m == txs[t].cmd
               code == row.failure
    <3>1. \/ code = "WALLET_CURRENCY_MISMATCH" /\ m.currency # wallets[w].currency
          \/ /\ code = IF m.kind = "ROLLBACK" THEN "ROLLBACK_INSUFFICIENT_BALANCE"
                                              ELSE "INSUFFICIENT_BALANCE"
             /\ wallet.balance < m.amount
      BY <2>1, <2>5 DEF WalletSays
    <3>2. wallet.balance < m.amount =>
            \/ wallets[w].balance < m.amount
            \/ \E i \in 1 .. Len(moved[k][w]) : moved[k][w][i].after < m.amount
      BY <1>5
    <3> HIDE DEF row
    <3> QED
      BY <1>7, <1>8, <2>3, <3>1, <3>2 DEF WalletRefuses
  <2>7. ItemRejected(k, t)' /\ ~Moves(row)
    <3> HIDE DEF row
    <3> QED
      BY <1>4, <1>7, <2>2, <2>6 DEF ItemRejected, Moves
  <2> QED
    BY <2>1, <2>3, <2>4, <2>7
<1>13. Out
  BY <1>4, <1>11, <1>12
<1> HIDE DEF row, s, old
<1>14. Queued(k)' /\ ItemsDecided(k)'
  <2>1. ASSUME NEW v \in Wallets
        PROVE  /\ copy[k][v] # None => copy'[k][v] # None
               /\ Len(moved[k][v]) \in Nat /\ Len(moved'[k][v]) \in Nat
               /\ Len(moved[k][v]) <= Len(moved'[k][v])
               /\ \A i \in 1 .. Len(moved[k][v]) : moved'[k][v][i] = moved[k][v][i]
    <3>1. moved[k][v] \in Seq(Entries)
      BY <1>1 DEF TypeInv, TypeOK, WorkerTypeOK
    <3> DEFINE u == moved[k][v]
               z == moved'[k][v]
    <3>2. z = u \o s \/ z = u
      BY <1>7
    <3>3. u \in Seq(Entries) /\ s \in Seq(Entries)
      BY <1>4, <3>1
    <3>4. copy[k][v] # None => copy'[k][v] # None
      BY <1>7, <1>8
    <3> HIDE DEF u, z
    <3>5. /\ Len(u) \in Nat /\ Len(z) \in Nat /\ Len(u) <= Len(z)
          /\ \A i \in 1 .. Len(u) : z[i] = u[i]
      <4>1. CASE z = u
        BY <3>3, <4>1
      <4>2. CASE z = u \o s
        BY <3>3, <4>2
      <4> QED
        BY <3>2, <4>1, <4>2
    <3> QED
      BY <3>4, <3>5 DEF u, z
  <2>2. ItemWaits(k, t)' \/ ItemProcessed(k, t)' \/ ItemRejected(k, t)'
    BY <1>13
  <2> HIDE DEF Out
  <2> QED
    BY <1>1, <1>2, <1>4, <2>1, <2>2, ItemDecides DEF old
<1>15. MovesRecorded(k)'
  <2>1. w = row.cmd.wallet
    BY <1>4
  <2>2. \/ ~Moves(row) /\ s = <<>>
        \/ Len(s) = 1 /\ s[1].tx = t /\ Matches(s[1], row, new)
    BY <1>13
  <2>3. \A v \in Wallets : moved'[k][v] = IF v = w THEN moved[k][w] \o s ELSE moved[k][v]
    BY <1>7
  <2> HIDE DEF w, Out
  <2> QED
    BY <1>1, <1>2, <1>3, <1>4, <1>7, <2>1, <2>2, <2>3, ItemRecorded DEF w
<1>16. CopiesCounted(k)'
  <2> SUFFICES ASSUME NEW v \in Wallets, copy'[k][v] # None
               PROVE  copy'[k][v] = [wallets[v] EXCEPT !.balance = copy'[k][v].balance,
                                                       !.version = @ + Len(moved'[k][v])]
    BY <1>7 DEF CopiesCounted
  <2>1. CASE v # w
    BY <1>1, <1>7, <2>1 DEF WorkerInv, CopiesCounted
  <2>2. CASE v = w
    <3>1. Len(moved'[k][w]) = Len(moved[k][w]) + Len(s) /\ Len(moved[k][w]) \in Nat
      <4>1. moved[k][w] \in Seq(Entries) /\ moved'[k][w] = moved[k][w] \o s
        BY <1>1, <1>3, <1>7 DEF TypeInv, TypeOK, WorkerTypeOK
      <4> DEFINE u == moved[k][w]
                 z == moved'[k][w]
      <4>2. u \in Seq(Entries) /\ s \in Seq(Entries) /\ z = u \o s
        BY <1>4, <4>1
      <4> HIDE DEF u, z
      <4>3. Len(z) = Len(u) + Len(s) /\ Len(u) \in Nat
        BY <4>2
      <4> QED
        BY <4>3 DEF u, z
    <3>2. /\ copy'[k][w] = e.wallet /\ Len(s) \in Nat
          /\ e.wallet = [wallet EXCEPT !.balance = e.wallet.balance, !.version = @ + Len(s)]
      BY <1>3, <1>7, <1>13
    <3> DEFINE n == Len(moved[k][w])
               l == Len(s)
    <3>3. wallets[w] \in WalletRows /\ wallet \in WalletRows
          /\ wallet = [wallets[w] EXCEPT !.balance = wallet.balance, !.version = @ + n]
      BY <1>5
    <3> HIDE DEF n, l, Out, w
    <3>4. e.wallet = [wallets[w] EXCEPT !.balance = e.wallet.balance,
                                        !.version = (@ + n) + l]
      BY <3>2, <3>3 DEF WalletRows, l
    <3>5. wallets[w].version \in Nat /\ n \in Nat /\ l \in Nat
      BY <3>1, <3>2, <3>3 DEF WalletRows, n, l
    <3>6. (wallets[w].version + n) + l = wallets[w].version + (n + l)
      BY <3>5
    <3>7. n + l = Len(moved'[k][w])
      BY <3>1 DEF n, l
    <3> QED
      BY <2>2, <3>2, <3>4, <3>6, <3>7
  <2> QED
    BY <2>1, <2>2
<1>17. StillResolved(k)'
  BY <1>7 DEF StillResolved
<1>18. \A j \in Workers \ {k} : InBatch(k)' \cap InBatch(j) = {}
  BY <1>1, <1>2, <1>4, <1>7, DecidedApart
<1> HIDE DEF Out
<1> QED
  BY <1>2, <1>7, <1>14, <1>15, <1>16, <1>17, <1>18, OwnBatch DEF WorkerInv

\* A commit makes the batch's view the table; it has held the locks of the
\* wallets it moves, and its rows are in no other batch.
LEMMA CommitExtends ==
  ASSUME BatchInv, NEW k \in Workers, CommitBatch(k)
  PROVE  /\ txs' = WorkerView(k) /\ Extends(txs, txs')
         /\ \A t \in TxIds : txs'[t] # txs[t] =>
              /\ t \in InBatch(k) /\ written[k][t] # None /\ txs'[t] = written[k][t]
              /\ txs[t].status = "PENDING_REFERENCE"
              /\ txs'[t].cmd.kind \in Reversals /\ txs'[t].cmd.wallet \in Wallets
              /\ ItemWaits(k, t) \/ ItemProcessed(k, t) \/ ItemRejected(k, t)
<1>1. txs' = WorkerView(k)
  BY DEF CommitBatch
<1>2. \A t \in TxIds : txs'[t] = IF written[k][t] # None THEN written[k][t] ELSE txs[t]
  BY <1>1 DEF WorkerView
<1>3. ASSUME NEW t \in TxIds, written[k][t] # None
      PROVE  /\ t \in InBatch(k) /\ txs'[t] = written[k][t] /\ txs'[t].cmd = txs[t].cmd
             /\ txs[t].status = "PENDING_REFERENCE"
             /\ txs'[t].cmd.kind \in Reversals /\ txs'[t].cmd.wallet \in Wallets
             /\ ItemWaits(k, t) \/ ItemProcessed(k, t) \/ ItemRejected(k, t)
  <2>1. /\ t \in InBatch(k) /\ written[k][t] \in Rows /\ written[k][t].cmd = txs[t].cmd
        /\ txs[t].status = "PENDING_REFERENCE" /\ txs[t].cmd.kind \in Reversals
    BY <1>3, UpdatedWaits
  <2>2. written[k][t].cmd.wallet \in Wallets
    BY <2>1, CommandFields DEF Rows
  <2> QED
    BY <1>2, <1>3, <2>1, <2>2 DEF BatchInv, DecisionInv, WorkerInv, ItemsDecided
<1>4. Extends(txs, txs')
  <2> SUFFICES ASSUME NEW t \in TxIds, txs[t] # None
               PROVE  /\ txs'[t] # None /\ txs'[t].cmd = txs[t].cmd
                      /\ IsTerminal(txs[t]) => txs'[t] = txs[t]
    BY DEF Extends
  <2>1. CASE written[k][t] = None
    BY <1>2, <2>1
  <2>2. CASE written[k][t] # None
    BY <1>2, <1>3, <2>2 DEF IsTerminal, TerminalStatuses
  <2> QED
    BY <2>1, <2>2
<1> QED
  BY <1>1, <1>2, <1>3, <1>4

LEMMA CommitBatchDecides ==
  ASSUME BatchInv, TypeInv', NEW k \in Workers, CommitBatch(k)
  PROVE  DecisionInv'
<1>1. TypeInv /\ CopiesLocked /\ WorkerInv(k)
  BY DEF BatchInv, LedgerInv, LockInv, DecisionInv
<1>2. /\ txs' = WorkerView(k) /\ Extends(txs, txs') /\ EndBatch(k) /\ UNCHANGED callVars
      /\ due' = due \ Stored(written[k])
      /\ \A w \in Wallets : copy[k][w] = None => wallets'[w] = wallets[w]
  BY CommitExtends DEF CommitBatch
<1>3. \A t \in TxIds : txs'[t] # txs[t] =>
        /\ t \in InBatch(k) /\ written[k][t] # None /\ txs'[t] = written[k][t]
        /\ txs[t].status = "PENDING_REFERENCE"
        /\ txs'[t].cmd.kind \in Reversals /\ txs'[t].cmd.wallet \in Wallets
        /\ ItemWaits(k, t) \/ ItemProcessed(k, t) \/ ItemRejected(k, t)
  BY CommitExtends
<1>4. WorkerInv(k)' /\ InBatch(k)' = {} /\ OthersStay(k)
  BY <1>1, <1>2, EmptyBatch
<1>5. CallVerdicts'
  BY <1>2, CallsStay
<1>6. RowsWait'
  BY <1>3 DEF RowsWait, BatchInv, DecisionInv, ItemWaits, ItemProcessed, ItemRejected
<1>7. DueWait'
  <2>1. \A t \in TxIds : written[k][t] # None => t \in Stored(written[k])
    BY <1>1 DEF Stored, TypeInv, TypeOK, WorkerTypeOK
  <2>2. \A t \in due' : t \in due /\ t \in TxIds /\ txs'[t] = txs[t]
    BY <1>1, <1>2, <1>3, <2>1 DEF TypeInv, TypeOK, DbTypeOK
  <2> QED
    BY <2>2 DEF DueWait, BatchInv, DecisionInv
<1>8. BatchesApart'
  <2>1. \A j \in Workers \ {k} : InBatch(j)' = InBatch(j)
    BY <1>4 DEF OthersStay, InBatch, Stored
  <2> QED
    BY <1>4, <2>1 DEF BatchesApart, BatchInv, DecisionInv
<1>9. ASSUME NEW j \in Workers, j # k PROVE Undisturbed(j)
  <2>1. InBatch(j) \cap InBatch(k) = {}
    BY <1>9 DEF BatchesApart, BatchInv, DecisionInv
  <2>2. ASSUME NEW t \in InBatch(j) PROVE txs'[t] = txs[t] /\ t \in due'
    <3>1. t \in due /\ t \in TxIds /\ t \notin InBatch(k)
      BY <2>1, BatchRowsWait
    <3>2. t \notin Stored(written[k])
      BY <3>1 DEF InBatch
    <3> QED
      BY <1>2, <1>3, <3>1, <3>2
  <2>3. ASSUME NEW w \in Wallets, copy[j][w] # None PROVE wallets'[w] = wallets[w]
    <3>1. lock[w] = j
      BY <1>1, <2>3 DEF CopiesLocked
    <3> QED
      BY <1>1, <1>2, <1>9, <3>1 DEF CopiesLocked
  <2>4. ASSUME NEW u \in TxIds, txs'[u] # txs[u], txs'[u].status = "PROCESSED"
        PROVE  /\ SameOwner(txs'[u].cmd, txs'[txs'[u].refTx].cmd)
               /\ copy[j][txs'[u].cmd.wallet] = None
    <3>1. /\ ItemProcessed(k, u) /\ txs'[u] = written[k][u]
          /\ txs'[u].cmd.wallet \in Wallets
      BY <1>3, <2>4 DEF ItemWaits, ItemRejected
    <3>2. /\ MayReverse(txs', txs'[u].cmd, txs'[u].refTx)
          /\ copy[k][txs'[u].cmd.wallet] # None
      BY <1>2, <3>1 DEF ItemProcessed
    <3>3. lock[txs'[u].cmd.wallet] = k
      BY <1>1, <3>1, <3>2 DEF CopiesLocked
    <3>4. copy[j][txs'[u].cmd.wallet] = None
      BY <1>1, <1>9, <3>1, <3>3 DEF CopiesLocked
    <3> QED
      BY <3>2, <3>4 DEF MayReverse
  <2> QED
    BY <1>2, <1>4, <1>9, <2>2, <2>3, <2>4 DEF OthersStay, Undisturbed
<1>10. \A j \in Workers : WorkerInv(j)'
  BY <1>4, <1>9, WorkerKept
<1> QED
  BY <1>5, <1>6, <1>7, <1>8, <1>10 DEF DecisionInv

-----------------------------------------------------------------------------
LEMMA InitBatch == Init => BatchInv
<1> SUFFICES ASSUME Init PROVE BatchInv
  OBVIOUS
<1>1. LedgerInv /\ ClaimInv
  BY InitLedger, InitClaim
<1>2. RowsWait /\ DueWait /\ CallVerdicts /\ BatchesApart
  BY DEF Init, RowsWait, DueWait, CallVerdicts, BatchesApart, InBatch, Stored, NoWrites
<1>3. ASSUME NEW k \in Workers PROVE WorkerInv(k)
  <2>1. /\ wpc[k] = "idle" /\ todo[k] = <<>> /\ written[k] = NoWrites
        /\ copy[k] = NoCopies /\ moved[k] = NoMoves
    BY DEF Init
  <2>2. Queued(k) /\ ItemsDecided(k) /\ StillResolved(k)
    BY <2>1 DEF Queued, ItemsDecided, StillResolved, NoWrites
  <2>3. MovesRecorded(k) /\ CopiesCounted(k)
    BY <2>1 DEF MovesRecorded, CopiesCounted, NoWrites, NoMoves, NoCopies
  <2> QED
    BY <2>2, <2>3 DEF WorkerInv
<1> QED
  BY <1>1, <1>2, <1>3 DEF BatchInv, DecisionInv

LEMMA BatchInvInductive == BatchInv /\ [Next]_vars => BatchInv'
<1> SUFFICES ASSUME BatchInv, [Next]_vars PROVE BatchInv'
  OBVIOUS
<1>1. LedgerInv' /\ ClaimInv' /\ TypeInv'
  BY LedgerInvInductive, ClaimInvInductive DEF BatchInv, LedgerInv
<1>2. DecisionInv'
  <2>1. CASE \E w \in Wallets, o \in AllOpenings : OpenWallet(w, o)
    BY <1>1, <2>1, OpenWalletDecides
  <2>2. CASE \E c \in Calls, m \in AllCommands : Begin(c, m)
    BY <1>1, <2>2, BeginDecides
  <2>3. ASSUME NEW c \in Calls, CallStep(c) \/ CrashCall(c) PROVE DecisionInv'
    <3>1. CASE Finish(c)
      BY <1>1, <3>1, FinishDecides
    <3>2. CASE ~Finish(c)
      <4>1. UNCHANGED dbVars
        BY <2>3, <3>2
        DEF CallStep, RefuseCommand, LockWallet, Claim, ClaimConflict, Resolve,
            LookupKey, LookupExternal, AbortCall, CrashCall
      <4> QED
        BY <1>1, <2>3, <4>1, CallStepDecides
    <3> QED
      BY <3>1, <3>2
  <2>4. ASSUME NEW k \in Workers, WorkerStep(k) \/ CrashWorker(k) PROVE DecisionInv'
    <3>1. CASE SelectBatch(k)
      BY <1>1, <3>1, SelectBatchDecides
    <3>2. CASE ResolveItem(k)
      BY <1>1, <3>2, ResolvedDecides, UnresolvedDecides
    <3>3. CASE ApplyItem(k)
      BY <1>1, <3>3, EndBatchDecides, AppliedDecides DEF ApplyItem
    <3>4. CASE CommitBatch(k)
      BY <1>1, <3>4, CommitBatchDecides
    <3>5. CASE AbortWorker(k) \/ CrashWorker(k)
      BY <1>1, <3>5, EndBatchDecides DEF AbortWorker, CrashWorker
    <3> QED
      BY <2>4, <3>1, <3>2, <3>3, <3>4, <3>5 DEF WorkerStep
  <2>5. CASE (\E t \in TxIds : BecomeDue(t)) \/ UNCHANGED vars
    BY <1>1, <2>5, BecomeDueDecides
  <2> QED
    BY <2>1, <2>2, <2>3, <2>4, <2>5 DEF Next
<1> QED
  BY <1>1, <1>2 DEF BatchInv
====
