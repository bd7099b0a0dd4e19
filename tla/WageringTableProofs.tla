---- MODULE WageringTableProofs ----
(***************************************************************************)
(* What the committed tables promise, for every set of calls, workers,     *)
(* wallets and commands.  Most of it holds of every book, and the core     *)
(* implements the book: each part is shown of one step of the book, and so *)
(* of every step of the core.                                              *)
(***************************************************************************)
EXTENDS WageringBookProofs

\* What a step of the book does to rows and ledgers, in the words of the core.
RowWaits(t) ==
  /\ txs'[t].status = "PENDING_REFERENCE" /\ txs'[t].attempts = Tried(t) + 1
  /\ txs'[t].failure = None

RowProcessed(t) ==
  LET m == txs'[t].cmd
      r == txs'[t].refTx
  IN /\ txs'[t].status = "PROCESSED" /\ txs'[t].attempts = Tried(t)
     /\ txs'[t].failure = None
     /\ m.kind \in Reversals =>
          /\ MayReverse(txs', m, r) /\ ProcessedReversals(txs', r, m.kind) = {t}

WalletCodes ==
  {"WALLET_CURRENCY_MISMATCH", "ROLLBACK_INSUFFICIENT_BALANCE", "INSUFFICIENT_BALANCE"}

RowRejected(t) ==
  LET code == txs'[t].failure
  IN /\ txs'[t].status = "REJECTED" /\ txs'[t].attempts = Tried(t)
     /\ \/ code = "REFERENCE_RESOLUTION_TIMEOUT" /\ Tried(t) = MaxAttempts
        \/ code \in WalletCodes
        \/ Refused(txs', txs'[t].cmd, code)

StepRow(t) ==
  /\ txs'[t] # None
  /\ txs[t] # None =>
       txs[t].status = "PENDING_REFERENCE" /\ txs'[t].cmd = txs[t].cmd
  /\ RowWaits(t) \/ RowProcessed(t) \/ RowRejected(t)

StepLedger(w) ==
  /\ Len(ledger[w]) <= Len(ledger'[w])
  /\ \A i \in Entry(w) : ledger'[w][i] = ledger[w][i]
  /\ \A t \in TxIds :
       (txs'[t] # txs[t] /\ Moves(txs'[t]) /\ txs'[t].cmd.wallet = w) =>
         \E i \in Len(ledger[w]) + 1 .. Len(ledger'[w]) :
           ledger'[w][i].tx = t /\ Matches(ledger'[w][i], txs'[t], txs')
  /\ \A i \in Len(ledger[w]) + 1 .. Len(ledger'[w]) :
       LET t == ledger'[w][i].tx IN
       /\ t \in TxIds /\ txs'[t] # txs[t] /\ txs'[t].cmd.wallet = w
       /\ Matches(ledger'[w][i], txs'[t], txs')
       /\ \A j \in Len(ledger[w]) + 1 .. Len(ledger'[w]) : ledger'[w][j].tx = t => i = j

StepTables ==
  /\ \A t \in TxIds : txs'[t] # txs[t] => StepRow(t)
  /\ \A w \in Wallets : StepLedger(w)

LEMMA DecidedRow ==
  ASSUME NEW t \in TxIds, Book!Decides(t)
  PROVE  StepRow(t)
<1> DEFINE m == txs'[t].cmd
           r == txs'[t].refTx
           code == txs'[t].failure
<1>1. Book!Attempts(t) = Tried(t) /\ (Book!IsNew(t) <=> txs[t] = None)
  BY DEF Book!Attempts, Book!IsNew, Tried
<1>2. /\ txs'[t] # None
      /\ txs[t] # None =>
           txs[t].status = "PENDING_REFERENCE" /\ txs'[t].cmd = txs[t].cmd
      /\ Book!Waits(t) \/ Book!Processes(t) \/ Book!Rejects(t)
  BY <1>1 DEF Book!Decides
<1>3. CASE Book!Waits(t)
  BY <1>1, <1>2, <1>3 DEF Book!Waits, RowWaits, StepRow
<1>4. CASE Book!Processes(t)
  <2>1. ASSUME m.kind \in Reversals
        PROVE  MayReverse(txs', m, r) /\ ProcessedReversals(txs', r, m.kind) = {t}
    <3>1. Book!Reverses(txs', t)
      BY <1>4, <2>1 DEF Book!Processes, Book!Reversals, Reversals
    <3>2. r \in FindByExternal(txs', m.ref)
      BY <3>1 DEF Book!Reverses, Book!FindByExternal, FindByExternal, Book!Stored, Stored
    <3>3. ProcessedReversals(txs', r, m.kind) = {t}
      BY <3>1 DEF Book!Reverses, Book!ProcessedReversals, ProcessedReversals,
                  Book!Stored, Stored
    <3>4. SameOwner(m, txs'[r].cmd)
      BY <3>1 DEF Book!Reverses, Book!SameOwner, SameOwner
    <3>5. txs'[r].cmd.kind \in ReversibleKinds(m.kind)
      BY <3>1 DEF Book!Reverses, Book!ReversibleKinds, ReversibleKinds
    <3> QED
      BY <3>1, <3>2, <3>3, <3>4, <3>5 DEF Book!Reverses, MayReverse
  <2>2. RowProcessed(t)
    BY <1>1, <1>4, <2>1 DEF Book!Processes, RowProcessed
  <2> QED
    BY <1>2, <2>2 DEF StepRow
<1>5. CASE Book!Rejects(t)
  <2>1. ASSUME NEW x \in Book!FindByExternal(txs', m.ref),
               Book!RefusedBy(txs', m, x, code)
        PROVE  Refused(txs', m, code)
    <3>1. x \in FindByExternal(txs', m.ref)
      BY DEF Book!FindByExternal, FindByExternal, Book!Stored, Stored
    <3> QED
      BY <2>1, <3>1 DEF Refused
  <2>2. Book!RefusedByWallet(m, code) => code \in WalletCodes
    BY DEF Book!RefusedByWallet, WalletCodes
  <2>3. RowRejected(t)
    BY <1>1, <1>5, <2>1, <2>2 DEF Book!Rejects, RowRejected
  <2> QED
    BY <1>2, <2>3 DEF StepRow
<1> QED
  BY <1>2, <1>3, <1>4, <1>5

LEMMA PostedLedger ==
  ASSUME TypeInv, TypeInv', NEW w \in Wallets, Book!Posts(w)
  PROVE  StepLedger(w)
<1> DEFINE u == ledger[w]
           z == ledger'[w]
<1>1. u \in Seq(Entries) /\ z \in Seq(Entries)
  BY DEF TypeInv, TypeOK, DbTypeOK
<1>2. /\ \A i \in 1 .. Len(u) : i <= Len(z) /\ z[i] = u[i]
      /\ \A t \in Book!Changed : (Book!Moves(txs'[t]) /\ txs'[t].cmd.wallet = w) =>
           \E i \in Len(u) + 1 .. Len(z) : Book!Records(w, i, t)
      /\ \A i \in Len(u) + 1 .. Len(z) :
           LET t == z[i].tx IN
           /\ t \in Book!Changed /\ Book!Moves(txs'[t]) /\ txs'[t].cmd.wallet = w
           /\ Book!Records(w, i, t)
           /\ \A j \in Len(u) + 1 .. Len(z) : z[j].tx = t => i = j
  BY DEF Book!Posts, Book!Grown
<1>3. Book!Changed = {t \in TxIds : txs'[t] # txs[t]}
  BY DEF Book!Changed
<1>4. \A t \in TxIds : Book!Moves(txs'[t]) <=> Moves(txs'[t])
  BY DEF Book!Moves, Moves, Book!AffectsBalance, AffectsBalance
<1>5. ASSUME NEW t \in TxIds, NEW i \in Len(u) + 1 .. Len(z), Book!Records(w, i, t),
             Moves(txs'[t])
      PROVE  z[i].tx = t /\ Matches(z[i], txs'[t], txs')
  <2>1. /\ z[i].tx = t /\ z[i].amount = txs'[t].cmd.amount
        /\ z[i].dir = Book!LedgerDirectionFor(txs'[t].cmd.kind,
                                              Book!RefKind(txs', txs'[t].refTx))
    BY <1>5 DEF Book!Records
  <2>2. Book!RefKind(txs', txs'[t].refTx) = RefKind(txs', txs'[t].refTx)
    BY DEF Book!RefKind, RefKind
  <2>3. z[i].dir = LedgerDirectionFor(txs'[t].cmd.kind, RefKind(txs', txs'[t].refTx))
    BY <2>1, <2>2
    DEF Book!LedgerDirectionFor, LedgerDirectionFor, Book!Opposite, Opposite,
        Book!Direction, Direction
  <2> QED
    BY <1>5, <2>1, <2>3 DEF Matches
<1> HIDE DEF u, z
<1>6. Len(u) <= Len(z)
  BY <1>1, <1>2
<1>7. ASSUME NEW t \in TxIds, txs'[t] # txs[t], Moves(txs'[t]), txs'[t].cmd.wallet = w
      PROVE  \E i \in Len(u) + 1 .. Len(z) : z[i].tx = t /\ Matches(z[i], txs'[t], txs')
  <2>1. PICK i \in Len(u) + 1 .. Len(z) : Book!Records(w, i, t)
    BY <1>2, <1>3, <1>4, <1>7
  <2> QED
    BY <1>5, <1>7, <2>1
<1>8. ASSUME NEW i \in Len(u) + 1 .. Len(z)
      PROVE  LET t == z[i].tx IN
             /\ t \in TxIds /\ txs'[t] # txs[t] /\ txs'[t].cmd.wallet = w
             /\ Matches(z[i], txs'[t], txs')
             /\ \A j \in Len(u) + 1 .. Len(z) : z[j].tx = t => i = j
  <2> DEFINE t == z[i].tx
  <2>1. /\ t \in Book!Changed /\ Book!Moves(txs'[t]) /\ txs'[t].cmd.wallet = w
        /\ Book!Records(w, i, t)
        /\ \A j \in Len(u) + 1 .. Len(z) : z[j].tx = t => i = j
    BY <1>2
  <2>2. t \in TxIds /\ txs'[t] # txs[t] /\ Moves(txs'[t])
    BY <1>3, <1>4, <2>1
  <2>3. Matches(z[i], txs'[t], txs')
    BY <1>5, <2>1, <2>2
  <2> QED
    BY <2>1, <2>2, <2>3
<1> QED
  BY <1>2, <1>6, <1>7, <1>8 DEF StepLedger, Entry, u, z


\* Every step of the core is one of these.
LEMMA StepTablesHold ==
  ASSUME BatchInv, BatchInv', [Next]_vars
  PROVE  StepTables
<1>1. TypeInv /\ TypeInv'
  BY DEF BatchInv, LedgerInv
<1>2. Book!Next \/ UNCHANGED <<wallets, txs, ledger>>
  BY StepBooks DEF Book!bookVars
<1>3. CASE UNCHANGED <<wallets, txs, ledger>>
  <2>1. ASSUME NEW w \in Wallets PROVE StepLedger(w)
    <3> DEFINE n == Len(ledger[w])
    <3>1. n \in Nat /\ ledger'[w] = ledger[w]
      BY <1>1, <1>3 DEF TypeInv, TypeOK, DbTypeOK
    <3> HIDE DEF n
    <3>2. n + 1 .. n = {} /\ n <= n
      BY <3>1
    <3> USE DEF n
    <3>3. Len(ledger'[w]) = n
      BY <3>1
    <3> QED
      BY <1>3, <3>1, <3>2, <3>3 DEF StepLedger
  <2> QED
    BY <1>3, <2>1 DEF StepTables
<1>4. ASSUME Book!Next PROVE StepTables
  <2>1. /\ \A t \in Book!Changed : Book!Decides(t)
        /\ \A w \in Wallets : Book!Posts(w)
    BY <1>4 DEF Book!Next, Book!Open, Book!Submit, Book!Retry, Book!Settle
  <2>2. \A t \in TxIds : txs'[t] # txs[t] => StepRow(t)
    BY <2>1, DecidedRow DEF Book!Changed
  <2>3. \A w \in Wallets : StepLedger(w)
    BY <1>1, <2>1, PostedLedger
  <2> QED
    BY <2>2, <2>3 DEF StepTables
<1> QED
  BY <1>2, <1>3, <1>4

LEMMA StepExtends ==
  ASSUME BatchInv, BatchInv', StepTables
  PROVE  /\ Extends(txs, txs') /\ txs \in Tables /\ txs' \in Tables
         /\ DOMAIN txs = TxIds /\ DOMAIN txs' = TxIds
         /\ Stored(txs) \subseteq Stored(txs') /\ Stored(txs') \subseteq TxIds
<1>1. txs \in Tables /\ txs' \in Tables /\ DOMAIN txs = TxIds /\ DOMAIN txs' = TxIds
  BY DEF BatchInv, LedgerInv, TypeInv, TypeOK, DbTypeOK, Tables
<1>2. Extends(txs, txs')
  BY DEF StepTables, StepRow, Extends, IsTerminal, TerminalStatuses
<1> QED
  BY <1>1, <1>2 DEF Extends, Stored

-----------------------------------------------------------------------------
(* Reversals                                                               *)

ReversalInv == ReversalJustified /\ ReversedOnce

LEMMA ReversalsKept ==
  ASSUME BatchInv, BatchInv', StepTables, ReversalInv
  PROVE  ReversalInv'
<1>1. /\ Extends(txs, txs') /\ DOMAIN txs = TxIds /\ DOMAIN txs' = TxIds
      /\ Stored(txs') \subseteq TxIds
  BY StepExtends
<1> DEFINE Reversing(t) ==
      /\ txs'[t].status = "PROCESSED" /\ txs'[t].cmd.kind \in Reversals
<1>2. ASSUME NEW t \in Stored(txs'), Reversing(t), txs'[t] # txs[t]
      PROVE  LET m == txs'[t].cmd
                 r == txs'[t].refTx
             IN MayReverse(txs', m, r) /\ ProcessedReversals(txs', r, m.kind) = {t}
  BY <1>1, <1>2 DEF StepTables, StepRow, RowWaits, RowProcessed, RowRejected
<1>3. ASSUME NEW t \in Stored(txs'), txs'[t] = txs[t]
      PROVE  t \in Stored(txs)
  BY <1>1, <1>3 DEF Stored
<1>4. ReversalJustified'
  <2> SUFFICES ASSUME NEW t \in Stored(txs'), Reversing(t)
               PROVE  LET m == txs'[t].cmd
                          r == txs'[t].refTx
                      IN /\ r # None /\ txs'[r] # None
                         /\ txs'[r].status = "PROCESSED"
                         /\ SameOwner(m, txs'[r].cmd)
                         /\ txs'[r].cmd.amount = m.amount
                         /\ txs'[r].cmd.kind \in ReversibleKinds(m.kind)
    BY DEF ReversalJustified, Stored, SameOwner, ReversibleKinds
  <2> DEFINE m == txs'[t].cmd
             r == txs'[t].refTx
  <2>1. CASE txs'[t] # txs[t]
    <3>1. MayReverse(txs', m, r)
      BY <1>2, <2>1
    <3>2. r \in TxIds /\ txs'[r] # None
      BY <1>1, <3>1 DEF MayReverse, FindByExternal, Stored
    <3> QED
      BY <3>1, <3>2, IdsAssumption DEF MayReverse
  <2>2. CASE txs'[t] = txs[t]
    <3>1. t \in Stored(txs) /\ txs[t].status = "PROCESSED" /\ txs[t].cmd.kind \in Reversals
      BY <1>3, <2>2
    <3>2. /\ r # None /\ txs[r] # None /\ txs[r].status = "PROCESSED"
          /\ SameOwner(m, txs[r].cmd) /\ txs[r].cmd.amount = m.amount
          /\ txs[r].cmd.kind \in ReversibleKinds(m.kind)
      BY <2>2, <3>1 DEF ReversalInv, ReversalJustified
    <3>3. r \in TxIds
      <4>1. txs[t] \in Rows
        BY <1>1, <3>1, RowAssumption
        DEF BatchInv, LedgerInv, TypeInv, TypeOK, DbTypeOK, Stored
      <4> QED
        BY <2>2, <3>2, <4>1 DEF Rows
    <3>4. txs'[r] = txs[r]
      BY <1>1, <3>2, <3>3 DEF Extends, IsTerminal, TerminalStatuses
    <3> QED
      BY <3>2, <3>4
  <2> QED
    BY <2>1, <2>2
<1>5. ReversedOnce'
  <2> SUFFICES ASSUME NEW t \in Stored(txs'), NEW u \in Stored(txs'),
                      Reversing(t), txs'[u].status = "PROCESSED",
                      txs'[u].cmd.kind = txs'[t].cmd.kind, txs'[t].refTx = txs'[u].refTx
               PROVE  t = u
    BY DEF ReversedOnce, Stored
  <2>1. CASE txs'[t] # txs[t]
    <3>1. u \in ProcessedReversals(txs', txs'[t].refTx, txs'[t].cmd.kind)
      BY DEF ProcessedReversals
    <3> QED
      BY <1>2, <2>1, <3>1
  <2>2. CASE txs'[u] # txs[u]
    <3>1. t \in ProcessedReversals(txs', txs'[u].refTx, txs'[u].cmd.kind) /\ Reversing(u)
      BY DEF ProcessedReversals
    <3> QED
      BY <1>2, <2>2, <3>1
  <2>3. CASE txs'[t] = txs[t] /\ txs'[u] = txs[u]
    <3>1. t \in Stored(txs) /\ u \in Stored(txs)
      BY <1>3, <2>3
    <3> QED
      BY <2>3, <3>1 DEF ReversalInv, ReversedOnce
  <2> QED
    BY <2>1, <2>2, <2>3
<1> QED
  BY <1>4, <1>5 DEF ReversalInv

-----------------------------------------------------------------------------
(* Rows                                                                    *)

LEMMA DecidedCodes ==
  ASSUME NEW table, NEW m, NEW code, Refused(table, m, code)
  PROVE  /\ code \in FailureCodes /\ code # "REFERENCE_RESOLUTION_TIMEOUT"
         /\ code \notin WalletCodes
         /\ code = "REFERENCE_ALREADY_REVERSED" =>
              \E r \in FindByExternal(table, m.ref) :
                ProcessedReversals(table, r, m.kind) # {}
<1>1. PICK r \in FindByExternal(table, m.ref) : Book!RefusedBy(table, m, r, code)
  BY DEF Refused
<1>2. \/ code = "REFERENCE_MISMATCH" \/ code = "REFERENCE_INVALID_KIND"
      \/ code = "REFERENCE_INVALID_STATE" \/ code = "REFERENCE_AMOUNT_MISMATCH"
      \/ /\ code = "REFERENCE_ALREADY_REVERSED"
         /\ ProcessedReversals(table, r, m.kind) # {}
  BY <1>1, RefusedByMeans
<1> QED
  BY <1>2 DEF FailureCodes, WalletCodes

RowInv == RowsDecided /\ AlreadyReversedHasWinner

LEMMA RowsKept ==
  ASSUME BatchInv, BatchInv', StepTables, RowInv
  PROVE  RowInv'
<1>1. /\ Extends(txs, txs') /\ DOMAIN txs = TxIds /\ DOMAIN txs' = TxIds
      /\ Stored(txs) \subseteq Stored(txs') /\ Stored(txs') \subseteq TxIds
      /\ txs \in Tables /\ txs' \in Tables
  BY StepExtends
<1>2. None \notin FailureCodes
  BY NoneAssumption
<1>3. ASSUME NEW t \in Stored(txs'), txs'[t] # txs[t]
      PROVE  /\ Tried(t) \in 0 .. MaxAttempts
             /\ RowWaits(t) \/ RowProcessed(t) \/ RowRejected(t)
  <2>1. t \in TxIds /\ txs[t] \in Rows \cup {None} /\ 0 \in 0 .. MaxAttempts
    BY <1>1, BoundsAssumption DEF Tables
  <2> QED
    BY <1>3, <2>1 DEF StepTables, StepRow, Tried, Rows
<1>4. ASSUME NEW t \in Stored(txs'), txs'[t] = txs[t]
      PROVE  t \in Stored(txs)
  BY <1>1, <1>4 DEF Stored
<1>5. RowsDecided'
  <2> SUFFICES ASSUME NEW t \in Stored(txs')
               PROVE  LET row == txs'[t] IN
                      /\ row.status \in {"PENDING_REFERENCE", "PROCESSED", "REJECTED"}
                      /\ row.status = "PENDING_REFERENCE" => row.attempts >= 1
                      /\ (row.status = "REJECTED") <=> (row.failure # None)
                      /\ row.failure = "REFERENCE_RESOLUTION_TIMEOUT" =>
                           row.attempts = MaxAttempts
    BY DEF RowsDecided, Stored
  <2>1. CASE txs'[t] = txs[t]
    BY <1>4, <2>1 DEF RowInv, RowsDecided
  <2>2. CASE txs'[t] # txs[t]
    <3>1. None # "REFERENCE_RESOLUTION_TIMEOUT"
      BY <1>2 DEF FailureCodes
    <3>2. CASE RowWaits(t)
      BY <1>3, <2>2, <3>1, <3>2 DEF RowWaits
    <3>3. CASE RowProcessed(t)
      BY <3>1, <3>3 DEF RowProcessed
    <3>4. CASE RowRejected(t)
      <4>1. txs'[t].failure # None
        BY <1>2, <3>4, DecidedCodes DEF RowRejected, WalletCodes, FailureCodes
      <4>2. txs'[t].failure = "REFERENCE_RESOLUTION_TIMEOUT" => txs'[t].attempts = MaxAttempts
        BY <3>4, DecidedCodes DEF RowRejected, WalletCodes
      <4> QED
        BY <3>4, <4>1, <4>2 DEF RowRejected
    <3> QED
      BY <1>3, <2>2, <3>2, <3>3, <3>4
  <2> QED
    BY <2>1, <2>2
<1>6. AlreadyReversedHasWinner'
  <2> SUFFICES ASSUME NEW t \in Stored(txs'),
                      txs'[t].failure = "REFERENCE_ALREADY_REVERSED"
               PROVE  \E r \in FindByExternal(txs', txs'[t].cmd.ref) :
                        ProcessedReversals(txs', r, txs'[t].cmd.kind) # {}
    BY DEF AlreadyReversedHasWinner, Stored, FindByExternal, ProcessedReversals
  <2>1. CASE txs'[t] = txs[t]
    <3> DEFINE m == txs[t].cmd
    <3>1. PICK r \in FindByExternal(txs, m.ref) : ProcessedReversals(txs, r, m.kind) # {}
      BY <1>4, <2>1 DEF RowInv, AlreadyReversedHasWinner
    <3>2. r \in FindByExternal(txs', m.ref)
      BY <1>1, FoundKept
    <3>3. PICK u \in Stored(txs) : /\ txs[u].refTx = r /\ txs[u].cmd.kind = m.kind
                                   /\ txs[u].status = "PROCESSED"
      BY <3>1 DEF ProcessedReversals
    <3>4. txs'[u] = txs[u] /\ u \in Stored(txs')
      BY <1>1, <3>3 DEF Extends, IsTerminal, TerminalStatuses, Stored
    <3>5. u \in ProcessedReversals(txs', r, m.kind)
      BY <3>3, <3>4 DEF ProcessedReversals
    <3> QED
      BY <2>1, <3>2, <3>5
  <2>2. CASE txs'[t] # txs[t]
    <3>1. RowRejected(t)
      BY <1>2, <1>3, <2>2 DEF RowWaits, RowProcessed, FailureCodes
    <3> QED
      BY <3>1, DecidedCodes DEF RowRejected, WalletCodes
  <2> QED
    BY <2>1, <2>2
<1> QED
  BY <1>5, <1>6 DEF RowInv


-----------------------------------------------------------------------------
(* Money                                                                   *)

\* The direction of a movement stays what it was: only a reversal has a
\* reference to look at, and references stay.
LEMMA DirectionKept ==
  ASSUME BatchInv, BatchInv', StepTables, ReversalInv, NEW t \in Stored(txs), Moves(txs[t])
  PROVE  /\ txs'[t] = txs[t] /\ t \in Stored(txs')
         /\ LedgerDirectionFor(txs[t].cmd.kind, RefKind(txs', txs[t].refTx))
              = LedgerDirectionFor(txs[t].cmd.kind, RefKind(txs, txs[t].refTx))
<1> DEFINE m == txs[t].cmd
           r == txs[t].refTx
<1>1. /\ Extends(txs, txs') /\ DOMAIN txs = TxIds /\ txs \in Tables
      /\ Stored(txs) \subseteq Stored(txs')
  BY StepExtends
<1>2. txs'[t] = txs[t] /\ t \in Stored(txs')
  BY <1>1 DEF Extends, IsTerminal, TerminalStatuses, Moves, Stored
<1>3. CASE m.kind \notin Reversals
  BY <1>2, <1>3 DEF LedgerDirectionFor, Reversals
<1>4. CASE m.kind \in Reversals
  <2>1. r # None /\ txs[r] # None
    BY <1>4 DEF ReversalInv, ReversalJustified, Moves
  <2>2. r \in TxIds
    <3>1. txs[t] \in Rows
      BY <1>1, RowAssumption DEF Tables, Stored
    <3> QED
      BY <2>1, <3>1 DEF Rows
  <2>3. txs'[r].cmd = txs[r].cmd
    BY <1>1, <2>1, <2>2 DEF Extends
  <2> QED
    BY <1>2, <2>1, <2>3 DEF RefKind
<1> QED
  BY <1>2, <1>3, <1>4

LEMMA MovementsKept ==
  ASSUME BatchInv, BatchInv', StepTables, ReversalInv, OneEntryPerMovement
  PROVE  OneEntryPerMovement'
<1>1. /\ DOMAIN txs = TxIds /\ DOMAIN txs' = TxIds /\ txs' \in Tables
      /\ Stored(txs') \subseteq TxIds
  BY StepExtends
<1>2. \A w \in Wallets : Len(ledger[w]) \in Nat /\ Len(ledger'[w]) \in Nat
  BY DEF BatchInv, LedgerInv, TypeInv, TypeOK, DbTypeOK
<1>3. \A w \in Wallets : StepLedger(w)
  BY DEF StepTables
<1>4. \A w \in Wallets :
        /\ \A i \in Entry(w) : i \in 1 .. Len(ledger'[w])
        /\ \A i \in Len(ledger[w]) + 1 .. Len(ledger'[w]) : i \in 1 .. Len(ledger'[w])
        /\ \A i \in 1 .. Len(ledger'[w]) :
             i \in Entry(w) \/ i \in Len(ledger[w]) + 1 .. Len(ledger'[w])
  BY <1>2, <1>3 DEF StepLedger, Entry
<1> DEFINE Recorded(t, w, i) ==
      LET e == ledger'[w][i] IN
      /\ e.tx = t /\ e.amount = txs'[t].cmd.amount
      /\ e.dir = LedgerDirectionFor(txs'[t].cmd.kind, RefKind(txs', txs'[t].refTx))
<1>5. ASSUME NEW t \in Stored(txs'), Moves(txs'[t])
      PROVE  \E i \in 1 .. Len(ledger'[txs'[t].cmd.wallet]) :
               Recorded(t, txs'[t].cmd.wallet, i)
  <2> DEFINE w == txs'[t].cmd.wallet
  <2>1. t \in TxIds /\ w \in Wallets
    <3>1. t \in TxIds /\ txs'[t] \in Rows
      BY <1>1, RowAssumption DEF Tables, Stored
    <3> QED
      BY <3>1, CommandFields DEF Rows
  <2>2. CASE txs'[t] = txs[t]
    <3>1. t \in Stored(txs) /\ Moves(txs[t])
      BY <1>1, <1>5, <2>2 DEF Stored
    <3>2. PICK i \in Entry(w) :
            /\ ledger[w][i].tx = t /\ ledger[w][i].amount = txs[t].cmd.amount
            /\ ledger[w][i].dir = LedgerDirectionFor(txs[t].cmd.kind,
                                                     RefKind(txs, txs[t].refTx))
      BY <2>2, <3>1 DEF OneEntryPerMovement
    <3>3. ledger'[w][i] = ledger[w][i] /\ i \in 1 .. Len(ledger'[w])
      BY <1>3, <1>4, <2>1, <3>2 DEF StepLedger
    <3>4. LedgerDirectionFor(txs[t].cmd.kind, RefKind(txs', txs[t].refTx))
            = LedgerDirectionFor(txs[t].cmd.kind, RefKind(txs, txs[t].refTx))
      BY <3>1, DirectionKept
    <3>5. Recorded(t, w, i)
      BY <2>2, <3>2, <3>3, <3>4
    <3> QED
      BY <3>3, <3>5
  <2>3. CASE txs'[t] # txs[t]
    <3>1. PICK i \in Len(ledger[w]) + 1 .. Len(ledger'[w]) :
            ledger'[w][i].tx = t /\ Matches(ledger'[w][i], txs'[t], txs')
      BY <1>3, <1>5, <2>1, <2>3 DEF StepLedger
    <3>2. i \in 1 .. Len(ledger'[w])
      BY <1>4, <2>1
    <3>3. Recorded(t, w, i)
      BY <3>1 DEF Matches
    <3> QED
      BY <3>2, <3>3
  <2> QED
    BY <2>2, <2>3
<1>6. ASSUME NEW w \in Wallets, NEW i \in Entry(w)
      PROVE  LET t == ledger[w][i].tx IN
             /\ t \in Stored(txs) /\ Moves(txs[t]) /\ txs[t].cmd.wallet = w
             /\ txs'[t] = txs[t] /\ t \in Stored(txs') /\ ledger'[w][i].tx = t
             /\ \A j \in Entry(w) : ledger[w][j].tx = t => i = j
  <2> DEFINE t == ledger[w][i].tx
  <2>1. t \in TxIds
    <3> DEFINE u == ledger[w]
    <3>1. u \in Seq(Entries) /\ i \in 1 .. Len(u)
      BY <1>6 DEF BatchInv, LedgerInv, TypeInv, TypeOK, DbTypeOK, Entry
    <3> HIDE DEF u
    <3>2. u[i] \in Entries
      BY <3>1
    <3> QED
      BY <3>2 DEF u, Entries
  <2>2. /\ txs[t] # None /\ Moves(txs[t]) /\ txs[t].cmd.wallet = w
        /\ \A j \in Entry(w) : ledger[w][j].tx = t => i = j
    BY DEF OneEntryPerMovement
  <2>3. t \in Stored(txs)
    BY <1>1, <2>1, <2>2 DEF Stored
  <2>4. txs'[t] = txs[t] /\ t \in Stored(txs')
    BY <2>2, <2>3, DirectionKept
  <2>5. ledger'[w][i] = ledger[w][i]
    BY <1>3 DEF StepLedger
  <2> QED
    BY <2>2, <2>3, <2>4, <2>5
<1>7. ASSUME NEW w \in Wallets, NEW i \in Len(ledger[w]) + 1 .. Len(ledger'[w])
      PROVE  LET t == ledger'[w][i].tx IN
             /\ t \in TxIds /\ txs'[t] # txs[t] /\ txs'[t] # None
             /\ Moves(txs'[t]) /\ txs'[t].cmd.wallet = w
             /\ \A j \in Len(ledger[w]) + 1 .. Len(ledger'[w]) :
                  ledger'[w][j].tx = t => i = j
  BY <1>3 DEF StepLedger, StepTables, StepRow, Matches
<1>8. ASSUME NEW w \in Wallets, NEW i \in 1 .. Len(ledger'[w])
      PROVE  LET t == ledger'[w][i].tx IN
             /\ txs'[t] # None /\ Moves(txs'[t]) /\ txs'[t].cmd.wallet = w
             /\ \A j \in 1 .. Len(ledger'[w]) : ledger'[w][j].tx = t => i = j
  <2> DEFINE t == ledger'[w][i].tx
  <2>1. txs'[t] # None /\ Moves(txs'[t]) /\ txs'[t].cmd.wallet = w
    BY <1>4, <1>6, <1>7 DEF Stored
  <2>2. ASSUME NEW j \in 1 .. Len(ledger'[w]), ledger'[w][j].tx = t PROVE i = j
    <3>1. CASE i \in Entry(w) /\ j \in Entry(w)
      BY <1>6, <2>2, <3>1
    <3>2. CASE i \notin Entry(w) /\ j \notin Entry(w)
      BY <1>4, <1>7, <2>2, <3>2
    <3>3. CASE i \in Entry(w) /\ j \notin Entry(w)
      <4>1. txs'[t] = txs[t]
        BY <1>6, <3>3
      <4>2. txs'[t] # txs[t]
        BY <1>4, <1>7, <2>2, <3>3
      <4> QED
        BY <4>1, <4>2
    <3>4. CASE i \notin Entry(w) /\ j \in Entry(w)
      <4>1. txs'[t] = txs[t]
        BY <1>6, <2>2, <3>4
      <4>2. txs'[t] # txs[t]
        BY <1>4, <1>7, <3>4
      <4> QED
        BY <4>1, <4>2
    <3> QED
      BY <3>1, <3>2, <3>3, <3>4
  <2> QED
    BY <2>1, <2>2
<1> QED
  BY <1>5, <1>8
  DEF OneEntryPerMovement, Entry, Stored, Moves, AffectsBalance, RefKind,
      LedgerDirectionFor, Direction, Opposite


-----------------------------------------------------------------------------
(* Steps                                                                   *)

LEMMA WalletStaysOpen ==
  ASSUME BatchInv, [Next]_vars, NEW w \in Wallets, wallets[w] # None
  PROVE  wallets'[w] # None
<1>1. CASE UNCHANGED wallets
  BY <1>1
<1>2. ASSUME NEW x \in Wallets, NEW o \in AllOpenings, OpenWallet(x, o)
      PROVE  wallets'[w] # None
  BY <1>2, OpeningFacts
<1>3. ASSUME NEW c \in Calls, Finish(c) PROVE wallets'[w] # None
  <2> DEFINE e == CallEffect(c)
  <2>1. Commits(c, e) \/ UNCHANGED wallets
    BY <1>3 DEF Finish, Commits, dbVars
  <2> HIDE DEF e
  <2>2. ASSUME Commits(c, e) PROVE wallets'[w] # None
    <3>1. /\ e.wallet \in WalletRows
          /\ IF w = cmd[c].wallet
               THEN wallets'[w] = e.wallet /\ ledger'[w] = ledger[w] \o e.entries
               ELSE wallets'[w] = wallets[w] /\ ledger'[w] = ledger[w]
      BY <2>2, CommitFacts
    <3> QED
      BY <3>1, RowAssumption
  <2> QED
    BY <2>1, <2>2
<1>4. ASSUME NEW k \in Workers, CommitBatch(k) PROVE wallets'[w] # None
  BY <1>4, BatchFacts
<1> QED
  BY <1>1, <1>2, <1>3, <1>4
  DEF Next, Begin, CallStep, CrashCall, RefuseCommand, LockWallet, Claim, ClaimConflict,
      Resolve, LookupKey, LookupExternal, AbortCall, WorkerStep, CrashWorker, SelectBatch,
      ResolveItem, ApplyItem, AbortWorker, BecomeDue, dbVars, vars

\* A wallet that is open stays open and counts its entries.
LEMMA StepCounts ==
  ASSUME BatchInv, BatchInv', [Next]_vars, StepTables, NEW w \in Wallets,
         wallets[w] # None
  PROVE  /\ wallets'[w] # None
         /\ wallets'[w].version - wallets[w].version = Len(ledger'[w]) - Len(ledger[w])
<1> DEFINE old == wallets[w]
           new == wallets'[w]
           n == Len(ledger[w])
           p == Len(ledger'[w])
<1>1. /\ TypeInv /\ TypeInv' /\ old \in WalletRows /\ old.version \in Nat
      /\ n \in Nat /\ p \in Nat
  BY DEF BatchInv, LedgerInv, TypeInv, TypeOK, DbTypeOK, WalletRows
<1>2. Book!Next \/ UNCHANGED <<wallets, txs, ledger>>
  BY StepBooks DEF Book!bookVars
<1>3. CASE new = old /\ p = n
  <2>1. old.version - old.version = 0 /\ n - n = 0
    BY <1>1
  <2> QED
    BY <1>3, <2>1
<1>4. CASE Book!Counts(w)
  <2>1. new = [old EXCEPT !.balance = new.balance, !.version = @ + p - n]
    BY <1>4 DEF Book!Counts
  <2>2. new.version = old.version + p - n
    BY <1>1, <2>1 DEF WalletRows
  <2> DEFINE a == old.version
             b == new.version
  <2>3. b - a = p - n
    <3>1. a \in Nat /\ b = a + p - n
      BY <1>1, <2>2
    <3> HIDE DEF a, b, n, p
    <3> QED
      BY <1>1, <3>1
  <2> QED
    BY <2>3, WalletStaysOpen
<1>5. ASSUME NEW x \in Wallets, Book!Open(x) PROVE new = old /\ p = n
  <2>1. x # w /\ new = old
    BY <1>1, <1>5 DEF Book!Open, TypeInv, TypeOK, DbTypeOK
  <2>2. ASSUME NEW t \in TxIds, txs'[t] # txs[t] PROVE txs'[t].cmd.wallet = x
    <3>1. t = x /\ txs'[t] # None
      BY <1>5, <2>2 DEF Book!Open, Book!Changed, StepTables, StepRow
    <3>2. t \notin Calls /\ t \in Stored(txs')
      BY <1>1, <3>1, IdsAssumption DEF Stored, TypeInv, TypeOK, DbTypeOK
    <3> QED
      BY <3>1, <3>2 DEF BatchInv, ClaimInv, RowsOwned
  <2>3. n <= p /\ \A i \in n + 1 .. p : txs'[ledger'[w][i].tx].cmd.wallet = w
                    /\ ledger'[w][i].tx \in TxIds
                    /\ txs'[ledger'[w][i].tx] # txs[ledger'[w][i].tx]
    BY DEF StepTables, StepLedger
  <2>4. ~(n < p)
    <3> SUFFICES ASSUME n < p PROVE FALSE
      OBVIOUS
    <3>1. n + 1 \in n + 1 .. p
      BY <1>1
    <3> QED
      BY <2>1, <2>2, <2>3, <3>1
  <2> HIDE DEF n, p
  <2> QED
    BY <1>1, <2>1, <2>3, <2>4
<1> QED
  BY <1>2, <1>3, <1>4, <1>5, WalletStaysOpen DEF Book!Next, Book!Submit, Book!Retry, Book!Settle

LEMMA HistoryStep ==
  ASSUME BatchInv, BatchInv', [Next]_vars, StepTables
  PROVE  /\ \A t \in Stored(txs) :
              /\ txs'[t] # None /\ txs'[t].cmd = txs[t].cmd
              /\ IsTerminal(txs[t]) => txs'[t] = txs[t]
              /\ txs'[t].attempts >= txs[t].attempts
         /\ \A w \in Wallets :
              /\ Len(ledger'[w]) >= Len(ledger[w])
              /\ \A i \in Entry(w) : ledger'[w][i] = ledger[w][i]
         /\ \A w \in Open :
              /\ wallets'[w] # None
              /\ wallets'[w].version - wallets[w].version
                   = Len(ledger'[w]) - Len(ledger[w])
              /\ wallets'[w].balance # wallets[w].balance => ledger'[w] # ledger[w]
<1>1. Extends(txs, txs') /\ DOMAIN txs = TxIds /\ txs \in Tables
  BY StepExtends
<1>2. ASSUME NEW t \in Stored(txs)
      PROVE  /\ txs'[t] # None /\ txs'[t].cmd = txs[t].cmd
             /\ IsTerminal(txs[t]) => txs'[t] = txs[t]
             /\ txs'[t].attempts >= txs[t].attempts
  <2>1. t \in TxIds /\ txs[t] # None /\ txs[t] \in Rows
    BY <1>1 DEF Stored, Tables
  <2>2. txs[t].attempts \in Nat /\ Tried(t) = txs[t].attempts
    BY <2>1, BoundsAssumption DEF Rows, Tried
  <2>3. txs'[t].attempts >= txs[t].attempts
    <3>1. CASE txs'[t] = txs[t]
      BY <2>2, <3>1
    <3>2. CASE txs'[t] # txs[t]
      <4>1. txs'[t].attempts = Tried(t) \/ txs'[t].attempts = Tried(t) + 1
        BY <2>1, <3>2 DEF StepTables, StepRow, RowWaits, RowProcessed, RowRejected
      <4> QED
        BY <2>2, <4>1
    <3> QED
      BY <3>1, <3>2
  <2> QED
    BY <1>1, <2>1, <2>3 DEF Extends
<1>3. ASSUME NEW w \in Wallets
      PROVE  /\ Len(ledger'[w]) >= Len(ledger[w])
             /\ \A i \in Entry(w) : ledger'[w][i] = ledger[w][i]
  <2>1. Len(ledger[w]) \in Nat /\ Len(ledger'[w]) \in Nat
    BY DEF BatchInv, LedgerInv, TypeInv, TypeOK, DbTypeOK
  <2>2. /\ Len(ledger[w]) <= Len(ledger'[w])
        /\ \A i \in Entry(w) : ledger'[w][i] = ledger[w][i]
    BY DEF StepTables, StepLedger
  <2> QED
    BY <2>1, <2>2
<1>4. ASSUME NEW w \in Open, wallets'[w].balance # wallets[w].balance
      PROVE  ledger'[w] # ledger[w]
  <2>1. w \in Wallets /\ wallets[w] # None /\ wallets'[w] # None
    BY StepCounts DEF Open
  <2>2. Chained(ledger[w], 0, wallets[w].balance)
    BY DEF BatchInv, LedgerInv, LedgerChain
  <2>3. Chained(ledger'[w], 0, wallets'[w].balance)
    BY <2>1 DEF BatchInv, LedgerInv, LedgerChain, Open, Chained
  <2> QED
    BY <1>4, <2>2, <2>3 DEF Chained
<1>5. ASSUME NEW w \in Open
      PROVE  /\ wallets'[w] # None
             /\ wallets'[w].version - wallets[w].version
                  = Len(ledger'[w]) - Len(ledger[w])
  BY StepCounts DEF Open
<1> QED
  BY <1>2, <1>3, <1>4, <1>5 DEF Open


\* Only its own commit gives a call a row.
LEMMA RefusalStep ==
  ASSUME BatchInv, BatchInv', [Next]_vars, NEW c \in Calls,
         txs[c] = None, txs'[c] # None,
         txs'[c].failure \in {"INSUFFICIENT_BALANCE", "ROLLBACK_INSUFFICIENT_BALANCE"}
  PROVE  wallets[cmd[c].wallet].balance < cmd[c].amount
<1>1. c \in TxIds /\ c \notin Wallets
  BY IdsAssumption DEF TxIds
<1>2. ASSUME NEW w \in Wallets, NEW o \in AllOpenings, OpenWallet(w, o) PROVE FALSE
  BY <1>1, <1>2, OpeningFacts
<1>3. ASSUME NEW k \in Workers, CommitBatch(k) PROVE FALSE
  BY <1>1, <1>3, BatchDecides
<1>4. ASSUME NEW d \in Calls, Finish(d)
      PROVE  wallets[cmd[c].wallet].balance < cmd[c].amount
  <2> DEFINE e == CallEffect(d)
  <2>1. Commits(d, e)
    BY <1>4 DEF Finish, Commits, dbVars
  <2> HIDE DEF e
  <2>2. /\ \A t \in TxIds : txs'[t] = IF t = d THEN e.row ELSE txs[t]
        /\ seen[d] = wallets[cmd[d].wallet]
        /\ CallWaits(d, e.row) \/ CallProcesses(d, e.row) \/ CallRejects(d, e.row)
    BY <2>1, CommitFacts
  <2>3. c = d /\ e.row.failure \in {"INSUFFICIENT_BALANCE", "ROLLBACK_INSUFFICIENT_BALANCE"}
    BY <1>1, <2>2
  <2>4. CallRejects(d, e.row)
    BY <2>2, <2>3, NoneAssumption DEF CallWaits, CallProcesses, FailureCodes
  <2>5. WalletSays(cmd[d], seen[d], e.row.failure)
    BY <2>3, <2>4, DecidedCodes DEF CallRejects, WalletCodes
  <2> QED
    BY <2>2, <2>3, <2>5 DEF WalletSays
<1>5. ASSUME UNCHANGED txs PROVE FALSE
  BY <1>5
<1> QED
  BY <1>2, <1>3, <1>4, <1>5
  DEF Next, Begin, CallStep, CrashCall, RefuseCommand, LockWallet, Claim, ClaimConflict,
      Resolve, LookupKey, LookupExternal, AbortCall, WorkerStep, CrashWorker, SelectBatch,
      ResolveItem, ApplyItem, AbortWorker, BecomeDue, dbVars, vars

-----------------------------------------------------------------------------
(* Replies                                                                 *)

\* A call that is about to reverse its reference is the first to do so.
NotReversedYet(c) ==
  (pc[c] = "finish" /\ cmd[c].kind \in Reversals /\ verdict[c].outcome = "resolved") =>
    ProcessedReversals(txs, verdict[c].ref, cmd[c].kind) = {}

\* A call that looks for the row it lost to will find it.
LooksForSome(c) ==
  /\ pc[c] = "lookupKey" => CommittedClash(cmd[c])
  /\ pc[c] = "lookupExternal" => FindByExternal(txs, cmd[c].ext) # {}

AnswerHolds(c) ==
  /\ Answered(c) =>
       /\ pc[c] = "done" /\ reply[c].tx \in Stored(txs)
       /\ txs[reply[c].tx].cmd.key = cmd[c].key
       /\ SamePayload(cmd[c], txs[reply[c].tx].cmd)
       /\ ~reply[c].replay => reply[c].tx = c
  /\ reply[c] # None => reply[c].outcome # "TRANSIENT_PROCESSING_ERROR"

CallAnswers(c) == NotReversedYet(c) /\ LooksForSome(c) /\ AnswerHolds(c)

AnswerInv == \A c \in Calls : CallAnswers(c)

\* Whoever else reversed it would have moved the wallet the call has locked.
LEMMA NobodyReverses ==
  ASSUME BatchInv, BatchInv', [Next]_vars, StepTables, NEW c \in Calls,
         pc'[c] = pc[c], cmd'[c] = cmd[c], seen'[c] = seen[c], verdict'[c] = verdict[c],
         NotReversedYet(c)
  PROVE  NotReversedYet(c)'
<1> DEFINE m == cmd[c]
           r == verdict[c].ref
           w == m.wallet
<1> SUFFICES ASSUME pc[c] = "finish", m.kind \in Reversals,
                    verdict[c].outcome = "resolved",
                    NEW u \in ProcessedReversals(txs', r, m.kind)
             PROVE  FALSE
  BY DEF NotReversedYet, ProcessedReversals, Stored
<1>1. /\ Extends(txs, txs') /\ DOMAIN txs = TxIds /\ Stored(txs') \subseteq TxIds
      /\ Stored(txs) \subseteq Stored(txs')
  BY StepExtends
<1>2. u \in TxIds /\ txs'[u].refTx = r /\ txs'[u].cmd.kind = m.kind
      /\ txs'[u].status = "PROCESSED" /\ txs'[u] # None
  BY <1>1 DEF ProcessedReversals, Stored
<1>3. txs'[u] # txs[u]
  <2> SUFFICES ASSUME txs'[u] = txs[u] PROVE FALSE
    OBVIOUS
  <2>1. u \in ProcessedReversals(txs, r, m.kind)
    BY <1>1, <1>2 DEF ProcessedReversals, Stored
  <2> QED
    BY <2>1 DEF NotReversedYet
<1>4. MayReverse(txs', txs'[u].cmd, r)
  BY <1>2, <1>3 DEF StepTables, StepRow, RowWaits, RowProcessed, RowRejected
<1>5. MayReverse(CallView(c), m, r)
  BY DEF BatchInv, DecisionInv, CallVerdicts, Grounds
<1>6. /\ CallView(c) \in Tables /\ TypeInv
      /\ \A t \in TxIds : CallView(c)[t] = IF t = c THEN NewRow(cmd[c]) ELSE txs[t]
  BY CallViewType DEF BatchInv, LedgerInv
<1>7. r \in TxIds /\ CallView(c)[r].status = "PROCESSED" /\ CallView(c)[r] # None
  BY <1>5, <1>6 DEF MayReverse, FindByExternal, Stored, Tables
<1>8. CallView(c)[r] = txs[r] /\ txs[r] # None
  BY <1>6, <1>7 DEF NewRow
<1>9. txs'[u].cmd.wallet = w
  <2>1. txs'[r].cmd = txs[r].cmd
    BY <1>1, <1>7, <1>8 DEF Extends
  <2> QED
    BY <1>4, <1>5, <1>8, <2>1 DEF MayReverse, SameOwner
<1>10. InTransaction(c) /\ pc'[c] = "finish" /\ w \in Wallets
  BY <1>6, CommandsAssumption DEF InTransaction, TypeInv, CallReady
<1>11. wallets'[w] = wallets[w] /\ wallets[w] # None /\ wallets[w] \in WalletRows
  <2>1. seen[c] = wallets[w] /\ seen[c] # None
    BY <1>10 DEF BatchInv, LedgerInv, LockInv, SeenIsCurrent
  <2>2. seen[c] = wallets'[w]
    BY <1>10 DEF BatchInv, LedgerInv, LockInv, SeenIsCurrent, InTransaction
  <2> QED
    BY <1>6, <1>10, <2>1, <2>2 DEF TypeInv, TypeOK, DbTypeOK
<1> DEFINE n == Len(ledger[w])
           p == Len(ledger'[w])
<1>12. n \in Nat /\ p \in Nat /\ wallets[w].version \in Nat
  BY <1>10, <1>11 DEF BatchInv, LedgerInv, TypeInv, TypeOK, DbTypeOK, WalletRows
<1>13. p = n
  <2>1. wallets[w].version - wallets[w].version = p - n
    BY <1>10, <1>11, StepCounts
  <2> HIDE DEF n, p
  <2> QED
    BY <1>12, <2>1
<1>14. Moves(txs'[u])
  BY <1>2 DEF Moves, AffectsBalance, Reversals
<1>15. \E i \in n + 1 .. p : ledger'[w][i].tx = u
  BY <1>2, <1>3, <1>9, <1>10, <1>14 DEF StepTables, StepLedger
<1> HIDE DEF n, p
<1> QED
  BY <1>12, <1>13, <1>15

\* What the others do changes nothing for a call that waits or is done.
LEMMA OthersAnswer ==
  ASSUME BatchInv, BatchInv', [Next]_vars, StepTables, NEW c \in Calls,
         pc'[c] = pc[c], cmd'[c] = cmd[c], seen'[c] = seen[c], verdict'[c] = verdict[c],
         reply'[c] = reply[c], CallAnswers(c)
  PROVE  CallAnswers(c)'
<1>1. /\ Extends(txs, txs') /\ DOMAIN txs = TxIds /\ Stored(txs') \subseteq TxIds
      /\ Stored(txs) \subseteq Stored(txs')
  BY StepExtends
<1>2. \A t \in Stored(txs) : t \in Stored(txs') /\ txs'[t].cmd = txs[t].cmd
  BY <1>1 DEF Extends, Stored
<1>3. NotReversedYet(c)'
  BY NobodyReverses DEF CallAnswers
<1>4. LooksForSome(c)'
  BY <1>2 DEF CallAnswers, LooksForSome, CommittedClash, FindByExternal, Stored, Clash
<1>5. AnswerHolds(c)'
  <2>1. reply[c] # None => reply[c].outcome # "TRANSIENT_PROCESSING_ERROR"
    BY DEF CallAnswers, AnswerHolds
  <2>2. ASSUME Answered(c)
        PROVE  /\ pc'[c] = "done" /\ reply[c].tx \in Stored(txs')
               /\ txs'[reply[c].tx].cmd.key = cmd[c].key
               /\ SamePayload(cmd[c], txs'[reply[c].tx].cmd)
               /\ ~reply[c].replay => reply[c].tx = c
    BY <1>2, <2>2 DEF CallAnswers, AnswerHolds
  <2> QED
    BY <2>1, <2>2 DEF AnswerHolds, Answered, Stored, SamePayload
<1> QED
  BY <1>3, <1>4, <1>5 DEF CallAnswers


\* What resolves is not reversed yet in the table it was resolved on.
LEMMA ResolvedOnce ==
  ASSUME NEW table, NEW m, ResolveReference(table, m).outcome = "resolved"
  PROVE  LET v == ResolveReference(table, m)
         IN ProcessedReversals(table, v.ref, m.kind) = {}
<1> DEFINE found == FindByExternal(table, m.ref)
           t == CHOOSE x \in found : TRUE
<1>1. ResolveReference(table, m) = JudgeReference(table, m, t)
  BY DEF ResolveReference, PendingVerdict
<1> HIDE DEF t
<1>2. /\ ProcessedReversals(table, t, m.kind) = {}
      /\ JudgeReference(table, m, t) = ResolvedVerdict(t)
  BY <1>1 DEF JudgeReference, RejectedVerdict, PendingVerdict, ResolvedVerdict
<1> QED
  BY <1>1, <1>2 DEF ResolvedVerdict

\* A call never loses its reference at its commit.
LEMMA NeverLosesReference ==
  ASSUME BatchInv, NEW c \in Calls, pc[c] = "finish", NotReversedYet(c)
  PROVE  ~ViolatesReferenceOnce(txs, c, CallEffect(c).row)
<1> DEFINE row == CallEffect(c).row
           v == verdict[c]
<1> SUFFICES ASSUME row.status = "PROCESSED", row.cmd.kind \in Reversals
             PROVE  ProcessedReversals(txs, row.refTx, row.cmd.kind) = {}
  BY DEF ViolatesReferenceOnce
<1>1. /\ TypeInv /\ row.cmd = cmd[c] /\ v \in Verdicts
      /\ v.outcome \in {"pending", "rejected", "resolved"}
  BY CallEffectType DEF BatchInv, LedgerInv, TypeInv, CallReady, Verdicts
<1>2. v.outcome = "resolved" /\ row.refTx = v.ref
  BY <1>1
  DEF CallEffect, Effect, ApplyEffect, MarkPendingReference, MarkRejected, MarkProcessed,
      NewRow
<1> HIDE DEF row
<1> QED
  BY <1>1, <1>2 DEF NotReversedYet

\* What a call itself does, step by step.
LEMMA OwnAnswer ==
  ASSUME BatchInv, BatchInv', [Next]_vars, StepTables, NEW c \in Calls,
         CallStep(c) \/ CrashCall(c), CallAnswers(c)
  PROVE  CallAnswers(c)'
<1>1. /\ pc[c] \notin {"idle", "done"} /\ ~Answered(c)
      /\ reply[c] # None => reply[c].outcome # "TRANSIENT_PROCESSING_ERROR"
  <2>1. pc[c] \notin {"idle", "done"}
    BY DEF CallStep, CrashCall, RefuseCommand, LockWallet, Claim, ClaimConflict, Resolve,
       Finish, LookupKey, LookupExternal, AbortCall, WaitsFor
  <2> QED
    BY <2>1 DEF CallAnswers, AnswerHolds
<1>2. /\ TypeInv /\ DOMAIN pc = Calls /\ DOMAIN reply = Calls /\ DOMAIN verdict = Calls
  BY DEF BatchInv, LedgerInv, TypeInv, TypeOK, CallTypeOK
<1>3. cmd'[c] = cmd[c]
  BY DEF CallStep, CrashCall, RefuseCommand, LockWallet, Claim, ClaimConflict, Resolve,
     Finish, LookupKey, LookupExternal, AbortCall
<1>4. ASSUME reply'[c] = reply[c] PROVE AnswerHolds(c)'
  <2>1. reply'[c] # None => reply'[c].outcome \notin {"ok", "TRANSIENT_PROCESSING_ERROR"}
    BY <1>1, <1>4 DEF Answered
  <2> QED
    BY <2>1 DEF AnswerHolds, Answered
<1>5. ASSUME NEW outcome, outcome \notin {"ok", "TRANSIENT_PROCESSING_ERROR"}, NEW t, NEW b,
             Returned(c, outcome, t, b)
      PROVE  AnswerHolds(c)'
  <2>1. reply'[c].outcome = outcome
    BY <1>2, <1>5 DEF Returned
  <2> QED
    BY <1>5, <2>1 DEF AnswerHolds, Answered
<1>6. ASSUME NEW next, next \notin {"finish", "lookupKey", "lookupExternal"}, pc'[c] = next
      PROVE  NotReversedYet(c)' /\ LooksForSome(c)'
  BY <1>6 DEF NotReversedYet, LooksForSome
<1>7. \A next : EndCall(c, next) => pc'[c] = next
  BY <1>2 DEF EndCall
<1>8. CASE RefuseCommand(c)
  <2>1. Refusal(cmd[c]) \notin {"ok", "TRANSIENT_PROCESSING_ERROR"}
    BY <1>8, NoneAssumption DEF RefuseCommand, Refusal, Errors
  <2>2. Returned(c, Refusal(cmd[c]), None, FALSE) /\ pc'[c] = "done"
    BY <1>7, <1>8 DEF RefuseCommand
  <2> QED
    BY <1>5, <1>6, <2>1, <2>2 DEF CallAnswers
<1>9. CASE LockWallet(c)
  BY <1>2, <1>4, <1>6, <1>9 DEF LockWallet, CallAnswers
<1>10. CASE Claim(c)
  <2>1. /\ pc'[c] = IF RequiresReference(cmd[c].kind) THEN "resolve" ELSE "finish"
        /\ UNCHANGED reply
    BY <1>2, <1>10 DEF Claim
  <2>2. NotReversedYet(c)' /\ LooksForSome(c)'
    BY <1>3, <2>1 DEF NotReversedYet, LooksForSome, RequiresReference
  <2> QED
    BY <1>4, <2>1, <2>2 DEF CallAnswers
<1>11. CASE ClaimConflict(c)
  <2>1. pc'[c] = "lookupKey" /\ UNCHANGED reply /\ CommittedClash(cmd[c]) /\ UNCHANGED txs
    BY <1>7, <1>11 DEF ClaimConflict, dbVars
  <2>2. NotReversedYet(c)' /\ LooksForSome(c)'
    BY <1>3, <2>1 DEF NotReversedYet, LooksForSome, CommittedClash, Stored, Clash
  <2> QED
    BY <1>4, <2>1, <2>2 DEF CallAnswers
<1>12. CASE Resolve(c)
  <2> DEFINE v == ResolveReference(CallView(c), cmd[c])
  <2>1. /\ pc[c] = "resolve" /\ pc'[c] = "finish" /\ verdict'[c] = v
        /\ UNCHANGED reply /\ UNCHANGED txs
    BY <1>2, <1>12 DEF Resolve, dbVars
  <2>2. ASSUME v.outcome = "resolved" PROVE ProcessedReversals(txs, v.ref, cmd[c].kind) = {}
    <3>1. ProcessedReversals(CallView(c), v.ref, cmd[c].kind) = {}
      BY <2>2, ResolvedOnce
    <3>2. /\ CallView(c) \in Tables /\ c \in TxIds /\ txs[c] = None
          /\ \A t \in TxIds : CallView(c)[t] = IF t = c THEN NewRow(cmd[c]) ELSE txs[t]
      BY <1>2, <2>1, CallViewType, NotYetStored DEF BatchInv, InFlight
    <3>3. DOMAIN txs = TxIds /\ DOMAIN CallView(c) = TxIds
      BY <1>2, <3>2 DEF TypeInv, TypeOK, DbTypeOK, Tables
    <3> HIDE DEF v
    <3> QED
      BY <3>1, <3>2, <3>3 DEF ProcessedReversals, Stored
  <2> HIDE DEF v
  <2>3. NotReversedYet(c)' /\ LooksForSome(c)'
    BY <1>3, <2>1, <2>2 DEF NotReversedYet, LooksForSome, ProcessedReversals, Stored
  <2> QED
    BY <1>4, <2>1, <2>3 DEF CallAnswers
<1>13. CASE Finish(c)
  <2> DEFINE e == CallEffect(c)
  <2>1. ~ViolatesReferenceOnce(txs, c, e.row) /\ pc[c] = "finish"
    BY <1>13, NeverLosesReference DEF CallAnswers, Finish
  <2>2. pc'[c] = "done"
    BY <1>7, <1>13, <2>1 DEF Finish
  <2>3. CASE e.error # None
    <3>1. e.error \in {"UNBALANCED_LEDGER_ENTRY", "OUT_OF_RANGE"}
      BY <1>2, <2>1, <2>3, CallEffectType
    <3>2. Returned(c, e.error, None, FALSE)
      BY <1>13, <2>3 DEF Finish
    <3> QED
      BY <1>5, <1>6, <2>2, <3>1, <3>2 DEF CallAnswers
  <2>4. CASE e.error = None
    <3>1. Commits(c, e) /\ Returned(c, "ok", c, FALSE)
      BY <1>13, <2>1, <2>4 DEF Finish, Commits
    <3> HIDE DEF e
    <3>2. c \in TxIds /\ txs'[c] = e.row /\ e.row # None /\ e.row.cmd = cmd[c]
      BY <3>1, CommitFacts
    <3>3. reply'[c] = [outcome |-> "ok", tx |-> c, replay |-> FALSE]
      BY <1>2, <3>1 DEF Returned
    <3>4. c \in Stored(txs')
      BY <3>2, StepExtends DEF Stored
    <3>5. AnswerHolds(c)'
      BY <1>3, <2>2, <3>2, <3>3, <3>4 DEF AnswerHolds, Answered, Stored, SamePayload
    <3> QED
      BY <1>6, <2>2, <3>5 DEF CallAnswers
  <2> QED
    BY <2>3, <2>4
<1>14. CASE LookupKey(c)
  <2> DEFINE found == FindByKey(txs, cmd[c].key)
             t == CHOOSE x \in found : TRUE
  <2>1. UNCHANGED txs /\ CommittedClash(cmd[c])
    BY <1>14 DEF LookupKey, dbVars, CallAnswers, LooksForSome
  <2>2. CASE found = {}
    <3>1. pc'[c] = "lookupExternal" /\ UNCHANGED reply
      BY <1>2, <1>14, <2>2 DEF LookupKey
    <3>2. FindByExternal(txs, cmd[c].ext) # {}
      BY <2>1, <2>2 DEF CommittedClash, FindByKey, FindByExternal, Clash
    <3>3. NotReversedYet(c)' /\ LooksForSome(c)'
      BY <1>3, <2>1, <3>1, <3>2 DEF NotReversedYet, LooksForSome, FindByExternal, Stored
    <3> QED
      BY <1>4, <3>1, <3>3 DEF CallAnswers
  <2>3. CASE found # {}
    <3>1. t \in found
      BY <2>3
    <3>2. /\ pc'[c] = "done"
          /\ IF SamePayload(txs[t].cmd, cmd[c])
               THEN Returned(c, "ok", t, TRUE)
               ELSE Returned(c, "IDEMPOTENCY_CONFLICT", None, FALSE)
      BY <1>2, <1>14, <2>3 DEF LookupKey
    <3> HIDE DEF t, found
    <3>3. CASE SamePayload(txs[t].cmd, cmd[c])
      <4>1. reply'[c] = [outcome |-> "ok", tx |-> t, replay |-> TRUE]
        BY <1>2, <3>2, <3>3 DEF Returned
      <4>2. t \in Stored(txs) /\ txs[t].cmd.key = cmd[c].key
        BY <3>1 DEF found, FindByKey
      <4>3. SamePayload(cmd[c], txs[t].cmd)
        BY <3>3 DEF SamePayload
      <4>4. AnswerHolds(c)'
        BY <1>3, <2>1, <3>2, <4>1, <4>2, <4>3
        DEF AnswerHolds, Answered, Stored, SamePayload
      <4> QED
        BY <1>6, <3>2, <4>4 DEF CallAnswers
    <3>4. CASE ~SamePayload(txs[t].cmd, cmd[c])
      BY <1>5, <1>6, <3>2, <3>4 DEF CallAnswers
    <3> QED
      BY <3>3, <3>4
  <2> QED
    BY <2>2, <2>3
<1>15. CASE LookupExternal(c)
  <2>1. FindByExternal(txs, cmd[c].ext) # {}
    BY <1>15 DEF LookupExternal, CallAnswers, LooksForSome
  <2>2. pc'[c] = "done" /\ Returned(c, "IDEMPOTENCY_CONFLICT", None, FALSE)
    BY <1>2, <1>15, <2>1 DEF LookupExternal
  <2> QED
    BY <1>5, <1>6, <2>2 DEF CallAnswers
<1>16. CASE AbortCall(c)
  <2>1. Returned(c, "DEADLOCK", None, FALSE) /\ pc'[c] = "done"
    BY <1>7, <1>16 DEF AbortCall
  <2> QED
    BY <1>5, <1>6, <2>1 DEF CallAnswers
<1>17. CASE CrashCall(c)
  <2>1. UNCHANGED reply /\ pc'[c] = "done"
    BY <1>7, <1>17 DEF CrashCall
  <2> QED
    BY <1>4, <1>6, <2>1 DEF CallAnswers
<1> QED
  BY <1>8, <1>9, <1>10, <1>11, <1>12, <1>13, <1>14, <1>15, <1>16, <1>17 DEF CallStep


LEMMA AnswersKept ==
  ASSUME BatchInv, BatchInv', [Next]_vars, StepTables, AnswerInv
  PROVE  AnswerInv'
<1> SUFFICES ASSUME NEW c \in Calls PROVE CallAnswers(c)'
  BY DEF AnswerInv
<1> DEFINE Same ==
      /\ pc'[c] = pc[c] /\ cmd'[c] = cmd[c] /\ seen'[c] = seen[c]
      /\ verdict'[c] = verdict[c] /\ reply'[c] = reply[c]
<1>1. CallAnswers(c)
  BY DEF AnswerInv
<1>2. Same => CallAnswers(c)'
  BY <1>1, OthersAnswer
<1>3. /\ DOMAIN pc = Calls /\ DOMAIN cmd = Calls /\ DOMAIN seen = Calls
      /\ DOMAIN verdict = Calls /\ DOMAIN reply = Calls
  BY DEF BatchInv, LedgerInv, TypeInv, TypeOK, CallTypeOK
<1>4. ASSUME UNCHANGED callVars PROVE Same
  BY <1>4 DEF callVars
<1>5. ASSUME NEW d \in Calls, NEW m \in AllCommands, Begin(d, m) PROVE CallAnswers(c)'
  <2>1. CASE d # c
    <3>1. Same
      BY <1>3, <1>5, <2>1 DEF Begin
    <3> QED
      BY <1>2, <3>1
  <2>2. CASE d = c
    <3>1. pc[c] = "idle" /\ pc'[c] = "lock" /\ UNCHANGED reply
      BY <1>3, <1>5, <2>2 DEF Begin
    <3>2. ~Answered(c) /\ (reply[c] # None => reply[c].outcome # "TRANSIENT_PROCESSING_ERROR")
      BY <1>1, <3>1 DEF CallAnswers, AnswerHolds
    <3> QED
      BY <3>1, <3>2 DEF CallAnswers, AnswerHolds, Answered, NotReversedYet, LooksForSome
  <2> QED
    BY <2>1, <2>2
<1>6. ASSUME NEW d \in Calls, CallStep(d) \/ CrashCall(d) PROVE CallAnswers(c)'
  <2>1. CASE d # c
    <3>1. \A next : EndCall(d, next) =>
            pc'[c] = pc[c] /\ seen'[c] = seen[c] /\ verdict'[c] = verdict[c]
      BY <1>3, <2>1 DEF EndCall
    <3>2. \A o, t, b : Returned(d, o, t, b) => reply'[c] = reply[c]
      BY <1>3, <2>1 DEF Returned
    <3>3. CASE RefuseCommand(d) \/ ClaimConflict(d) \/ AbortCall(d) \/ CrashCall(d)
      BY <1>2, <3>1, <3>2, <3>3
      DEF RefuseCommand, ClaimConflict, AbortCall, CrashCall
    <3>4. CASE LockWallet(d) \/ Claim(d) \/ Resolve(d)
      BY <1>2, <1>3, <2>1, <3>4 DEF LockWallet, Claim, Resolve
    <3>5. CASE Finish(d)
      BY <1>2, <3>1, <3>2, <3>5 DEF Finish
    <3>6. CASE LookupKey(d) \/ LookupExternal(d)
      <4>1. pc'[c] = pc[c] /\ reply'[c] = reply[c] /\ UNCHANGED <<cmd, seen, verdict>>
        BY <1>3, <2>1, <3>2, <3>6 DEF LookupKey, LookupExternal
      <4> QED
        BY <1>2, <4>1
    <3> QED
      BY <1>6, <3>3, <3>4, <3>5, <3>6 DEF CallStep
  <2>2. CASE d = c
    BY <1>1, <1>6, <2>2, OwnAnswer
  <2> QED
    BY <2>1, <2>2
<1>7. ASSUME UNCHANGED callVars PROVE CallAnswers(c)'
  BY <1>2, <1>4, <1>7
<1> QED
  BY <1>5, <1>6, <1>7
  DEF Next, OpenWallet, WorkerStep, CrashWorker, SelectBatch, ResolveItem, ApplyItem,
      CommitBatch, AbortWorker, BecomeDue, vars

-----------------------------------------------------------------------------
(* The theorems                                                            *)

TableInv == BatchInv /\ ReversalInv /\ RowInv /\ OneEntryPerMovement /\ AnswerInv

LEMMA InitTable == Init => TableInv
<1> SUFFICES ASSUME Init PROVE TableInv
  OBVIOUS
<1>1. Stored(txs) = {} /\ \A w \in Wallets : Entry(w) = {}
  BY DEF Init, NoWrites, NoMoves, Stored, Entry
<1>2. ReversalInv /\ RowInv /\ OneEntryPerMovement
  BY <1>1 DEF ReversalInv, ReversalJustified, ReversedOnce, RowInv, RowsDecided,
     AlreadyReversedHasWinner, OneEntryPerMovement
<1>3. AnswerInv
  BY DEF Init, AnswerInv, CallAnswers, NotReversedYet, LooksForSome, AnswerHolds, Answered
<1> QED
  BY <1>2, <1>3, InitBatch DEF TableInv

LEMMA TableInvInductive == TableInv /\ [Next]_vars => TableInv' /\ BatchInv' /\ StepTables
<1> SUFFICES ASSUME TableInv, [Next]_vars PROVE TableInv' /\ BatchInv' /\ StepTables
  OBVIOUS
<1>1. BatchInv /\ BatchInv'
  BY BatchInvInductive DEF TableInv
<1>2. StepTables
  BY <1>1, StepTablesHold
<1> QED
  BY <1>1, <1>2, ReversalsKept, RowsKept, MovementsKept, AnswersKept DEF TableInv

LEMMA TablesHold == Spec => []TableInv
BY InitTable, TableInvInductive, PTL DEF Spec

\* Money moves exactly once per transaction, for its amount and in its
\* direction, and nothing else moves money.
THEOREM MoneyMovesOnce == Spec => []OneEntryPerMovement
<1>1. TableInv => OneEntryPerMovement
  BY DEF TableInv
<1> QED
  BY <1>1, TablesHold, PTL

\* No two reversals of one kind are committed for the same transaction.
THEOREM NobodyReversesTwice == Spec => []ReversedOnce
<1>1. TableInv => ReversedOnce
  BY DEF TableInv, ReversalInv
<1> QED
  BY <1>1, TablesHold, PTL

\* What is reversed was processed, of the same owner and amount, and of a kind
\* that may be reversed, at the commit and ever after.
THEOREM ReversalsStayJustified == Spec => []ReversalJustified
<1>1. TableInv => ReversalJustified
  BY DEF TableInv, ReversalInv
<1> QED
  BY <1>1, TablesHold, PTL

\* No commit leaves a row half decided.
THEOREM CommitsDecide == Spec => []RowsDecided
<1>1. TableInv => RowsDecided
  BY DEF TableInv, RowInv
<1> QED
  BY <1>1, TablesHold, PTL

\* Of reversals that race for a transaction one wins.
THEOREM RacesHaveWinners == Spec => []AlreadyReversedHasWinner
<1>1. TableInv => AlreadyReversedHasWinner
  BY DEF TableInv, RowInv
<1> QED
  BY <1>1, TablesHold, PTL

\* Calls answered under one key agree: each names the one committed row of
\* that key, and at most one of them did the work.
THEOREM AnswersAgree == Spec => []RepliesAgree
<1>1. TableInv => RepliesAgree
  <2> SUFFICES ASSUME TableInv, NEW c \in Calls, NEW d \in Calls,
                      Answered(c), Answered(d), cmd[c].key = cmd[d].key
               PROVE  /\ reply[c].tx = reply[d].tx /\ txs[reply[c].tx] # None
                      /\ SamePayload(cmd[c], txs[reply[c].tx].cmd)
                      /\ (~reply[c].replay /\ ~reply[d].replay) => c = d
    BY DEF RepliesAgree
  <2>1. AnswerHolds(c) /\ AnswerHolds(d) /\ OneRowPerClaim
    BY DEF TableInv, AnswerInv, CallAnswers, BatchInv, ClaimInv
  <2>2. reply[c].tx \in Stored(txs) /\ reply[d].tx \in Stored(txs)
        /\ Clash(txs[reply[c].tx].cmd, txs[reply[d].tx].cmd)
    BY <2>1 DEF AnswerHolds, Clash
  <2>3. reply[c].tx = reply[d].tx
    BY <2>1, <2>2 DEF OneRowPerClaim
  <2> QED
    BY <2>1, <2>2, <2>3 DEF AnswerHolds, Stored
<1> QED
  BY <1>1, TablesHold, PTL

\* A claim is only lost to a row that is there to be found.
THEOREM LosersFindTheWinner == Spec => []NeverTransient
<1>1. TableInv => NeverTransient
  BY DEF TableInv, AnswerInv, CallAnswers, AnswerHolds, NeverTransient
<1> QED
  BY <1>1, TablesHold, PTL

\* Rows and ledgers are append-only, and a wallet's version counts its entries.
THEOREM HistoryIsKept == Spec => HistoryKept
<1> DEFINE Kept ==
      /\ \A t \in Stored(txs) :
           /\ txs'[t] # None /\ txs'[t].cmd = txs[t].cmd
           /\ IsTerminal(txs[t]) => txs'[t] = txs[t]
           /\ txs'[t].attempts >= txs[t].attempts
      /\ \A w \in Wallets :
           /\ Len(ledger'[w]) >= Len(ledger[w])
           /\ \A i \in Entry(w) : ledger'[w][i] = ledger[w][i]
      /\ \A w \in Open :
           /\ wallets'[w] # None
           /\ wallets'[w].version - wallets[w].version
                = Len(ledger'[w]) - Len(ledger[w])
           /\ wallets'[w].balance # wallets[w].balance => ledger'[w] # ledger[w]
<1>1. TableInv /\ [Next]_vars => Kept
  BY TableInvInductive, HistoryStep DEF TableInv
<1> QED
  BY <1>1, TablesHold, PTL DEF Spec, HistoryKept

\* A refusal for insufficient balance rests on the balance of its commit.
THEOREM RefusalsAreCurrent == Spec => RefusalIsCurrent
<1> DEFINE Current ==
      \A c \in Calls :
        (/\ txs[c] = None /\ txs'[c] # None
         /\ txs'[c].failure \in {"INSUFFICIENT_BALANCE",
                                 "ROLLBACK_INSUFFICIENT_BALANCE"}) =>
            wallets[cmd[c].wallet].balance < cmd[c].amount
<1>1. TableInv /\ [Next]_vars => Current
  BY TableInvInductive, RefusalStep DEF TableInv
<1> QED
  BY <1>1, TablesHold, PTL DEF Spec, RefusalIsCurrent
====
