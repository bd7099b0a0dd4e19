---- MODULE WageringBookProofs ----
(***************************************************************************)
(* The core implements the abstract book: every step is a stutter, a       *)
(* wallet opened, one command decided or one set of waiting rows decided,  *)
(* and what is true of every book is true of the tables.                   *)
(***************************************************************************)
EXTENDS WageringBatchProofs

-----------------------------------------------------------------------------
(* The words of the book are those of the domain                           *)

LEMMA SameWords ==
  ASSUME NEW a, NEW b, NEW x
  PROVE  /\ Book!Clash(a, b) <=> Clash(a, b)
         /\ Book!Moves(a) <=> Moves(a)
         /\ Book!SameOwner(a, b) <=> SameOwner(a, b)
         /\ Book!Stored(a) = Stored(a)
         /\ Book!FindByExternal(a, b) = FindByExternal(a, b)
         /\ Book!ProcessedReversals(a, b, x) = ProcessedReversals(a, b, x)
         /\ Book!RefKind(a, b) = RefKind(a, b)
         /\ Book!LedgerDirectionFor(a, b) = LedgerDirectionFor(a, b)
         /\ Book!ReversibleKinds(a) = ReversibleKinds(a)
         /\ Book!Chained(a, b, x) <=> Chained(a, b, x)
         /\ Book!Reversals = Reversals
<1>1. Book!Clash(a, b) <=> Clash(a, b)
  BY DEF Book!Clash, Clash
<1>2. Book!Moves(a) <=> Moves(a)
  BY DEF Book!Moves, Moves, Book!AffectsBalance, AffectsBalance
<1>3. Book!SameOwner(a, b) <=> SameOwner(a, b)
  BY DEF Book!SameOwner, SameOwner
<1>4. Book!Stored(a) = Stored(a) /\ Book!Reversals = Reversals
  BY DEF Book!Stored, Stored, Book!Reversals, Reversals
<1>5. Book!FindByExternal(a, b) = FindByExternal(a, b)
  BY DEF Book!FindByExternal, FindByExternal, Book!Stored, Stored
<1>6. Book!ProcessedReversals(a, b, x) = ProcessedReversals(a, b, x)
  BY DEF Book!ProcessedReversals, ProcessedReversals, Book!Stored, Stored
<1>7. Book!RefKind(a, b) = RefKind(a, b)
  BY DEF Book!RefKind, RefKind
<1>8. Book!LedgerDirectionFor(a, b) = LedgerDirectionFor(a, b)
  BY DEF Book!LedgerDirectionFor, LedgerDirectionFor, Book!Opposite, Opposite,
         Book!Direction, Direction
<1>9. Book!ReversibleKinds(a) = ReversibleKinds(a)
  BY DEF Book!ReversibleKinds, ReversibleKinds
<1>10. Book!Chained(a, b, x) <=> Chained(a, b, x)
  BY DEF Book!Chained, Chained, Book!ExpectedBalanceAfter, ExpectedBalanceAfter
<1> QED
  BY <1>1, <1>2, <1>3, <1>4, <1>5, <1>6, <1>7, <1>8, <1>9, <1>10

\* What a step does, in the words of the core.
LEMMA StepWords ==
  ASSUME NEW t \in TxIds, NEW w \in Wallets
  PROVE  /\ Book!Changed = {u \in TxIds : txs'[u] # txs[u]}
         /\ Book!IsNew(t) <=> txs[t] = None
         /\ Book!Attempts(t) = IF txs[t] = None THEN 0 ELSE txs[t].attempts
         /\ Book!Grown(w) = Len(ledger[w]) + 1 .. Len(ledger'[w])
BY DEF Book!Changed, Book!IsNew, Book!Attempts, Book!Grown

-----------------------------------------------------------------------------
(* What a step must do to be one of the book                               *)

\* A step that appends the entries s to a wallet, one for each row it makes
\* move the wallet, posts them.
LEMMA Posted ==
  ASSUME LedgerInv', NEW w \in Wallets, NEW s \in Seq(Entries),
         ledger[w] \in Seq(Entries), ledger'[w] = ledger[w] \o s,
         \A t \in TxIds :
           (txs'[t] # txs[t] /\ Moves(txs'[t]) /\ txs'[t].cmd.wallet = w) =>
             \E i \in 1 .. Len(s) : s[i].tx = t,
         \A i \in 1 .. Len(s) :
           /\ s[i].tx \in TxIds /\ txs'[s[i].tx] # txs[s[i].tx]
           /\ txs'[s[i].tx].cmd.wallet = w
           /\ Matches(s[i], txs'[s[i].tx], txs')
           /\ \A j \in 1 .. Len(s) : s[j].tx = s[i].tx => i = j
  PROVE  Book!Posts(w)
<1> DEFINE u == ledger[w]
           z == ledger'[w]
           n == Len(u)
<1>1. u \in Seq(Entries) /\ s \in Seq(Entries) /\ z = u \o s
  OBVIOUS
<1>2. \A t \in TxIds :
        (txs'[t] # txs[t] /\ Moves(txs'[t]) /\ txs'[t].cmd.wallet = w) =>
          \E i \in 1 .. Len(s) : s[i].tx = t
  OBVIOUS
<1>3. \A i \in 1 .. Len(s) :
        /\ s[i].tx \in TxIds /\ txs'[s[i].tx] # txs[s[i].tx]
        /\ txs'[s[i].tx].cmd.wallet = w
        /\ Matches(s[i], txs'[s[i].tx], txs')
        /\ \A j \in 1 .. Len(s) : s[j].tx = s[i].tx => i = j
  OBVIOUS
<1> HIDE DEF u, z
<1>4. n \in Nat /\ Len(s) \in Nat /\ Len(z) = n + Len(s)
  BY <1>1
<1>5. \A i \in 1 .. n : i <= Len(z) /\ z[i] = u[i]
  BY <1>1, <1>4
<1>6. \A i \in n + 1 .. Len(z) : i - n \in 1 .. Len(s) /\ z[i] = s[i - n]
  BY <1>1, <1>4
<1>7. \A i \in 1 .. Len(s) : n + i \in n + 1 .. Len(z) /\ z[n + i] = s[i]
  BY <1>1, <1>4
<1>8. Book!Changed = {t \in TxIds : txs'[t] # txs[t]} /\ Book!Grown(w) = n + 1 .. Len(z)
  BY DEF Book!Changed, Book!Grown, u, z
<1>9. ASSUME NEW i \in n + 1 .. Len(z)
      PROVE  LET t == z[i].tx IN
             /\ t \in Book!Changed /\ Moves(txs'[t]) /\ txs'[t].cmd.wallet = w
             /\ Book!Records(w, i, t)
             /\ \A j \in n + 1 .. Len(z) : z[j].tx = t => i = j
  <2> DEFINE t == z[i].tx
             a == i - n
  <2>1. a \in 1 .. Len(s) /\ z[i] = s[a]
    BY <1>6
  <2>2. /\ t \in TxIds /\ txs'[t] # txs[t] /\ txs'[t].cmd.wallet = w
        /\ Matches(z[i], txs'[t], txs')
    BY <1>3, <2>1
  <2>3. Book!Records(w, i, t)
    <3> DEFINE kind == txs'[t].cmd.kind
               ref == txs'[t].refTx
    <3>1. /\ z[i].amount = txs'[t].cmd.amount
          /\ z[i].dir = LedgerDirectionFor(kind, RefKind(txs', ref))
      BY <2>2 DEF Matches
    <3>2. Book!RefKind(txs', ref) = RefKind(txs', ref)
      BY DEF Book!RefKind, RefKind
    <3>3. z[i].dir = Book!LedgerDirectionFor(kind, Book!RefKind(txs', ref))
      BY <3>1, <3>2
      DEF Book!LedgerDirectionFor, LedgerDirectionFor, Book!Opposite, Opposite,
          Book!Direction, Direction
    <3> QED
      BY <3>1, <3>3 DEF Book!Records, z
  <2>4. ASSUME NEW j \in n + 1 .. Len(z), z[j].tx = t PROVE i = j
    <3>1. j - n \in 1 .. Len(s) /\ z[j] = s[j - n]
      BY <1>6
    <3>2. a = j - n
      BY <1>3, <2>1, <2>4, <3>1
    <3> QED
      BY <1>4, <3>2
  <2> QED
    BY <1>8, <2>2, <2>3, <2>4 DEF Matches
<1>10. ASSUME NEW t \in TxIds, txs'[t] # txs[t], Moves(txs'[t]), txs'[t].cmd.wallet = w
       PROVE  \E i \in n + 1 .. Len(z) : Book!Records(w, i, t)
  <2>1. PICK a \in 1 .. Len(s) : s[a].tx = t
    BY <1>2, <1>10
  <2>2. n + a \in n + 1 .. Len(z) /\ z[n + a].tx = t
    BY <1>7, <2>1
  <2> QED
    BY <1>9, <2>2
<1>11. wallets'[w] # None => Book!Chained(z, 0, wallets'[w].balance)
  <2>1. wallets'[w] # None => Chained(ledger'[w], 0, wallets'[w].balance)
    BY DEF LedgerInv, LedgerChain, Open, Chained
  <2> QED
    BY <2>1, SameWords DEF z
<1> QED
  BY <1>5, <1>8, <1>9, <1>10, <1>11, SameWords DEF Book!Posts, u, z


-----------------------------------------------------------------------------
(* A row that is decided, in the words of the core                         *)

Tried(t) == IF txs[t] = None THEN 0 ELSE txs[t].attempts

GoesOnWaiting(t, row) ==
  /\ row.status = "PENDING_REFERENCE" /\ row.failure = None
  /\ row.cmd.kind \in Reversals /\ row.attempts = Tried(t) + 1

IsProcessed(t, row, table) ==
  /\ row.status = "PROCESSED" /\ row.failure = None /\ row.attempts = Tried(t)
  /\ row.cmd.kind \in Reversals =>
       /\ MayReverse(table, row.cmd, row.refTx)
       /\ ProcessedReversals(table, row.refTx, row.cmd.kind) = {t}

IsRejected(t, row, table) ==
  /\ row.status = "REJECTED" /\ row.attempts = Tried(t)
  /\ \/ row.failure = "REFERENCE_RESOLUTION_TIMEOUT" /\ row.attempts = MaxAttempts
     \/ Refused(table, row.cmd, row.failure)
     \/ Book!RefusedByWallet(row.cmd, row.failure)

\* A row that was new or waiting, and has one of these outcomes, is decided.
LEMMA IsDecided ==
  ASSUME TypeInv', OneRowPerClaim', NEW t \in TxIds, txs'[t] # None,
         txs[t] # None =>
           txs[t].status = "PENDING_REFERENCE" /\ txs'[t].cmd = txs[t].cmd,
         \/ GoesOnWaiting(t, txs'[t])
         \/ IsProcessed(t, txs'[t], txs')
         \/ IsRejected(t, txs'[t], txs')
  PROVE  Book!Decides(t)
<1> DEFINE row == txs'[t]
<1>1. row \in Rows
  BY DEF TypeInv, TypeOK, DbTypeOK
<1>2. Book!Attempts(t) = Tried(t) /\ (Book!IsNew(t) <=> txs[t] = None)
  BY DEF Book!Attempts, Book!IsNew, Tried
<1>3. ASSUME NEW u \in Book!Stored(txs'), Book!Clash(txs'[u].cmd, txs'[t].cmd)
      PROVE  u = t
  <2>1. DOMAIN txs' = TxIds
    BY DEF TypeInv, TypeOK, DbTypeOK
  <2>2. u \in Stored(txs') /\ t \in Stored(txs')
    BY <1>3, <2>1 DEF Book!Stored, Stored
  <2>3. Clash(txs'[u].cmd, txs'[t].cmd)
    BY <1>3 DEF Book!Clash, Clash
  <2> QED
    BY <2>2, <2>3 DEF OneRowPerClaim
<1>4. CASE GoesOnWaiting(t, row)
  <2>1. row.attempts <= MaxAttempts
    BY <1>1, BoundsAssumption DEF Rows
  <2>2. Book!Waits(t)
    BY <1>2, <1>4, <2>1 DEF Book!Waits, GoesOnWaiting, Book!Reversals, Reversals
  <2> QED
    BY <1>2, <1>3, <2>2 DEF Book!Decides
<1>5. CASE IsProcessed(t, row, txs')
  <2>1. ASSUME row.cmd.kind \in Reversals PROVE Book!Reverses(txs', t)
    <3> DEFINE m == row.cmd
               r == row.refTx
    <3>1. MayReverse(txs', m, r) /\ ProcessedReversals(txs', r, m.kind) = {t}
      BY <1>5, <2>1 DEF IsProcessed
    <3>2. r \in Book!FindByExternal(txs', m.ref)
      BY <3>1 DEF MayReverse, Book!FindByExternal, FindByExternal, Book!Stored, Stored
    <3>3. Book!ProcessedReversals(txs', r, m.kind) = {t}
      BY <3>1 DEF Book!ProcessedReversals, ProcessedReversals, Book!Stored, Stored
    <3>4. Book!SameOwner(m, txs'[r].cmd)
      BY <3>1 DEF MayReverse, Book!SameOwner, SameOwner
    <3>5. txs'[r].cmd.kind \in Book!ReversibleKinds(m.kind)
      BY <3>1 DEF MayReverse, Book!ReversibleKinds, ReversibleKinds
    <3> QED
      BY <3>1, <3>2, <3>3, <3>4, <3>5 DEF Book!Reverses, MayReverse
  <2>2. Book!Processes(t)
    BY <1>2, <1>5, <2>1 DEF Book!Processes, IsProcessed, Book!Reversals, Reversals
  <2> QED
    BY <1>2, <1>3, <2>2 DEF Book!Decides
<1>6. CASE IsRejected(t, row, txs')
  <2>1. ASSUME Refused(txs', row.cmd, row.failure)
        PROVE  \E r \in Book!FindByExternal(txs', row.cmd.ref) :
                 Book!RefusedBy(txs', row.cmd, r, row.failure)
    <3>1. FindByExternal(txs', row.cmd.ref) = Book!FindByExternal(txs', row.cmd.ref)
      BY DEF Book!FindByExternal, FindByExternal, Book!Stored, Stored
    <3> QED
      BY <2>1, <3>1 DEF Refused
  <2>2. Book!Rejects(t)
    BY <1>2, <1>6, <2>1 DEF Book!Rejects, IsRejected
  <2> QED
    BY <1>2, <1>3, <2>2 DEF Book!Decides
<1> QED
  BY <1>4, <1>5, <1>6


-----------------------------------------------------------------------------
(* A call decides its command                                              *)

Commits(c, e) ==
  /\ pc[c] = "finish" /\ e = CallEffect(c) /\ e.error = None
  /\ ~ViolatesReferenceOnce(txs, c, e.row)
  /\ txs' = [txs EXCEPT ![c] = e.row]
  /\ wallets' = [wallets EXCEPT ![cmd[c].wallet] = e.wallet]
  /\ ledger' = [ledger EXCEPT ![cmd[c].wallet] = @ \o e.entries]

LEMMA CommitFacts ==
  ASSUME BatchInv, NEW c \in Calls, NEW e, Commits(c, e)
  PROVE  LET w == cmd[c].wallet IN
         /\ c \in TxIds /\ txs[c] = None /\ TypeInv /\ w \in Wallets
         /\ e.row \in Rows /\ e.row # None /\ e.row.cmd = cmd[c]
         /\ e.wallet \in WalletRows /\ e.entries \in Seq(Entries)
         /\ seen[c] = wallets[w] /\ wallets[w] \in WalletRows
         /\ CallWaits(c, e.row) \/ CallProcesses(c, e.row) \/ CallRejects(c, e.row)
         /\ CallMoves(c, e) \/ CallStays(c, e)
         /\ \A t \in TxIds : txs'[t] = IF t = c THEN e.row ELSE txs[t]
         /\ \A v \in Wallets :
              IF v = w
                THEN wallets'[v] = e.wallet /\ ledger'[v] = ledger[v] \o e.entries
                ELSE wallets'[v] = wallets[v] /\ ledger'[v] = ledger[v]
<1> DEFINE w == cmd[c].wallet
<1>1. c \in TxIds /\ txs[c] = None /\ TypeInv
  BY NotYetStored DEF BatchInv, LedgerInv, InFlight, Commits
<1>2. w \in Wallets
  BY <1>1, CommandsAssumption DEF TypeInv, CallReady, Commits
<1>3. /\ e.row \in Rows /\ e.row # None /\ e.row.cmd = cmd[c]
      /\ e.wallet \in WalletRows /\ e.entries \in Seq(Entries)
  BY <1>1, CallEffectType, RowAssumption DEF Commits
<1>4. seen[c] = wallets[w] /\ wallets[w] \in WalletRows
  BY <1>1, <1>2 DEF BatchInv, LedgerInv, LockInv, SeenIsCurrent, InTransaction, Commits,
     TypeInv, TypeOK, DbTypeOK
<1>5. /\ CallWaits(c, e.row) \/ CallProcesses(c, e.row) \/ CallRejects(c, e.row)
      /\ CallMoves(c, e) \/ CallStays(c, e)
  BY CallOutcome DEF Commits
<1>6. \A t \in TxIds : txs'[t] = IF t = c THEN e.row ELSE txs[t]
  BY <1>1 DEF Commits, TypeInv, TypeOK, DbTypeOK
<1>7. \A v \in Wallets :
        IF v = w
          THEN wallets'[v] = e.wallet /\ ledger'[v] = ledger[v] \o e.entries
          ELSE wallets'[v] = wallets[v] /\ ledger'[v] = ledger[v]
  BY <1>1, <1>2 DEF Commits, TypeInv, TypeOK, DbTypeOK
<1> QED
  BY <1>1, <1>2, <1>3, <1>4, <1>5, <1>6, <1>7

\* The view the call resolved its reference on is kept by what it commits.
LEMMA CommitExtendsView ==
  ASSUME BatchInv, TypeInv', NEW c \in Calls, NEW e, Commits(c, e)
  PROVE  /\ CallView(c) \in Tables /\ txs' \in Tables
         /\ Extends(CallView(c), txs') /\ CallView(c)[c].status = "PENDING"
         /\ \A t \in TxIds \ {c} : CallView(c)[t] = txs'[t] /\ txs'[t] = txs[t]
<1>1. /\ CallView(c) \in Tables /\ c \in TxIds
      /\ \A t \in TxIds : CallView(c)[t] = IF t = c THEN NewRow(cmd[c]) ELSE txs[t]
  BY CommitFacts, CallViewType DEF Commits
<1>2. /\ e.row # None /\ e.row.cmd = cmd[c]
      /\ \A t \in TxIds : txs'[t] = IF t = c THEN e.row ELSE txs[t]
  BY CommitFacts
<1>3. txs' \in Tables
  BY DEF TypeInv, TypeOK, DbTypeOK, Tables
<1>4. CallView(c)[c].status = "PENDING" /\ CallView(c)[c].cmd = cmd[c]
  BY <1>1 DEF NewRow
<1>5. Extends(CallView(c), txs')
  BY <1>1, <1>2, <1>4 DEF Extends, IsTerminal, TerminalStatuses
<1> QED
  BY <1>1, <1>2, <1>3, <1>4, <1>5

LEMMA CommitDecides ==
  ASSUME BatchInv, BatchInv', NEW c \in Calls, NEW e, Commits(c, e)
  PROVE  Book!Decides(c)
<1> DEFINE w == cmd[c].wallet
           m == cmd[c]
           row == e.row
<1>1. TypeInv' /\ OneRowPerClaim'
  BY DEF BatchInv, LedgerInv, ClaimInv
<1>2. /\ c \in TxIds /\ txs[c] = None /\ TypeInv /\ w \in Wallets
      /\ row \in Rows /\ row # None /\ row.cmd = m
      /\ seen[c] = wallets[w] /\ txs'[c] = row
      /\ CallWaits(c, row) \/ CallProcesses(c, row) \/ CallRejects(c, row)
      /\ \A t \in TxIds : txs'[t] = IF t = c THEN row ELSE txs[t]
  BY CommitFacts
<1>3. CallView(c) \in Tables /\ txs' \in Tables /\ Extends(CallView(c), txs')
  BY <1>1, CommitExtendsView
<1>4. Tried(c) = 0
  BY <1>2 DEF Tried
<1> HIDE DEF w, m, row
<1>5. CASE CallWaits(c, row)
  <2>1. GoesOnWaiting(c, row)
    BY <1>2, <1>4, <1>5 DEF CallWaits, GoesOnWaiting, m
  <2> QED
    BY <1>1, <1>2, <2>1, IsDecided
<1>6. CASE CallProcesses(c, row)
  <2> DEFINE r == row.refTx
  <2>1. ASSUME m.kind \in Reversals
        PROVE  MayReverse(txs', m, r) /\ ProcessedReversals(txs', r, m.kind) = {c}
    <3>1. MayReverse(CallView(c), m, r) /\ ProcessedReversals(txs, r, m.kind) = {}
      BY <1>6, <2>1 DEF CallProcesses, m
    <3>2. MayReverse(txs', m, r)
      BY <1>3, <3>1, MayReverseKept
    <3>3. row.status = "PROCESSED"
      BY <1>6 DEF CallProcesses
    <3>4. DOMAIN txs' = TxIds /\ DOMAIN txs = TxIds
      BY <1>1, <1>2 DEF TypeInv, TypeOK, DbTypeOK
    <3>5. ProcessedReversals(txs', r, m.kind) = {c}
      BY <1>2, <3>1, <3>3, <3>4 DEF ProcessedReversals, Stored
    <3> QED
      BY <3>2, <3>5
  <2>2. IsProcessed(c, row, txs')
    BY <1>2, <1>4, <1>6, <2>1 DEF CallProcesses, IsProcessed
  <2> QED
    BY <1>1, <1>2, <2>2, IsDecided
<1>7. CASE CallRejects(c, row)
  <2>1. ASSUME Refused(CallView(c), m, row.failure) PROVE Refused(txs', m, row.failure)
    BY <1>3, <2>1, RefusedKept
  <2>2. ASSUME WalletSays(m, seen[c], row.failure)
        PROVE  Book!RefusedByWallet(m, row.failure)
    <3>1. wallets[w].balance \in Book!Balances(w)
      BY DEF Book!Balances
    <3> QED
      BY <1>2, <2>2, <3>1 DEF WalletSays, Book!RefusedByWallet, w, m
  <2>3. IsRejected(c, row, txs')
    BY <1>2, <1>4, <1>7, <2>1, <2>2 DEF CallRejects, IsRejected, m
  <2> QED
    BY <1>1, <1>2, <2>3, IsDecided
<1> QED
  BY <1>2, <1>5, <1>6, <1>7


\* The one entry of a call is in the direction of the table it leaves behind.
LEMMA CommitMatches ==
  ASSUME BatchInv, TypeInv', NEW c \in Calls, NEW e, Commits(c, e), CallMoves(c, e)
  PROVE  Matches(e.entries[1], txs'[c], txs')
<1> DEFINE m == cmd[c]
           row == e.row
           r == row.refTx
<1>1. /\ row \in Rows /\ row.cmd = m /\ txs'[c] = row /\ c \in TxIds
      /\ CallWaits(c, row) \/ CallProcesses(c, row) \/ CallRejects(c, row)
  BY CommitFacts
<1>2. /\ Moves(row) /\ e.entries[1].amount = m.amount
      /\ e.entries[1].dir = LedgerDirectionFor(m.kind, RefKind(txs, r))
  BY DEF CallMoves
<1>3. LedgerDirectionFor(m.kind, RefKind(txs, r))
        = LedgerDirectionFor(m.kind, RefKind(txs', r))
  <2>1. CASE m.kind \notin Reversals
    BY <2>1 DEF Reversals, LedgerDirectionFor
  <2>2. CASE m.kind \in Reversals
    <3>1. MayReverse(CallView(c), m, r)
      BY <1>1, <1>2, <2>2 DEF Moves, CallWaits, CallProcesses, CallRejects
    <3>2. /\ CallView(c) \in Tables /\ CallView(c)[c].status = "PENDING"
          /\ \A t \in TxIds \ {c} : txs'[t] = txs[t]
      BY CommitExtendsView
    <3>3. r \in TxIds /\ r # c
      BY <3>1, <3>2 DEF MayReverse, FindByExternal, Stored, Tables
    <3>4. txs'[r] = txs[r]
      BY <3>2, <3>3
    <3> QED
      BY <3>4 DEF RefKind
  <2> QED
    BY <2>1, <2>2
<1> QED
  BY <1>1, <1>2, <1>3 DEF Matches

LEMMA CommitPosts ==
  ASSUME BatchInv, BatchInv', NEW c \in Calls, NEW e, Commits(c, e), NEW v \in Wallets
  PROVE  Book!Posts(v)
<1> DEFINE w == cmd[c].wallet
           s == IF v = w THEN e.entries ELSE <<>>
           u == ledger[v]
<1>1. LedgerInv' /\ TypeInv'
  BY DEF BatchInv, LedgerInv
<1>2. /\ c \in TxIds /\ txs[c] = None /\ TypeInv /\ e.row # None /\ e.row.cmd = cmd[c]
      /\ e.entries \in Seq(Entries) /\ (CallMoves(c, e) \/ CallStays(c, e))
      /\ \A t \in TxIds : txs'[t] = IF t = c THEN e.row ELSE txs[t]
  BY CommitFacts
<1>3. u \in Seq(Entries)
  <2>1. TypeInv
    BY <1>2
  <2> QED
    BY <2>1 DEF TypeInv, TypeOK, DbTypeOK
<1>4. s \in Seq(Entries) /\ ledger'[v] = u \o s
  <2>1. IF v = w
          THEN wallets'[v] = e.wallet /\ ledger'[v] = u \o e.entries
          ELSE wallets'[v] = wallets[v] /\ ledger'[v] = u
    BY CommitFacts
  <2>2. CASE v = w
    BY <1>2, <2>1, <2>2
  <2>3. CASE v # w
    <3>1. s = <<>> /\ ledger'[v] = u
      BY <2>1, <2>3
    <3> HIDE DEF u, s
    <3> QED
      BY <1>3, <3>1
  <2> QED
    BY <2>2, <2>3
<1>5. \A t \in TxIds :
        (txs'[t] # txs[t] /\ Moves(txs'[t]) /\ txs'[t].cmd.wallet = v) =>
          \E i \in 1 .. Len(s) : s[i].tx = t
  <2> SUFFICES ASSUME NEW t \in TxIds, txs'[t] # txs[t], Moves(txs'[t]),
                      txs'[t].cmd.wallet = v
               PROVE  \E i \in 1 .. Len(s) : s[i].tx = t
    OBVIOUS
  <2>1. t = c /\ v = w /\ Moves(e.row)
    BY <1>2
  <2>2. Len(s) = 1 /\ s[1].tx = t
    BY <1>2, <2>1 DEF CallMoves, CallStays
  <2> QED
    BY <2>2
<1>6. \A i \in 1 .. Len(s) :
        /\ s[i].tx \in TxIds /\ txs'[s[i].tx] # txs[s[i].tx]
        /\ txs'[s[i].tx].cmd.wallet = v
        /\ Matches(s[i], txs'[s[i].tx], txs')
        /\ \A j \in 1 .. Len(s) : s[j].tx = s[i].tx => i = j
  <2> SUFFICES ASSUME NEW i \in 1 .. Len(s)
               PROVE  /\ s[i].tx \in TxIds /\ txs'[s[i].tx] # txs[s[i].tx]
                      /\ txs'[s[i].tx].cmd.wallet = v
                      /\ Matches(s[i], txs'[s[i].tx], txs')
                      /\ \A j \in 1 .. Len(s) : s[j].tx = s[i].tx => i = j
    OBVIOUS
  <2>1. s # <<>>
    BY DEF s
  <2>2. v = w /\ s = e.entries
    BY <2>1
  <2> HIDE DEF s
  <2>5. CallMoves(c, e)
    BY <1>2, <2>1, <2>2 DEF CallStays
  <2>3. Len(s) = 1 /\ i = 1 /\ s[1].tx = c
    BY <2>2, <2>5 DEF CallMoves
  <2>4. Matches(s[1], txs'[c], txs')
    BY <1>1, <2>2, <2>5, CommitMatches
  <2> QED
    BY <1>2, <2>2, <2>3, <2>4
<1> HIDE DEF s
<1> QED
  BY <1>1, <1>3, <1>4, <1>5, <1>6, Posted

LEMMA CommitCounts ==
  ASSUME BatchInv, BatchInv', NEW c \in Calls, NEW e, Commits(c, e), NEW v \in Wallets
  PROVE  Book!Counts(v)
<1> DEFINE w == cmd[c].wallet
           u == ledger[v]
           old == wallets[v]
<1>1. /\ TypeInv /\ e.entries \in Seq(Entries) /\ (CallMoves(c, e) \/ CallStays(c, e))
      /\ seen[c] = wallets[w] /\ wallets[w] \in WalletRows /\ w \in Wallets
      /\ IF v = w
           THEN wallets'[v] = e.wallet /\ ledger'[v] = u \o e.entries
           ELSE wallets'[v] = wallets[v] /\ ledger'[v] = ledger[v]
  BY CommitFacts
<1>2. u \in Seq(Entries) /\ Len(u) \in Nat
  BY <1>1 DEF TypeInv, TypeOK, DbTypeOK
<1>3. CASE v # w
  <2>1. wallets'[v] = old /\ ledger'[v] = u /\ old \in WalletRows \cup {None}
    BY <1>1, <1>3 DEF TypeInv, TypeOK, DbTypeOK
  <2>2. ASSUME old \in WalletRows
        PROVE  old = [old EXCEPT !.balance = old.balance,
                                 !.version = @ + Len(u) - Len(u)]
    <3>1. old.version + Len(u) - Len(u) = old.version
      BY <1>2, <2>2 DEF WalletRows
    <3> QED
      BY <2>2, <3>1 DEF WalletRows
  <2> QED
    BY <2>1, <2>2 DEF Book!Counts
<1>4. CASE v = w
  <2>1. old \in WalletRows /\ old # None /\ seen[c] = old /\ wallets'[v] = e.wallet
        /\ ledger'[v] = u \o e.entries
    BY <1>1, <1>4, RowAssumption
  <2> DEFINE n == Len(e.entries)
  <2>2. Len(ledger'[v]) = Len(u) + n /\ n \in Nat
    BY <1>1, <1>2, <2>1
  <2>3. e.wallet = [old EXCEPT !.balance = e.wallet.balance, !.version = @ + n]
    <3>1. CASE CallMoves(c, e)
      BY <2>1, <3>1 DEF CallMoves
    <3>2. CASE CallStays(c, e)
      <4>1. e.wallet = old /\ n = 0
        BY <2>1, <3>2 DEF CallStays
      <4>2. old.version + 0 = old.version
        BY <2>1 DEF WalletRows
      <4> QED
        BY <2>1, <4>1, <4>2 DEF WalletRows
    <3> QED
      BY <1>1, <3>1, <3>2
  <2>4. old.version + Len(ledger'[v]) - Len(u) = old.version + n
    BY <1>2, <2>1, <2>2 DEF WalletRows
  <2> QED
    BY <2>1, <2>3, <2>4 DEF Book!Counts
<1> QED
  BY <1>3, <1>4

LEMMA FinishSubmits ==
  ASSUME BatchInv, BatchInv', NEW c \in Calls, Finish(c)
  PROVE  Book!Next \/ UNCHANGED <<wallets, txs, ledger>>
<1> DEFINE e == CallEffect(c)
<1>1. Commits(c, e) \/ UNCHANGED <<wallets, txs, ledger>>
  BY DEF Finish, Commits, dbVars
<1> HIDE DEF e
<1>2. CASE Commits(c, e)
  <2>1. /\ c \in TxIds /\ txs[c] = None /\ e.row # None
        /\ \A t \in TxIds : txs'[t] = IF t = c THEN e.row ELSE txs[t]
    BY <1>2, CommitFacts
  <2>2. Book!Changed = {c} /\ Book!IsNew(c)
    BY <2>1 DEF Book!Changed, Book!IsNew
  <2>3. Book!Decides(c) /\ \A v \in Wallets : Book!Posts(v) /\ Book!Counts(v)
    BY <1>2, CommitDecides, CommitPosts, CommitCounts
  <2>4. Book!Submit(c)
    BY <2>2, <2>3 DEF Book!Submit, Book!Settle
  <2> QED
    BY <2>1, <2>4 DEF Book!Next
<1> QED
  BY <1>1, <1>2


-----------------------------------------------------------------------------
(* A batch decides its rows together                                       *)

LEMMA BatchFacts ==
  ASSUME BatchInv, NEW k \in Workers, CommitBatch(k)
  PROVE  /\ TypeInv /\ txs' = WorkerView(k)
         /\ \A w \in Wallets :
              /\ wallets'[w] = IF copy[k][w] # None THEN copy[k][w] ELSE wallets[w]
              /\ ledger'[w] = ledger[w] \o moved[k][w]
              /\ ledger[w] \in Seq(Entries) /\ moved[k][w] \in Seq(Entries)
         /\ \A t \in TxIds : written[k][t] # None => txs'[t] = written[k][t]
<1>1. TypeInv
  BY DEF BatchInv, LedgerInv
<1>2. \A w \in Wallets : ledger[w] \in Seq(Entries) /\ moved[k][w] \in Seq(Entries)
  BY <1>1 DEF TypeInv, TypeOK, DbTypeOK, WorkerTypeOK
<1>3. \A t \in TxIds : written[k][t] # None => WorkerView(k)[t] = written[k][t]
  BY DEF WorkerView
<1> QED
  BY <1>1, <1>2, <1>3 DEF CommitBatch

\* The entries a batch appends show every balance it went through.
LEMMA BatchBalances ==
  ASSUME BatchInv, NEW k \in Workers, CommitBatch(k), NEW w \in Wallets
  PROVE  /\ wallets[w].balance \in Book!Balances(w)
         /\ \A i \in 1 .. Len(moved[k][w]) : moved[k][w][i].after \in Book!Balances(w)
<1> DEFINE u == ledger[w]
           s == moved[k][w]
           z == ledger'[w]
           n == Len(u)
<1>1. u \in Seq(Entries) /\ s \in Seq(Entries) /\ z = u \o s
  BY BatchFacts
<1>2. ASSUME NEW i \in 1 .. Len(s) PROVE s[i].after \in Book!Balances(w)
  <2> HIDE DEF u, s, z
  <2>1. n \in Nat /\ n + i \in n + 1 .. Len(z) /\ z[n + i] = s[i]
    BY <1>1
  <2> QED
    BY <2>1 DEF Book!Balances, Book!Grown, u, z
<1> QED
  BY <1>2 DEF Book!Balances

LEMMA BatchDecides ==
  ASSUME BatchInv, BatchInv', NEW k \in Workers, CommitBatch(k), NEW t \in TxIds,
         txs'[t] # txs[t]
  PROVE  Book!Decides(t) /\ txs[t] # None
<1> DEFINE row == txs'[t]
           w == row.cmd.wallet
<1>1. TypeInv' /\ OneRowPerClaim'
  BY DEF BatchInv, LedgerInv, ClaimInv
<1>2. /\ txs' = WorkerView(k) /\ written[k][t] # None /\ row = written[k][t]
      /\ txs[t].status = "PENDING_REFERENCE" /\ row.cmd.kind \in Reversals
      /\ w \in Wallets
      /\ ItemWaits(k, t) \/ ItemProcessed(k, t) \/ ItemRejected(k, t)
  BY CommitExtends
<1>3. /\ txs[t] \in Rows /\ row \in Rows /\ txs[t] # None /\ row # None
      /\ row.cmd = txs[t].cmd
  BY <1>2, UpdatedWaits, RowAssumption
<1>4. Tried(t) = txs[t].attempts
  BY <1>3 DEF Tried
<1> HIDE DEF row, w
<1>5. CASE ItemWaits(k, t)
  <2>1. GoesOnWaiting(t, row)
    BY <1>2, <1>4, <1>5 DEF ItemWaits, GoesOnWaiting
  <2> QED
    BY <1>1, <1>2, <1>3, <2>1, IsDecided DEF row
<1>6. CASE ItemProcessed(k, t)
  <2>1. IsProcessed(t, row, WorkerView(k))
    BY <1>2, <1>4, <1>6 DEF ItemProcessed, IsProcessed
  <2>2. IsProcessed(t, row, txs')
    BY <1>2, <2>1
  <2> QED
    BY <1>1, <1>2, <1>3, <2>2, IsDecided DEF row
<1>7. CASE ItemRejected(k, t)
  <2> DEFINE code == row.failure
  <2>1. ASSUME WalletRefuses(k, row.cmd, code) PROVE Book!RefusedByWallet(row.cmd, code)
    <3>1. /\ wallets[w].balance \in Book!Balances(w)
          /\ \A i \in 1 .. Len(moved[k][w]) : moved[k][w][i].after \in Book!Balances(w)
      BY <1>2, BatchBalances
    <3> QED
      BY <2>1, <3>1 DEF WalletRefuses, Book!RefusedByWallet, w
  <2>2. IsRejected(t, row, WorkerView(k))
    BY <1>2, <1>4, <1>7, <2>1 DEF ItemRejected, IsRejected
  <2>3. IsRejected(t, row, txs')
    BY <1>2, <2>2
  <2> QED
    BY <1>1, <1>2, <1>3, <2>3, IsDecided DEF row
<1> QED
  BY <1>2, <1>3, <1>5, <1>6, <1>7

LEMMA BatchPosts ==
  ASSUME BatchInv, BatchInv', NEW k \in Workers, CommitBatch(k), NEW w \in Wallets
  PROVE  Book!Posts(w)
<1> DEFINE s == moved[k][w]
<1>1. LedgerInv' /\ TypeInv /\ MovesRecorded(k)
  BY DEF BatchInv, LedgerInv, DecisionInv, WorkerInv
<1>2. /\ s \in Seq(Entries) /\ ledger[w] \in Seq(Entries) /\ ledger'[w] = ledger[w] \o s
  BY BatchFacts
<1>10. \A t \in TxIds : (written[k][t] # None /\ Moves(written[k][t])) =>
          \E i \in 1 .. Len(moved[k][written[k][t].cmd.wallet]) :
            moved[k][written[k][t].cmd.wallet][i].tx = t
  BY <1>1 DEF MovesRecorded
<1>3. \A t \in TxIds :
        (txs'[t] # txs[t] /\ Moves(txs'[t]) /\ txs'[t].cmd.wallet = w) =>
          \E i \in 1 .. Len(s) : s[i].tx = t
  <2> SUFFICES ASSUME NEW t \in TxIds, txs'[t] # txs[t], Moves(txs'[t]),
                      txs'[t].cmd.wallet = w
               PROVE  \E i \in 1 .. Len(s) : s[i].tx = t
    OBVIOUS
  <2>1. written[k][t] # None /\ txs'[t] = written[k][t]
    BY CommitExtends
  <2>2. Moves(written[k][t]) /\ written[k][t].cmd.wallet = w
    BY <2>1
  <2> QED
    BY <1>10, <2>1, <2>2
<1>4. ASSUME NEW i \in 1 .. Len(s)
      PROVE  /\ s[i].tx \in TxIds /\ txs'[s[i].tx] # txs[s[i].tx]
             /\ txs'[s[i].tx].cmd.wallet = w
             /\ Matches(s[i], txs'[s[i].tx], txs')
             /\ \A j \in 1 .. Len(s) : s[j].tx = s[i].tx => i = j
  <2> DEFINE t == s[i].tx
  <2>1. t \in TxIds
    BY <1>1, MovedType
  <2>2. /\ written[k][t] # None /\ written[k][t].cmd.wallet = w
        /\ Matches(s[i], written[k][t], WorkerView(k))
        /\ \A j \in 1 .. Len(s) : s[j].tx = t => i = j
    BY <1>1 DEF MovesRecorded
  <2>3. txs'[t] = written[k][t] /\ txs' = WorkerView(k)
    BY <2>1, <2>2, BatchFacts
  <2>4. txs[t].status = "PENDING_REFERENCE" /\ written[k][t].status = "PROCESSED"
    BY <2>1, <2>2, UpdatedWaits DEF Matches, Moves
  <2> HIDE DEF s, t
  <2>5. txs'[t] # txs[t] /\ Matches(s[i], txs'[t], txs') /\ txs'[t].cmd.wallet = w
    BY <2>2, <2>3, <2>4
  <2> QED
    BY <2>1, <2>2, <2>5 DEF t
<1> HIDE DEF s
<1> QED
  BY <1>1, <1>2, <1>3, <1>4, Posted

LEMMA BatchCounts ==
  ASSUME BatchInv, BatchInv', NEW k \in Workers, CommitBatch(k), NEW w \in Wallets
  PROVE  Book!Counts(w)
<1> DEFINE u == ledger[w]
           s == moved[k][w]
           old == wallets[w]
           new == wallets'[w]
<1>1. /\ TypeInv /\ u \in Seq(Entries) /\ s \in Seq(Entries) /\ ledger'[w] = u \o s
      /\ new = IF copy[k][w] # None THEN copy[k][w] ELSE old
  BY BatchFacts
<1>2. old \in WalletRows \cup {None}
  BY <1>1 DEF TypeInv, TypeOK, DbTypeOK
<1>3. IF copy[k][w] # None
        THEN /\ old # None
             /\ copy[k][w] = [old EXCEPT !.balance = copy[k][w].balance,
                                         !.version = @ + Len(s)]
        ELSE s = <<>>
  BY DEF BatchInv, LedgerInv, LockInv, CopiesLocked, DecisionInv, WorkerInv, CopiesCounted
<1>4. CASE old = None
  BY <1>1, <1>3, <1>4 DEF Book!Counts
<1>5. CASE old # None
  <2>1. old \in WalletRows /\ old.version \in Nat
    BY <1>2, <1>5 DEF WalletRows
  <2>2. new = [old EXCEPT !.balance = new.balance, !.version = @ + Len(s)]
    <3>1. CASE copy[k][w] # None
      BY <1>1, <1>3, <3>1
    <3>2. CASE copy[k][w] = None
      <4>1. new = old /\ Len(s) = 0 /\ old.version + 0 = old.version
        BY <1>1, <1>3, <2>1, <3>2
      <4> QED
        BY <2>1, <4>1 DEF WalletRows
    <3> QED
      BY <3>1, <3>2
  <2>3. old.version + Len(ledger'[w]) - Len(u) = old.version + Len(s)
    <3> HIDE DEF u, s
    <3>1. Len(ledger'[w]) = Len(u) + Len(s) /\ Len(u) \in Nat /\ Len(s) \in Nat
      BY <1>1
    <3> QED
      BY <2>1, <3>1
  <2> QED
    BY <1>5, <2>2, <2>3 DEF Book!Counts
<1> QED
  BY <1>4, <1>5

LEMMA CommitBatchRetries ==
  ASSUME BatchInv, BatchInv', NEW k \in Workers, CommitBatch(k)
  PROVE  Book!Retry
<1>1. \A t \in Book!Changed : Book!Decides(t) /\ ~Book!IsNew(t)
  BY BatchDecides DEF Book!Changed, Book!IsNew
<1>2. \A w \in Wallets : Book!Posts(w) /\ Book!Counts(w)
  BY BatchPosts, BatchCounts
<1> QED
  BY <1>1, <1>2 DEF Book!Retry, Book!Settle


-----------------------------------------------------------------------------
(* A wallet is opened                                                      *)

\* The tables a wallet is opened in, and those it leaves behind.
LEMMA OpeningFacts ==
  ASSUME BatchInv, NEW w \in Wallets, NEW o \in AllOpenings, OpenWallet(w, o)
  PROVE  LET entry == LedgerEntry(w, "CREDIT", 0, o.amount) IN
         /\ TypeInv /\ w \in TxIds /\ txs[w] = None /\ wallets[w] = None
         /\ o.amount \in Nat /\ ledger[w] = <<>>
         /\ \A v \in Wallets : wallets'[v] = IF v = w THEN OpenedWallet(o) ELSE wallets[v]
         /\ \A t \in TxIds :
              txs'[t] = IF t = w /\ o.amount > 0 THEN OpeningRow(w, o) ELSE txs[t]
         /\ \A v \in Wallets :
              ledger'[v] = IF v = w /\ o.amount > 0 THEN <<entry>> ELSE ledger[v]
         /\ OpenedWallet(o) # None /\ OpeningRow(w, o) # None
<1>1. TypeInv /\ w \in TxIds /\ txs[w] = None /\ wallets[w] = None
  BY NotYetOpened DEF BatchInv, LedgerInv, OpenWallet
<1>2. o.amount \in Nat /\ ledger[w] = <<>>
  BY <1>1, CommandsAssumption DEF BatchInv, LedgerInv, UnopenedEmpty
<1>3. OpeningRow(w, o) \in Rows /\ OpenedWallet(o) \in WalletRows
  BY OpeningRowType DEF OpenWallet
<1>4. DOMAIN wallets = Wallets /\ DOMAIN txs = TxIds /\ DOMAIN ledger = Wallets
  BY <1>1 DEF TypeInv, TypeOK, DbTypeOK
<1>5. \A v \in Wallets : wallets'[v] = IF v = w THEN OpenedWallet(o) ELSE wallets[v]
  BY <1>4, <1>1 DEF OpenWallet, TypeInv, TypeOK, DbTypeOK
<1>6. \A t \in TxIds :
        txs'[t] = IF t = w /\ o.amount > 0 THEN OpeningRow(w, o) ELSE txs[t]
  BY <1>4, <1>1 DEF OpenWallet, TypeInv, TypeOK, DbTypeOK
<1>7. \A v \in Wallets :
        ledger'[v] = IF v = w /\ o.amount > 0
                       THEN <<LedgerEntry(w, "CREDIT", 0, o.amount)>> ELSE ledger[v]
  BY <1>4, <1>1 DEF OpenWallet, TypeInv, TypeOK, DbTypeOK
<1> QED
  BY <1>1, <1>2, <1>3, <1>5, <1>6, <1>7, RowAssumption

LEMMA OpeningDecides ==
  ASSUME BatchInv, BatchInv', NEW w \in Wallets, NEW o \in AllOpenings,
         OpenWallet(w, o), o.amount > 0
  PROVE  Book!Decides(w) /\ txs'[w].cmd.kind = "OPENING"
<1>1. TypeInv' /\ OneRowPerClaim'
  BY DEF BatchInv, LedgerInv, ClaimInv
<1>2. w \in TxIds /\ txs[w] = None /\ txs'[w] = OpeningRow(w, o) /\ txs'[w] # None
  BY OpeningFacts
<1>3. /\ OpeningRow(w, o).status = "PROCESSED" /\ OpeningRow(w, o).failure = None
      /\ OpeningRow(w, o).attempts = 0 /\ OpeningRow(w, o).cmd.kind = "OPENING"
  BY DEF OpeningRow
<1>4. IsProcessed(w, txs'[w], txs')
  BY <1>2, <1>3 DEF IsProcessed, Tried, Reversals
<1> QED
  BY <1>1, <1>2, <1>3, <1>4, IsDecided

LEMMA OpeningPosts ==
  ASSUME BatchInv, BatchInv', NEW w \in Wallets, NEW o \in AllOpenings,
         OpenWallet(w, o), NEW v \in Wallets
  PROVE  Book!Posts(v)
<1> DEFINE entry == LedgerEntry(w, "CREDIT", 0, o.amount)
           moves == v = w /\ o.amount > 0
           s == IF moves THEN <<entry>> ELSE <<>>
           u == ledger[v]
           row == OpeningRow(w, o)
<1>1. LedgerInv' /\ TypeInv
  BY DEF BatchInv, LedgerInv
<1>2. /\ w \in TxIds /\ txs[w] = None /\ o.amount \in Nat /\ row # None
      /\ \A t \in TxIds : txs'[t] = IF t = w /\ o.amount > 0 THEN row ELSE txs[t]
  BY OpeningFacts
<1>3. u \in Seq(Entries)
  BY <1>1 DEF TypeInv, TypeOK, DbTypeOK
<1>4. entry \in Entries /\ entry.tx = w
  BY <1>2 DEF LedgerEntry, Entries, Directions, ExpectedBalanceAfter
<1>5. moves => u = <<>> /\ ledger'[v] = <<entry>>
  BY OpeningFacts
<1>6. ~moves => ledger'[v] = u
  BY OpeningFacts
<1>7. Matches(entry, row, txs') /\ row.cmd.wallet = w
  BY DEF Matches, Moves, AffectsBalance, OpeningRow, LedgerEntry, LedgerDirectionFor,
         Direction
<1>8. s \in Seq(Entries) /\ ledger'[v] = u \o s
  <2>1. CASE moves
    <3>1. u = <<>> /\ s = <<entry>> /\ ledger'[v] = <<entry>>
      BY <1>5, <2>1
    <3> HIDE DEF entry, u, s
    <3> QED
      BY <1>4, <3>1
  <2>2. CASE ~moves
    <3>1. s = <<>> /\ ledger'[v] = u
      BY <1>6, <2>2
    <3> HIDE DEF u, s
    <3> QED
      BY <1>3, <3>1
  <2> QED
    BY <2>1, <2>2
<1>9. /\ moves => Len(s) = 1 /\ s[1] = entry
      /\ ~moves => Len(s) = 0
  BY DEF s
<1> HIDE DEF s, entry, row
<1>10. \A t \in TxIds :
         (txs'[t] # txs[t] /\ Moves(txs'[t]) /\ txs'[t].cmd.wallet = v) =>
           \E i \in 1 .. Len(s) : s[i].tx = t
  <2> SUFFICES ASSUME NEW t \in TxIds, txs'[t] # txs[t], txs'[t].cmd.wallet = v
               PROVE  \E i \in 1 .. Len(s) : s[i].tx = t
    OBVIOUS
  <2>1. t = w /\ moves
    BY <1>2, <1>7
  <2> QED
    BY <1>4, <1>9, <2>1
<1>11. \A i \in 1 .. Len(s) :
         /\ s[i].tx \in TxIds /\ txs'[s[i].tx] # txs[s[i].tx]
         /\ txs'[s[i].tx].cmd.wallet = v
         /\ Matches(s[i], txs'[s[i].tx], txs')
         /\ \A j \in 1 .. Len(s) : s[j].tx = s[i].tx => i = j
  <2> SUFFICES ASSUME NEW i \in 1 .. Len(s)
               PROVE  /\ s[i].tx \in TxIds /\ txs'[s[i].tx] # txs[s[i].tx]
                      /\ txs'[s[i].tx].cmd.wallet = v
                      /\ Matches(s[i], txs'[s[i].tx], txs')
                      /\ \A j \in 1 .. Len(s) : s[j].tx = s[i].tx => i = j
    OBVIOUS
  <2>3. 1 .. 0 = {}
    OBVIOUS
  <2>4. moves
    BY <1>9, <2>3
  <2>5. Len(s) = 1 /\ s[1] = entry
    BY <1>9, <2>4
  <2> HIDE DEF moves
  <2>1. moves /\ Len(s) = 1 /\ i = 1 /\ s[i] = entry
    BY <2>4, <2>5
  <2> USE DEF moves
  <2>2. txs'[w] = row
    BY <1>2, <2>1
  <2> QED
    BY <1>2, <1>4, <1>7, <2>1, <2>2
<1> QED
  BY <1>1, <1>3, <1>8, <1>10, <1>11, Posted

LEMMA OpenWalletOpens ==
  ASSUME BatchInv, BatchInv', NEW w \in Wallets, NEW o \in AllOpenings, OpenWallet(w, o)
  PROVE  Book!Open(w)
<1>1. /\ w \in TxIds /\ txs[w] = None /\ wallets[w] = None /\ o.amount \in Nat
      /\ \A v \in Wallets : wallets'[v] = IF v = w THEN OpenedWallet(o) ELSE wallets[v]
      /\ \A t \in TxIds :
           txs'[t] = IF t = w /\ o.amount > 0 THEN OpeningRow(w, o) ELSE txs[t]
      /\ OpenedWallet(o) # None /\ OpeningRow(w, o) # None
  BY OpeningFacts
<1>2. /\ wallets'[w] = OpenedWallet(o) /\ wallets'[w].version = 1
      /\ wallets'[w].player = o.player /\ wallets'[w].currency = o.currency
      /\ wallets'[w].balance = o.amount
  BY <1>1 DEF OpenedWallet
<1>3. wallets' = [wallets EXCEPT ![w] = wallets'[w]]
  BY <1>2 DEF OpenWallet
<1>4. \A v \in Wallets \ {w} : wallets[v] # None =>
        ~(wallets[v].player = wallets'[w].player
          /\ wallets[v].currency = wallets'[w].currency)
  BY <1>2 DEF OpenWallet
<1>5. Book!Changed = IF wallets'[w].balance = 0 THEN {} ELSE {w}
  BY <1>1, <1>2 DEF Book!Changed
<1>6. \A t \in Book!Changed : Book!Decides(t) /\ txs'[t].cmd.kind = "OPENING"
  <2> SUFFICES ASSUME NEW t \in Book!Changed
               PROVE  Book!Decides(t) /\ txs'[t].cmd.kind = "OPENING"
    OBVIOUS
  <2>1. t = w /\ o.amount > 0
    BY <1>1, <1>2, <1>5
  <2> QED
    BY <2>1, OpeningDecides
<1>7. \A v \in Wallets : Book!Posts(v)
  BY OpeningPosts
<1> QED
  BY <1>1, <1>2, <1>3, <1>4, <1>5, <1>6, <1>7 DEF Book!Open


-----------------------------------------------------------------------------
(* The refinement                                                          *)

LEMMA InitBook == Init => Book!Init
BY DEF Init, Book!Init, NoCopies, NoWrites, NoMoves

\* Only an opening, the commit of a call and the commit of a batch show.
LEMMA StepBooks == BatchInv /\ BatchInv' /\ [Next]_vars => [Book!Next]_(Book!bookVars)
<1> SUFFICES ASSUME BatchInv, BatchInv', [Next]_vars
             PROVE  Book!Next \/ UNCHANGED <<wallets, txs, ledger>>
  BY DEF Book!bookVars
<1>1. ASSUME NEW w \in Wallets, NEW o \in AllOpenings, OpenWallet(w, o)
      PROVE  Book!Next
  BY <1>1, OpenWalletOpens DEF Book!Next
<1>2. ASSUME NEW c \in Calls, NEW m \in AllCommands, Begin(c, m)
      PROVE  UNCHANGED <<wallets, txs, ledger>>
  BY <1>2 DEF Begin, dbVars
<1>3. ASSUME NEW c \in Calls, CallStep(c) \/ CrashCall(c)
      PROVE  Book!Next \/ UNCHANGED <<wallets, txs, ledger>>
  <2>1. CASE Finish(c)
    BY <2>1, FinishSubmits
  <2>2. CASE ~Finish(c)
    BY <1>3, <2>2
    DEF CallStep, CrashCall, RefuseCommand, LockWallet, Claim, ClaimConflict, Resolve,
        LookupKey, LookupExternal, AbortCall, dbVars
  <2> QED
    BY <2>1, <2>2
<1>4. ASSUME NEW k \in Workers, WorkerStep(k) \/ CrashWorker(k)
      PROVE  Book!Next \/ UNCHANGED <<wallets, txs, ledger>>
  <2>1. CASE CommitBatch(k)
    BY <2>1, CommitBatchRetries DEF Book!Next
  <2>2. CASE ~CommitBatch(k)
    BY <1>4, <2>2
    DEF WorkerStep, CrashWorker, SelectBatch, ResolveItem, ApplyItem, AbortWorker, dbVars
  <2> QED
    BY <2>1, <2>2
<1>5. ASSUME NEW t \in TxIds, BecomeDue(t) PROVE UNCHANGED <<wallets, txs, ledger>>
  BY <1>5 DEF BecomeDue
<1>6. CASE UNCHANGED vars
  BY <1>6 DEF vars, dbVars
<1> QED
  BY <1>1, <1>2, <1>3, <1>4, <1>5, <1>6 DEF Next

\* The core implements the abstract book, however its calls, workers, locks,
\* crashes and retries interleave.
THEOREM CoreKeepsTheBook == Spec => ImplementsBook
<1>1. Spec => []BatchInv
  BY InitBatch, BatchInvInductive, PTL DEF Spec
<1> QED
  BY <1>1, InitBook, StepBooks, PTL DEF Spec, ImplementsBook, Book!Spec
====
