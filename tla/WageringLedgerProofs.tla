---- MODULE WageringLedgerProofs ----
(***************************************************************************)
(* What locks and unique constraints protect, for every set of calls and   *)
(* workers: what is computed under a lock is still so at the commit, and   *)
(* therefore every ledger is a chain that ends at its wallet's balance; no *)
(* two committed rows share a key or an external id; and submits alone     *)
(* never wait for each other in a cycle.                                   *)
(***************************************************************************)
EXTENDS WageringProofs

\* Whoever has a private copy of a wallet holds its lock, the wallet exists,
\* and the copy is the committed wallet plus the private movements.
CopiesLocked ==
  \A k \in Workers, w \in Wallets :
    IF copy[k][w] # None
      THEN /\ lock[w] = k /\ wallets[w] # None
           /\ Chained(moved[k][w], wallets[w].balance, copy[k][w].balance)
      ELSE moved[k][w] = <<>>

UnopenedEmpty == \A w \in Wallets : wallets[w] = None => ledger[w] = <<>>

LockInv == SeenIsCurrent /\ CopiesLocked

LedgerInv == TypeInv /\ LockInv /\ UnopenedEmpty /\ LedgerChain

-----------------------------------------------------------------------------
(* Chains                                                                  *)

LEMMA ChainedEmpty == ASSUME NEW b PROVE Chained(<<>>, b, b)
BY DEF Chained

LEMMA ChainedAppend ==
  ASSUME NEW s \in Seq(Entries), NEW u \in Seq(Entries), NEW a, NEW b, NEW z,
         Chained(s, a, b), Chained(u, b, z)
  PROVE  Chained(s \o u, a, z)
<1> DEFINE n == Len(s)
           m == Len(u)
           r == s \o u
<1>1. n \in Nat /\ m \in Nat /\ Len(r) = n + m
  OBVIOUS
<1>2. \A i \in 1 .. n : r[i] = s[i]
  OBVIOUS
<1>3. \A i \in 1 .. m : r[n + i] = u[i]
  OBVIOUS
<1>4. ASSUME NEW i \in 1 .. n + m
      PROVE  /\ r[i].amount > 0
             /\ r[i].after = ExpectedBalanceAfter(r[i].dir, r[i].before, r[i].amount)
             /\ r[i].before = IF i = 1 THEN a ELSE r[i - 1].after
  <2>1. CASE i <= n
    <3>1. i \in 1 .. n /\ (i # 1 => i - 1 \in 1 .. n)
      BY <2>1, <1>1
    <3> HIDE DEF n, m, r
    <3> QED
      BY <3>1, <1>2 DEF Chained, n
  <2>2. CASE i > n
    <3>1. PICK j \in 1 .. m : i = n + j
      <4>1. i - n \in 1 .. m /\ i = n + (i - n)
        BY <2>2, <1>1
      <4> QED
        BY <4>1
    <3>2. r[i] = u[j]
      BY <3>1, <1>3
    <3>3. /\ u[j].amount > 0
          /\ u[j].after = ExpectedBalanceAfter(u[j].dir, u[j].before, u[j].amount)
          /\ u[j].before = IF j = 1 THEN b ELSE u[j - 1].after
      BY <3>1 DEF Chained
    <3>4. u[j].before = IF i = 1 THEN a ELSE r[i - 1].after
      <4>1. CASE j # 1
        <5>1. j - 1 \in 1 .. m /\ i - 1 = n + (j - 1) /\ i # 1
          BY <4>1, <3>1, <1>1
        <5>2. r[i - 1] = u[j - 1]
          BY <5>1, <1>3
        <5> HIDE DEF n, m, r
        <5> QED
          BY <4>1, <5>1, <5>2, <3>3
      <4>2. CASE j = 1 /\ n = 0
        BY <4>2, <3>1, <3>3 DEF Chained
      <4>3. CASE j = 1 /\ n # 0
        <5>1. n \in 1 .. n /\ i - 1 = n /\ i # 1
          BY <4>3, <3>1, <1>1
        <5>2. r[i - 1] = s[n]
          BY <5>1, <1>2
        <5>3. b = s[n].after
          BY <4>3 DEF Chained
        <5> HIDE DEF n, m, r
        <5> QED
          BY <4>3, <5>1, <5>2, <5>3, <3>3
      <4> QED
        BY <4>1, <4>2, <4>3
    <3> HIDE DEF n, m, r
    <3> QED
      BY <3>2, <3>3, <3>4
  <2> QED
    BY <2>1, <2>2, <1>1
<1>5. z = IF n + m = 0 THEN a ELSE r[n + m].after
  <2>1. CASE m = 0
    <3>1. z = b
      BY <2>1 DEF Chained
    <3>2. n # 0 => n + m \in 1 .. n /\ n + m = n
      BY <2>1, <1>1
    <3>3. n # 0 => r[n + m] = s[n]
      BY <3>2, <1>2
    <3>4. b = IF n = 0 THEN a ELSE s[n].after
      BY DEF Chained
    <3> HIDE DEF n, m, r
    <3> QED
      BY <2>1, <3>1, <3>3, <3>4, <1>1
  <2>2. CASE m # 0
    <3>1. m \in 1 .. m /\ n + m # 0
      BY <2>2, <1>1
    <3>2. r[n + m] = u[m]
      BY <3>1, <1>3
    <3>3. z = u[m].after
      BY <2>2 DEF Chained
    <3> HIDE DEF n, m, r
    <3> QED
      BY <3>1, <3>2, <3>3
  <2> QED
    BY <2>1, <2>2
<1> QED
  BY <1>1, <1>4, <1>5 DEF Chained

\* What an effect adds to the ledger leads from the old balance to the new.
LEMMA EffectChained ==
  ASSUME NEW t \in TxIds, NEW row \in Rows, NEW wallet \in WalletRows,
         NEW ref \in TxIds \cup {None}, NEW refKind
  PROVE  LET e == ApplyEffect(t, row, wallet, ref, refKind) IN
         Chained(e.entries, wallet.balance, e.wallet.balance)
<1> DEFINE dir == LedgerDirectionFor(row.cmd.kind, refKind)
           refusal == MovementRefusal(wallet, row.cmd, dir)
           after == ExpectedBalanceAfter(dir, wallet.balance, row.cmd.amount)
           entry == LedgerEntry(t, dir, wallet.balance, row.cmd.amount)
<1>1. row.cmd.amount \in Nat /\ wallet.balance \in Nat
  BY CommandFields DEF Rows, WalletRows
<1>2. ASSUME refusal = None PROVE row.cmd.amount > 0
  <2>1. row.cmd.amount # 0
    BY <1>2, <1>1, NoneAssumption DEF MovementRefusal, FailureCodes, Errors
  <2> QED
    BY <2>1, <1>1
<1>3. ApplyMovement(wallet, dir, row.cmd.amount).balance = after
  BY DEF ApplyMovement, WalletRows
<1>4. /\ entry.amount = row.cmd.amount /\ entry.dir = dir
      /\ entry.before = wallet.balance /\ entry.after = after
  BY DEF LedgerEntry
<1>5. ASSUME refusal = None PROVE Chained(<<entry>>, wallet.balance, after)
  <2>1. Len(<<entry>>) = 1 /\ <<entry>>[1] = entry
    OBVIOUS
  <2>2. \A i \in 1 .. 1 : i = 1
    OBVIOUS
  <2>3. entry.after = ExpectedBalanceAfter(entry.dir, entry.before, entry.amount)
    BY <1>4
  <2> HIDE DEF entry, after, dir, refusal
  <2> QED
    BY <1>2, <1>4, <1>5, <2>1, <2>2, <2>3 DEF Chained
<1>6. Chained(<<>>, wallet.balance, wallet.balance)
  BY ChainedEmpty
<1> HIDE DEF refusal, entry, after
<1> QED
  BY <1>3, <1>5, <1>6 DEF ApplyEffect, Effect, dir, refusal, entry, after

-----------------------------------------------------------------------------
(* Whoever ends its transaction changed no wallet but those it had locked, *)
(* so the wallets that others have read or copied are still the same.      *)

LEMMA EndCallLock ==
  ASSUME TypeInv, LockInv, NEW c \in Calls, NEW next \in {"done", "lookupKey"},
         EndCall(c, next), UNCHANGED cmd, UNCHANGED workerVars,
         \A w \in Wallets : lock[w] # c => wallets'[w] = wallets[w]
  PROVE  LockInv'
<1>1. /\ pc' = [pc EXCEPT ![c] = next] /\ lock' = Released(c)
      /\ seen' = [seen EXCEPT ![c] = None]
  BY DEF EndCall
<1>2. \A w \in Wallets : lock[w] # c => lock'[w] = lock[w]
  BY <1>1 DEF Released
<1>3. \A d \in Calls : InTransaction(d)' => d # c /\ InTransaction(d)
  BY <1>1 DEF InTransaction, TypeInv, TypeOK, CallTypeOK
<1>4. SeenIsCurrent'
  <2> SUFFICES ASSUME NEW d \in Calls, InTransaction(d)'
               PROVE  /\ lock'[cmd'[d].wallet] = d /\ seen'[d] # None
                      /\ seen'[d] = wallets'[cmd'[d].wallet]
    BY DEF SeenIsCurrent
  <2>1. d # c /\ InTransaction(d)
    BY <1>3
  <2>2. /\ lock[cmd[d].wallet] = d /\ seen[d] # None
        /\ seen[d] = wallets[cmd[d].wallet]
    BY <2>1 DEF LockInv, SeenIsCurrent
  <2>3. cmd[d].wallet \in Wallets
    BY <2>1, CommandsAssumption DEF InTransaction, TypeInv, CallReady
  <2>4. seen'[d] = seen[d]
    BY <1>1, <2>1 DEF TypeInv, TypeOK, CallTypeOK
  <2> QED
    BY <1>2, <2>1, <2>2, <2>3, <2>4
<1>5. \A k \in Workers, w \in Wallets : lock[w] = k => lock[w] # c
  BY IdsAssumption
<1>6. CopiesLocked'
  BY <1>2, <1>5 DEF LockInv, CopiesLocked, workerVars, Chained
<1> QED
  BY <1>4, <1>6 DEF LockInv

LEMMA EndBatchLock ==
  ASSUME TypeInv, LockInv, NEW k \in Workers, EndBatch(k), UNCHANGED callVars,
         \A w \in Wallets : lock[w] # k => wallets'[w] = wallets[w]
  PROVE  LockInv'
<1>1. /\ lock' = Released(k) /\ copy' = [copy EXCEPT ![k] = NoCopies]
      /\ moved' = [moved EXCEPT ![k] = NoMoves]
  BY DEF EndBatch
<1>2. \A w \in Wallets : lock[w] # k => lock'[w] = lock[w]
  BY <1>1 DEF Released
<1>3. SeenIsCurrent'
  <2> SUFFICES ASSUME NEW c \in Calls, InTransaction(c)
               PROVE  /\ lock'[cmd[c].wallet] = c /\ seen[c] # None
                      /\ seen[c] = wallets'[cmd[c].wallet]
    BY DEF SeenIsCurrent, InTransaction, callVars
  <2>1. cmd[c].wallet \in Wallets
    BY CommandsAssumption DEF InTransaction, TypeInv, CallReady
  <2>2. c # k
    BY IdsAssumption
  <2> QED
    BY <1>2, <2>1, <2>2 DEF LockInv, SeenIsCurrent
<1>4. CopiesLocked'
  <2> SUFFICES ASSUME NEW j \in Workers, NEW w \in Wallets
               PROVE  IF copy'[j][w] # None
                        THEN /\ lock'[w] = j /\ wallets'[w] # None
                             /\ Chained(moved'[j][w], wallets'[w].balance,
                                        copy'[j][w].balance)
                        ELSE moved'[j][w] = <<>>
    BY DEF CopiesLocked, Chained
  <2>1. CASE j = k
    BY <1>1, <2>1 DEF NoCopies, NoMoves, TypeInv, TypeOK, WorkerTypeOK
  <2>2. CASE j # k
    <3>1. copy'[j] = copy[j] /\ moved'[j] = moved[j]
      BY <1>1, <2>2 DEF TypeInv, TypeOK, WorkerTypeOK
    <3> QED
      BY <1>2, <2>2, <3>1 DEF LockInv, CopiesLocked
  <2> QED
    BY <2>1, <2>2
<1> QED
  BY <1>3, <1>4 DEF LockInv

\* A step that changes neither wallets, ledgers nor what is computed under
\* their locks keeps everything.
LEMMA LedgerKept ==
  ASSUME LedgerInv, UNCHANGED <<wallets, ledger>>
  PROVE  UnopenedEmpty' /\ LedgerChain'
BY DEF LedgerInv, UnopenedEmpty, LedgerChain, Open, Chained

LEMMA LockKept ==
  ASSUME LockInv, UNCHANGED <<wallets, lock, copy, moved, seen>>,
         \A c \in Calls : InTransaction(c)' => InTransaction(c) /\ cmd'[c] = cmd[c]
  PROVE  LockInv'
<1>1. SeenIsCurrent'
  BY DEF LockInv, SeenIsCurrent
<1>2. CopiesLocked'
  BY DEF LockInv, CopiesLocked, Chained
<1> QED
  BY <1>1, <1>2 DEF LockInv

-----------------------------------------------------------------------------
(* LedgerInv is inductive                                                  *)

LEMMA InitLedger == Init => LedgerInv
<1> SUFFICES ASSUME Init PROVE LedgerInv
  OBVIOUS
<1>1. TypeInv
  BY InitType
<1>2. SeenIsCurrent
  BY DEF Init, SeenIsCurrent, InTransaction
<1>3. CopiesLocked
  BY DEF Init, CopiesLocked, NoCopies, NoMoves
<1>4. UnopenedEmpty /\ LedgerChain
  BY DEF Init, UnopenedEmpty, LedgerChain, Open, NoCopies, NoMoves
<1> QED
  BY <1>1, <1>2, <1>3, <1>4 DEF LedgerInv, LockInv

LEMMA OpenWalletLedger ==
  ASSUME LedgerInv, NEW w \in Wallets, NEW o \in AllOpenings, OpenWallet(w, o)
  PROVE  LockInv' /\ UnopenedEmpty' /\ LedgerChain'
<1> USE DEF LedgerInv
<1>1. wallets[w] = None /\ ledger[w] = <<>>
  BY DEF OpenWallet, UnopenedEmpty
<1>2. /\ wallets' = [wallets EXCEPT ![w] = OpenedWallet(o)]
      /\ UNCHANGED <<lock, callVars, workerVars>>
  BY DEF OpenWallet
<1>3. OpenedWallet(o) \in WalletRows /\ OpenedWallet(o).balance = o.amount
      /\ OpenedWallet(o) # None /\ o.amount \in Nat
  BY OpeningRowType, RowAssumption, CommandsAssumption
  DEF OpenWallet, OpenedWallet
<1>4. \A v \in Wallets : wallets'[v] = IF v = w THEN OpenedWallet(o) ELSE wallets[v]
  BY <1>2 DEF TypeInv, TypeOK, DbTypeOK
<1>5. SeenIsCurrent'
  <2> SUFFICES ASSUME NEW c \in Calls, InTransaction(c)
               PROVE  /\ lock[cmd[c].wallet] = c /\ seen[c] # None
                      /\ seen[c] = wallets'[cmd[c].wallet]
    BY <1>2 DEF SeenIsCurrent, InTransaction, callVars
  <2>1. cmd[c].wallet \in Wallets
    BY CommandsAssumption DEF InTransaction, TypeInv, CallReady
  <2> QED
    BY <1>1, <1>4, <2>1 DEF LockInv, SeenIsCurrent
<1>6. CopiesLocked'
  BY <1>1, <1>2, <1>4 DEF LockInv, CopiesLocked, workerVars, Chained
<1> DEFINE entry == LedgerEntry(w, "CREDIT", 0, o.amount)
<1>7. \/ o.amount = 0 /\ UNCHANGED ledger
      \/ o.amount > 0 /\ ledger' = [ledger EXCEPT ![w] = <<entry>>]
  BY <1>3 DEF OpenWallet
<1>8. UnopenedEmpty'
  BY <1>3, <1>4, <1>7 DEF UnopenedEmpty, TypeInv, TypeOK, DbTypeOK
<1>9. Chained(ledger'[w], 0, o.amount)
  <2>1. CASE o.amount = 0
    BY <2>1, <1>1, <1>7, ChainedEmpty
  <2>2. CASE o.amount > 0
    <3>1. ledger'[w] = <<entry>>
      BY <2>2, <1>7 DEF TypeInv, TypeOK, DbTypeOK
    <3>2. /\ entry.amount = o.amount /\ entry.before = 0
          /\ entry.after = ExpectedBalanceAfter(entry.dir, 0, o.amount)
          /\ entry.after = o.amount
      BY <1>3 DEF LedgerEntry, ExpectedBalanceAfter
    <3>3. Len(<<entry>>) = 1 /\ <<entry>>[1] = entry /\ \A i \in 1 .. 1 : i = 1
      OBVIOUS
    <3> HIDE DEF entry
    <3> QED
      BY <2>2, <3>1, <3>2, <3>3 DEF Chained
  <2> QED
    BY <2>1, <2>2, <1>3
<1>10. LedgerChain'
  <2> SUFFICES ASSUME NEW v \in Wallets, wallets'[v] # None
               PROVE  Chained(ledger'[v], 0, wallets'[v].balance)
    BY DEF LedgerChain, Open, Chained
  <2>1. CASE v = w
    BY <2>1, <1>3, <1>4, <1>9
  <2>2. CASE v # w
    <3>1. ledger'[v] = ledger[v] /\ wallets'[v] = wallets[v]
      BY <2>2, <1>4, <1>7 DEF TypeInv, TypeOK, DbTypeOK
    <3> QED
      BY <3>1 DEF LedgerChain, Open
  <2> QED
    BY <2>1, <2>2
<1> QED
  BY <1>5, <1>6, <1>8, <1>10 DEF LockInv

LEMMA LockWalletLedger ==
  ASSUME LedgerInv, NEW c \in Calls, LockWallet(c)
  PROVE  LockInv'
<1> DEFINE w == cmd[c].wallet
<1>1. /\ lock[w] = None /\ lock' = [lock EXCEPT ![w] = c]
      /\ seen' = [seen EXCEPT ![c] = wallets[w]]
      /\ pc' = [pc EXCEPT ![c] = "claim"]
      /\ UNCHANGED <<dbVars, cmd, workerVars>>
  BY DEF LockWallet
<1>2. w \in Wallets /\ wallets[w] # None
  BY CommandsAssumption, NoneAssumption
  DEF LockWallet, Refusal, Errors, LedgerInv, TypeInv, CallReady
<1> HIDE DEF w
<1>3. \A v \in Wallets : lock'[v] = IF v = w THEN c ELSE lock[v]
  BY <1>1 DEF LedgerInv, TypeInv, TypeOK, DbTypeOK
<1>4. SeenIsCurrent'
  <2> SUFFICES ASSUME NEW d \in Calls, InTransaction(d)'
               PROVE  /\ lock'[cmd[d].wallet] = d /\ seen'[d] # None
                      /\ seen'[d] = wallets[cmd[d].wallet]
    BY <1>1 DEF SeenIsCurrent, dbVars
  <2>1. CASE d = c
    BY <2>1, <1>1, <1>2, <1>3 DEF w, LedgerInv, TypeInv, TypeOK, CallTypeOK
  <2>2. CASE d # c
    <3>1. InTransaction(d) /\ seen'[d] = seen[d]
      BY <2>2, <1>1 DEF InTransaction, LedgerInv, TypeInv, TypeOK, CallTypeOK
    <3>2. cmd[d].wallet \in Wallets
      BY <3>1, CommandsAssumption DEF InTransaction, LedgerInv, TypeInv, CallReady
    <3>3. lock[cmd[d].wallet] = d /\ d # None
      BY <3>1, IdsAssumption DEF LedgerInv, LockInv, SeenIsCurrent, Procs
    <3> QED
      BY <1>1, <1>3, <3>1, <3>2, <3>3 DEF LedgerInv, LockInv, SeenIsCurrent
  <2> QED
    BY <2>1, <2>2
<1>5. CopiesLocked'
  <2>1. \A k \in Workers : k # None
    BY IdsAssumption DEF Procs
  <2> QED
    BY <1>1, <1>3, <2>1 DEF LedgerInv, LockInv, CopiesLocked, dbVars, workerVars, Chained
<1> QED
  BY <1>4, <1>5 DEF LockInv

\* What a call commits leads from the wallet it has read to the one it writes.
LEMMA CallEffectChained ==
  ASSUME TypeInv, NEW c \in Calls, pc[c] = "finish"
  PROVE  LET e == CallEffect(c) IN
         Chained(e.entries, seen[c].balance, e.wallet.balance)
<1>1. NewRow(cmd[c]) \in Rows
  BY NewRowType DEF TypeInv, CallReady
<1>2. seen[c] \in WalletRows /\ verdict[c] \in Verdicts
  BY DEF TypeInv, CallReady, InTransaction
<1>3. /\ verdict[c].outcome \in {"pending", "rejected", "resolved"}
      /\ verdict[c].ref \in TxIds \cup {None}
  BY <1>2 DEF Verdicts
<1>4. Chained(<<>>, seen[c].balance, seen[c].balance)
  BY ChainedEmpty
<1>5. CASE verdict[c].outcome = "resolved"
  <2>1. CallEffect(c) = ApplyEffect(c, NewRow(cmd[c]), seen[c], verdict[c].ref,
                                    RefKind(txs, verdict[c].ref))
    BY <1>5 DEF CallEffect
  <2> QED
    BY <2>1, <1>1, <1>2, <1>3, EffectChained DEF TxIds
<1>6. CASE verdict[c].outcome \in {"pending", "rejected"}
  BY <1>4, <1>6 DEF CallEffect, Effect
<1> QED
  BY <1>3, <1>5, <1>6

LEMMA FinishLedger ==
  ASSUME LedgerInv, NEW c \in Calls, Finish(c)
  PROVE  LockInv' /\ UnopenedEmpty' /\ LedgerChain'
<1> DEFINE e == CallEffect(c)
           w == cmd[c].wallet
<1>1. TypeInv /\ LockInv
  BY DEF LedgerInv
<1>2. /\ e.wallet \in WalletRows /\ e.entries \in Seq(Entries)
      /\ Chained(e.entries, seen[c].balance, e.wallet.balance)
  BY <1>1, CallEffectType, CallEffectChained DEF Finish
<1>3. w \in Wallets
  BY <1>1, CommandsAssumption DEF TypeInv, CallReady, Finish
<1>4. lock[w] = c /\ wallets[w] = seen[c] /\ wallets[w] # None
  BY <1>1 DEF LockInv, SeenIsCurrent, InTransaction, Finish
<1>5. PICK next \in {"done", "lookupKey"} : EndCall(c, next)
  BY DEF Finish
<1>6. UNCHANGED cmd /\ UNCHANGED workerVars
  BY DEF Finish
<1>7. \/ UNCHANGED <<wallets, ledger>>
      \/ /\ wallets' = [wallets EXCEPT ![w] = e.wallet]
         /\ ledger' = [ledger EXCEPT ![w] = ledger[w] \o e.entries]
  BY DEF Finish, dbVars
<1> HIDE DEF e, w
<1>8. LockInv'
  <2>1. \A v \in Wallets : lock[v] # c => wallets'[v] = wallets[v]
    BY <1>1, <1>4, <1>7 DEF TypeInv, TypeOK, DbTypeOK
  <2> QED
    BY <2>1, <1>1, <1>5, <1>6, EndCallLock
<1>9. CASE UNCHANGED <<wallets, ledger>>
  BY <1>8, <1>9, LedgerKept
<1>10. CASE /\ wallets' = [wallets EXCEPT ![w] = e.wallet]
            /\ ledger' = [ledger EXCEPT ![w] = ledger[w] \o e.entries]
  <2>1. Chained(ledger[w], 0, wallets[w].balance) /\ ledger[w] \in Seq(Entries)
    BY <1>1, <1>3, <1>4 DEF LedgerInv, LedgerChain, Open, TypeInv, TypeOK, DbTypeOK
  <2>2. Chained(ledger[w] \o e.entries, 0, e.wallet.balance)
    BY <2>1, <1>2, <1>4, ChainedAppend
  <2>3. ASSUME NEW v \in Wallets
        PROVE  IF v = w
                 THEN wallets'[v] = e.wallet /\ ledger'[v] = ledger[w] \o e.entries
                 ELSE wallets'[v] = wallets[v] /\ ledger'[v] = ledger[v]
    BY <1>1, <1>10 DEF TypeInv, TypeOK, DbTypeOK
  <2>4. UnopenedEmpty'
    BY <2>3, <1>2, RowAssumption DEF LedgerInv, UnopenedEmpty
  <2>5. LedgerChain'
    <3> SUFFICES ASSUME NEW v \in Wallets, wallets'[v] # None
                 PROVE  Chained(ledger'[v], 0, wallets'[v].balance)
      BY DEF LedgerChain, Open, Chained
    <3> QED
      BY <2>2, <2>3 DEF LedgerInv, LedgerChain, Open
  <2> QED
    BY <1>8, <2>4, <2>5
<1> QED
  BY <1>7, <1>9, <1>10

LEMMA ApplyItemLedger ==
  ASSUME LedgerInv, NEW k \in Workers, ApplyItem(k)
  PROVE  LockInv'
<1> DEFINE t == Head(todo[k])
           w == txs[t].cmd.wallet
           e == ItemEffect(k)
           wallet == IF copy[k][w] # None THEN copy[k][w] ELSE wallets[w]
           ref == wref[k]
           kind == RefKind(WorkerView(k), ref)
           row == txs[t]
<1>1. TypeInv /\ LockInv /\ UNCHANGED <<dbVars, callVars>>
  BY DEF LedgerInv, ApplyItem
<1>2. CASE EndBatch(k)
  <2>1. UNCHANGED callVars /\ UNCHANGED wallets
    BY <1>1 DEF dbVars
  <2> QED
    BY <1>1, <1>2, <2>1, EndBatchLock
<1>3. CASE ~EndBatch(k)
  <2>1. /\ copy' = [copy EXCEPT ![k] = [copy[k] EXCEPT ![w] = e.wallet]]
        /\ moved' = [moved EXCEPT ![k] = [moved[k] EXCEPT ![w] = moved[k][w] \o e.entries]]
        /\ lock' = [lock EXCEPT ![w] = k] /\ lock[w] \in {None, k}
        /\ wpc[k] = "lock"
    BY <1>3 DEF ApplyItem
  <2>2. /\ t \in TxIds /\ row \in Rows /\ w \in Wallets
        /\ wallets[w] \in WalletRows /\ ref \in TxIds \cup {None}
    BY <1>1, <2>1, HeadType, CommandFields
    DEF Rows, TypeInv, TypeOK, WorkerTypeOK, BatchReady
  <2>3. e = ApplyEffect(t, row, wallet, ref, kind)
    BY DEF ItemEffect
  <2>4. e.wallet \in WalletRows /\ e.entries \in Seq(Entries)
    BY <1>1, <2>1, ItemEffectType
  <2>5. wallet \in WalletRows /\ Chained(moved[k][w], wallets[w].balance, wallet.balance)
    <3>1. CASE copy[k][w] # None
      BY <1>1, <2>2, <3>1 DEF LockInv, CopiesLocked, TypeInv, TypeOK, WorkerTypeOK
    <3>2. CASE copy[k][w] = None
      <4>1. moved[k][w] = <<>> /\ wallet = wallets[w]
        BY <1>1, <2>2, <3>2 DEF LockInv, CopiesLocked
      <4> QED
        BY <2>2, <4>1, ChainedEmpty
    <3> QED
      BY <3>1, <3>2
  <2> HIDE DEF t, w, e, wallet, kind, row, ref
  <2>6. Chained(e.entries, wallet.balance, e.wallet.balance)
    BY <2>2, <2>3, <2>5, EffectChained
  <2>7. Chained(moved[k][w] \o e.entries, wallets[w].balance, e.wallet.balance)
    <3>1. moved[k][w] \in Seq(Entries)
      BY <1>1, <2>2 DEF TypeInv, TypeOK, WorkerTypeOK
    <3> QED
      BY <3>1, <2>4, <2>5, <2>6, ChainedAppend
  <2>8. \A v \in Wallets : lock'[v] = IF v = w THEN k ELSE lock[v]
    BY <1>1, <2>1 DEF TypeInv, TypeOK, DbTypeOK
  <2>9. SeenIsCurrent'
    <3> SUFFICES ASSUME NEW c \in Calls, InTransaction(c)
                 PROVE  /\ lock'[cmd[c].wallet] = c /\ seen[c] # None
                        /\ seen[c] = wallets[cmd[c].wallet]
      BY <1>1 DEF SeenIsCurrent, InTransaction, callVars, dbVars
    <3>1. cmd[c].wallet \in Wallets
      BY <1>1, CommandsAssumption DEF InTransaction, TypeInv, CallReady
    <3>2. lock[cmd[c].wallet] = c /\ c # None /\ c # k
      BY <1>1, IdsAssumption DEF LockInv, SeenIsCurrent, Procs
    <3> QED
      BY <1>1, <2>1, <2>8, <3>1, <3>2 DEF LockInv, SeenIsCurrent
  <2>10. CopiesLocked'
    <3> SUFFICES ASSUME NEW j \in Workers, NEW v \in Wallets
                 PROVE  IF copy'[j][v] # None
                          THEN /\ lock'[v] = j /\ wallets[v] # None
                               /\ Chained(moved'[j][v], wallets[v].balance,
                                          copy'[j][v].balance)
                          ELSE moved'[j][v] = <<>>
      BY <1>1 DEF CopiesLocked, dbVars, Chained
    <3>1. CASE j = k /\ v = w
      <4>1. copy'[j][v] = e.wallet /\ moved'[j][v] = moved[k][w] \o e.entries
        BY <1>1, <2>1, <2>2, <3>1 DEF TypeInv, TypeOK, WorkerTypeOK
      <4>2. wallets[w] # None /\ e.wallet # None
        BY <2>2, <2>4, RowAssumption
      <4> QED
        BY <2>7, <2>8, <3>1, <4>1, <4>2
    <3>2. CASE ~(j = k /\ v = w)
      <4>1. copy'[j][v] = copy[j][v] /\ moved'[j][v] = moved[j][v]
        BY <1>1, <2>1, <3>2 DEF TypeInv, TypeOK, WorkerTypeOK
      <4>2. lock[v] = j => lock'[v] = j
        BY <2>1, <2>8, <3>2, IdsAssumption DEF Procs
      <4> QED
        BY <1>1, <4>1, <4>2 DEF LockInv, CopiesLocked
    <3> QED
      BY <3>1, <3>2
  <2> QED
    BY <2>9, <2>10 DEF LockInv
<1> QED
  BY <1>2, <1>3

LEMMA CommitBatchLedger ==
  ASSUME LedgerInv, NEW k \in Workers, CommitBatch(k)
  PROVE  LockInv' /\ UnopenedEmpty' /\ LedgerChain'
<1>1. TypeInv /\ LockInv
  BY DEF LedgerInv
<1>2. EndBatch(k) /\ UNCHANGED callVars
  BY DEF CommitBatch
<1>3. \A w \in Wallets :
        /\ wallets'[w] = IF copy[k][w] # None THEN copy[k][w] ELSE wallets[w]
        /\ ledger'[w] = ledger[w] \o moved[k][w]
  BY DEF CommitBatch
<1>4. ASSUME NEW w \in Wallets, copy[k][w] # None
      PROVE  /\ lock[w] = k /\ wallets[w] # None /\ wallets'[w] = copy[k][w]
             /\ Chained(ledger'[w], 0, wallets'[w].balance)
  <2>1. /\ lock[w] = k /\ wallets[w] # None
        /\ Chained(moved[k][w], wallets[w].balance, copy[k][w].balance)
    BY <1>1, <1>4 DEF LockInv, CopiesLocked
  <2>2. Chained(ledger[w], 0, wallets[w].balance)
    BY <2>1 DEF LedgerInv, LedgerChain, Open
  <2>3. ledger[w] \in Seq(Entries) /\ moved[k][w] \in Seq(Entries)
    BY <1>1 DEF TypeInv, TypeOK, DbTypeOK, WorkerTypeOK
  <2>4. Chained(ledger[w] \o moved[k][w], 0, copy[k][w].balance)
    BY <2>1, <2>2, <2>3, ChainedAppend
  <2>5. wallets'[w] = copy[k][w] /\ ledger'[w] = ledger[w] \o moved[k][w]
    BY <1>3, <1>4
  <2> QED
    BY <2>1, <2>4, <2>5
<1>5. ASSUME NEW w \in Wallets, copy[k][w] = None
      PROVE  wallets'[w] = wallets[w] /\ ledger'[w] = ledger[w]
  <2>1. moved[k][w] = <<>> /\ ledger[w] \in Seq(Entries)
    BY <1>1, <1>5 DEF LockInv, CopiesLocked, TypeInv, TypeOK, DbTypeOK
  <2>2. ledger[w] \o <<>> = ledger[w]
    BY <2>1
  <2> QED
    BY <1>3, <1>5, <2>1, <2>2
<1>6. LockInv'
  <2>1. \A w \in Wallets : lock[w] # k => wallets'[w] = wallets[w]
    BY <1>4, <1>5
  <2> QED
    BY <2>1, <1>1, <1>2, EndBatchLock
<1>7. UnopenedEmpty'
  BY <1>4, <1>5 DEF LedgerInv, UnopenedEmpty
<1>8. LedgerChain'
  <2> SUFFICES ASSUME NEW w \in Wallets, wallets'[w] # None
               PROVE  Chained(ledger'[w], 0, wallets'[w].balance)
    BY DEF LedgerChain, Open, Chained
  <2> QED
    BY <1>4, <1>5 DEF LedgerInv, LedgerChain, Open
<1> QED
  BY <1>6, <1>7, <1>8

LEMMA CallStepLedger ==
  ASSUME LedgerInv, NEW c \in Calls, CallStep(c) \/ CrashCall(c)
  PROVE  LockInv' /\ UnopenedEmpty' /\ LedgerChain'
<1>1. TypeInv /\ LockInv
  BY DEF LedgerInv
<1>2. CASE RefuseCommand(c) \/ ClaimConflict(c) \/ AbortCall(c) \/ CrashCall(c)
  <2>1. \E next \in {"done", "lookupKey"} : EndCall(c, next)
    BY <1>2 DEF RefuseCommand, ClaimConflict, AbortCall, CrashCall
  <2>2. UNCHANGED cmd /\ UNCHANGED workerVars /\ UNCHANGED <<wallets, ledger>>
    BY <1>2 DEF RefuseCommand, ClaimConflict, AbortCall, CrashCall, dbVars
  <2> QED
    BY <1>1, <2>1, <2>2, EndCallLock, LedgerKept
<1>3. CASE LockWallet(c)
  BY <1>3, LockWalletLedger, LedgerKept DEF LockWallet, dbVars
<1>4. CASE Claim(c) \/ Resolve(c) \/ LookupKey(c) \/ LookupExternal(c)
  <2>1. UNCHANGED <<wallets, ledger, lock, copy, moved, seen, cmd>>
    BY <1>4 DEF Claim, Resolve, LookupKey, LookupExternal, dbVars, workerVars
  <2>2. \A d \in Calls : InTransaction(d)' => InTransaction(d)
    BY <1>1, <1>4
    DEF Claim, Resolve, LookupKey, LookupExternal, InTransaction,
        TypeInv, TypeOK, CallTypeOK
  <2> QED
    BY <1>1, <2>1, <2>2, LockKept, LedgerKept
<1>5. CASE Finish(c)
  BY <1>5, FinishLedger
<1> QED
  BY <1>2, <1>3, <1>4, <1>5 DEF CallStep

LEMMA WorkerStepLedger ==
  ASSUME LedgerInv, NEW k \in Workers, WorkerStep(k) \/ CrashWorker(k)
  PROVE  LockInv' /\ UnopenedEmpty' /\ LedgerChain'
<1>1. TypeInv /\ LockInv
  BY DEF LedgerInv
<1>2. CASE SelectBatch(k) \/ ResolveItem(k)
  <2>1. UNCHANGED <<wallets, ledger, lock, copy, moved, seen>>
        /\ UNCHANGED <<pc, cmd>>
    BY <1>2 DEF SelectBatch, ResolveItem, dbVars, callVars
  <2> QED
    BY <1>1, <2>1, LockKept, LedgerKept DEF InTransaction
<1>3. CASE ApplyItem(k)
  BY <1>3, ApplyItemLedger, LedgerKept DEF ApplyItem, dbVars
<1>4. CASE CommitBatch(k)
  BY <1>4, CommitBatchLedger
<1>5. CASE AbortWorker(k) \/ CrashWorker(k)
  <2>1. EndBatch(k) /\ UNCHANGED callVars /\ UNCHANGED <<wallets, ledger>>
    BY <1>5 DEF AbortWorker, CrashWorker, dbVars
  <2> QED
    BY <1>1, <2>1, EndBatchLock, LedgerKept
<1> QED
  BY <1>2, <1>3, <1>4, <1>5 DEF WorkerStep

LEMMA LedgerInvInductive == LedgerInv /\ [Next]_vars => LedgerInv'
<1> SUFFICES ASSUME LedgerInv, [Next]_vars PROVE LedgerInv'
  OBVIOUS
<1>1. TypeInv'
  BY TypeInvInductive DEF LedgerInv
<1>2. LockInv' /\ UnopenedEmpty' /\ LedgerChain'
  <2>1. CASE \E w \in Wallets, o \in AllOpenings : OpenWallet(w, o)
    BY <2>1, OpenWalletLedger
  <2>2. CASE \E c \in Calls, m \in AllCommands : Begin(c, m)
    <3>1. PICK c \in Calls, m \in AllCommands : Begin(c, m)
      BY <2>2
    <3>2. UNCHANGED <<wallets, ledger, lock, copy, moved, seen>>
      BY <3>1 DEF Begin, dbVars, workerVars
    <3>3. \A d \in Calls : InTransaction(d)' => InTransaction(d) /\ cmd'[d] = cmd[d]
      BY <3>1 DEF Begin, InTransaction, LedgerInv, TypeInv, TypeOK, CallTypeOK
    <3> QED
      BY <3>2, <3>3, LockKept, LedgerKept DEF LedgerInv
  <2>3. CASE \E c \in Calls : CallStep(c) \/ CrashCall(c)
    BY <2>3, CallStepLedger
  <2>4. CASE \E k \in Workers : WorkerStep(k) \/ CrashWorker(k)
    BY <2>4, WorkerStepLedger
  <2>5. CASE (\E t \in TxIds : BecomeDue(t)) \/ UNCHANGED vars
    <3>1. UNCHANGED <<wallets, ledger, lock, copy, moved, seen>> /\ UNCHANGED <<pc, cmd>>
      BY <2>5 DEF BecomeDue, vars, dbVars, callVars, workerVars
    <3> QED
      BY <3>1, LockKept, LedgerKept DEF LedgerInv, InTransaction
  <2> QED
    BY <2>1, <2>2, <2>3, <2>4, <2>5 DEF Next
<1> QED
  BY <1>1, <1>2 DEF LedgerInv

\* No transaction ever computes with a wallet somebody else has changed since
\* it was read: the FOR UPDATE lock is held until the commit or rollback.
THEOREM NoStaleWallet == Spec => []SeenIsCurrent
<1>1. LedgerInv => SeenIsCurrent
  BY DEF LedgerInv, LockInv
<1> QED
  BY InitLedger, LedgerInvInductive, <1>1, PTL DEF Spec

\* Every wallet's ledger always leads from zero to its balance, entry by
\* entry, whatever submits, retry batches, crashes and aborts interleave.
THEOREM LedgerNeverBreaks == Spec => []LedgerChain
<1>1. LedgerInv => LedgerChain
  BY DEF LedgerInv
<1> QED
  BY InitLedger, LedgerInvInductive, <1>1, PTL DEF Spec

-----------------------------------------------------------------------------
(* Claims                                                                  *)

\* A call holds the lock of no wallet but its own, and only inside its
\* transaction.
HoldersInside ==
  \A w \in Wallets, c \in Calls :
    lock[w] = c => InTransaction(c) /\ cmd[c].wallet = w

\* A claimed row clashes with nothing committed and nothing else claimed.
ClaimsApart ==
  \A c \in Calls : InFlight(c) =>
    /\ \A t \in Stored(txs) : ~Clash(txs[t].cmd, cmd[c])
    /\ \A d \in Calls : InFlight(d) /\ d # c => ~Clash(cmd[d], cmd[c])

\* A worker only updates rows that are committed, and never what they ask.
UpdatesOnly ==
  \A k \in Workers : \A t \in Stored(written[k]) :
    txs[t] # None /\ written[k][t].cmd = txs[t].cmd

\* A committed row is what its call was asked, or the OPENING of its wallet.
RowsOwned ==
  \A t \in Stored(txs) :
    IF t \in Calls THEN pc[t] # "idle" /\ txs[t].cmd = cmd[t]
                   ELSE /\ txs[t].cmd.key = t /\ txs[t].cmd.ext = t
                        /\ txs[t].cmd.wallet = t

ClaimInv ==
  /\ TypeInv /\ HoldersInside /\ ClaimsApart /\ UpdatesOnly /\ RowsOwned
  /\ OneRowPerClaim

LEMMA InitClaim == Init => ClaimInv
<1> SUFFICES ASSUME Init PROVE ClaimInv
  OBVIOUS
<1>1. HoldersInside
  BY IdsAssumption DEF Init, HoldersInside, NoCopies, Procs
<1>2. ClaimsApart
  BY DEF Init, ClaimsApart, InFlight
<1>3. UpdatesOnly /\ OneRowPerClaim
  BY DEF Init, UpdatesOnly, OneRowPerClaim, Stored, NoWrites
<1>4. RowsOwned
  BY DEF Init, RowsOwned, Stored, NoWrites
<1> QED
  BY <1>1, <1>2, <1>3, <1>4, InitType DEF ClaimInv

-----------------------------------------------------------------------------
(* Locks                                                                   *)

LEMMA HoldersKept ==
  ASSUME ClaimInv, [Next]_vars
  PROVE  HoldersInside'
<1> USE DEF ClaimInv
<1>1. ASSUME NEW c \in Calls, NEW next, EndCall(c, next), UNCHANGED cmd
      PROVE  HoldersInside'
  <2>1. \A w \in Wallets, d \in Calls : lock'[w] = d => lock[w] = d /\ d # c
    BY <1>1, IdsAssumption DEF EndCall, Released, Procs
  <2>2. \A d \in Calls : d # c => pc'[d] = pc[d]
    BY <1>1 DEF EndCall, TypeInv, TypeOK, CallTypeOK
  <2> QED
    BY <1>1, <2>1, <2>2 DEF HoldersInside, InTransaction
<1>2. ASSUME NEW k \in Workers, EndBatch(k), UNCHANGED callVars
      PROVE  HoldersInside'
  <2>1. \A w \in Wallets, d \in Calls : lock'[w] = d => lock[w] = d
    BY <1>2, IdsAssumption DEF EndBatch, Released, Procs
  <2> QED
    BY <1>2, <2>1 DEF HoldersInside, InTransaction, callVars
<1>3. ASSUME UNCHANGED lock,
             \A c \in Calls : InTransaction(c) => InTransaction(c)' /\ cmd'[c] = cmd[c]
      PROVE  HoldersInside'
  BY <1>3 DEF HoldersInside
<1>4. ASSUME NEW c \in Calls, CallStep(c) \/ CrashCall(c) PROVE HoldersInside'
  <2>1. CASE RefuseCommand(c) \/ ClaimConflict(c) \/ AbortCall(c) \/ CrashCall(c)
             \/ Finish(c)
    BY <1>1, <2>1 DEF RefuseCommand, ClaimConflict, AbortCall, CrashCall, Finish
  <2>2. CASE LockWallet(c)
    <3>1. /\ lock' = [lock EXCEPT ![cmd[c].wallet] = c] /\ UNCHANGED cmd
          /\ pc' = [pc EXCEPT ![c] = "claim"]
      BY <2>2 DEF LockWallet
    <3> QED
      BY <3>1 DEF HoldersInside, InTransaction, TypeInv, TypeOK, DbTypeOK, CallTypeOK
  <2>3. CASE Claim(c) \/ Resolve(c) \/ LookupKey(c) \/ LookupExternal(c)
    <3>1. UNCHANGED <<lock, cmd>>
      BY <2>3 DEF Claim, Resolve, LookupKey, LookupExternal
    <3>2. \A d \in Calls : InTransaction(d) => InTransaction(d)'
      BY <2>3
      DEF Claim, Resolve, LookupKey, LookupExternal, InTransaction,
          TypeInv, TypeOK, CallTypeOK
    <3> QED
      BY <3>1, <3>2, <1>3
  <2> QED
    BY <1>4, <2>1, <2>2, <2>3 DEF CallStep
<1>5. ASSUME NEW k \in Workers, WorkerStep(k) \/ CrashWorker(k) PROVE HoldersInside'
  <2>1. CASE SelectBatch(k) \/ ResolveItem(k)
    BY <2>1, <1>3 DEF SelectBatch, ResolveItem, callVars, InTransaction
  <2>2. CASE CommitBatch(k) \/ AbortWorker(k) \/ CrashWorker(k)
    BY <2>2, <1>2 DEF CommitBatch, AbortWorker, CrashWorker
  <2>3. CASE ApplyItem(k) /\ EndBatch(k)
    BY <2>3, <1>2 DEF ApplyItem
  <2>4. CASE ApplyItem(k) /\ ~EndBatch(k)
    <3>1. PICK w : lock' = [lock EXCEPT ![w] = k]
      BY <2>4 DEF ApplyItem
    <3>2. UNCHANGED callVars
      BY <2>4 DEF ApplyItem
    <3>3. \A v \in Wallets, d \in Calls : lock'[v] = d => lock[v] = d
      BY <3>1, IdsAssumption DEF TypeInv, TypeOK, DbTypeOK
    <3> QED
      BY <3>2, <3>3 DEF HoldersInside, InTransaction, callVars
  <2> QED
    BY <1>5, <2>1, <2>2, <2>3, <2>4 DEF WorkerStep
<1>6. ASSUME NEW c \in Calls, NEW m \in AllCommands, Begin(c, m) PROVE HoldersInside'
  <2>1. UNCHANGED lock
    BY <1>6 DEF Begin
  <2>2. \A d \in Calls : InTransaction(d) => InTransaction(d)' /\ cmd'[d] = cmd[d]
    BY <1>6 DEF Begin, InTransaction, TypeInv, TypeOK, CallTypeOK
  <2> QED
    BY <2>1, <2>2, <1>3
<1>7. CASE \/ \E w \in Wallets, o \in AllOpenings : OpenWallet(w, o)
           \/ \E t \in TxIds : BecomeDue(t)
           \/ UNCHANGED vars
  <2>1. UNCHANGED lock /\ UNCHANGED callVars
    BY <1>7 DEF OpenWallet, BecomeDue, vars
  <2> QED
    BY <2>1, <1>3 DEF callVars, InTransaction
<1> QED
  BY <1>4, <1>5, <1>6, <1>7 DEF Next

\* A call that has claimed waits for nobody, one that claims waits for those
\* that have claimed, and one that asks for a wallet for those inside.
LEMMA NoCycleOfSubmits == ClaimInv => SubmitsNeverDeadlock
<1> SUFFICES ASSUME ClaimInv, NEW S \in SUBSET Calls, Stuck(S) PROVE FALSE
  BY DEF SubmitsNeverDeadlock
<1>1. \A p \in S : WaitsFor(p) \cap S # {} /\ p \in Calls
  BY DEF Stuck
<1>2. \A p \in S : pc[p] \in {"lock", "claim"}
  BY <1>1 DEF WaitsFor
<1>3. \A p \in S : ~InFlight(p)
  BY <1>2 DEF InFlight
<1>4. \A p \in S : pc[p] # "claim"
  <2> SUFFICES ASSUME NEW p \in S, pc[p] = "claim" PROVE FALSE
    OBVIOUS
  <2>1. WaitsFor(p) = ClaimWaitsFor(p)
    BY <1>1 DEF WaitsFor
  <2>2. PICK d \in S : d \in ClaimWaitsFor(p)
    BY <2>1, <1>1
  <2>3. d \notin Workers
    BY IdsAssumption
  <2> QED
    BY <2>2, <2>3, <1>3 DEF ClaimWaitsFor
<1>5. \A p \in S : pc[p] = "lock"
  BY <1>2, <1>4
<1>6. PICK p \in S : TRUE
  BY DEF Stuck
<1>7. PICK d \in S : d \in WalletHolder(cmd[p].wallet, p)
  BY <1>1, <1>5 DEF WaitsFor
<1>8. cmd[p].wallet \in Wallets
  BY <1>1, <1>5, CommandsAssumption DEF ClaimInv, TypeInv, CallReady
<1>9. InTransaction(d)
  BY <1>1, <1>7, <1>8 DEF WalletHolder, ClaimInv, HoldersInside
<1> QED
  BY <1>5, <1>9 DEF InTransaction

-----------------------------------------------------------------------------
(* Claims                                                                  *)

\* A step that commits no new row and claims nothing keeps claims apart.
LEMMA ClaimsKept ==
  ASSUME ClaimInv,
         \A t \in Stored(txs') : t \in Stored(txs) /\ txs'[t].cmd = txs[t].cmd,
         \A c \in Calls : pc[c] # "idle" => pc'[c] # "idle" /\ cmd'[c] = cmd[c],
         \A c \in Calls : InFlight(c)' => InFlight(c)
  PROVE  ClaimsApart' /\ OneRowPerClaim' /\ RowsOwned'
<1>1. \A c \in Calls : InFlight(c)' => cmd'[c] = cmd[c]
  BY DEF InFlight
<1>2. ClaimsApart'
  BY <1>1 DEF ClaimInv, ClaimsApart
<1>3. OneRowPerClaim'
  BY DEF ClaimInv, OneRowPerClaim
<1>4. RowsOwned'
  BY DEF ClaimInv, RowsOwned
<1> QED
  BY <1>2, <1>3, <1>4

\* What is committed stays committed under the same command, so workers still
\* update only what is there.
LEMMA UpdatesKept ==
  ASSUME ClaimInv, UNCHANGED written,
         \A t \in Stored(txs) : txs'[t] # None /\ txs'[t].cmd = txs[t].cmd
  PROVE  UpdatesOnly'
<1> SUFFICES ASSUME NEW k \in Workers, NEW t \in Stored(written[k])
             PROVE  txs'[t] # None /\ written[k][t].cmd = txs'[t].cmd
  BY DEF UpdatesOnly
<1>1. txs[t] # None /\ written[k][t].cmd = txs[t].cmd /\ t \in TxIds
  BY DEF ClaimInv, UpdatesOnly, Stored, TypeInv, TypeOK, WorkerTypeOK
<1>2. t \in Stored(txs)
  BY <1>1 DEF Stored, ClaimInv, TypeInv, TypeOK, DbTypeOK
<1> QED
  BY <1>1, <1>2

\* A new row that clashes with no committed and no claimed one keeps them all
\* apart; its own call, if a call commits it, is no longer in flight.
LEMMA NewRowClaims ==
  ASSUME ClaimInv, NEW t \in TxIds, NEW row \in Rows,
         txs' = [txs EXCEPT ![t] = row], UNCHANGED cmd,
         \A u \in Stored(txs) : ~Clash(txs[u].cmd, row.cmd),
         \A c \in Calls : InFlight(c)' => InFlight(c) /\ ~Clash(cmd[c], row.cmd),
         \A c \in Calls : pc[c] # "idle" => pc'[c] # "idle",
         IF t \in Calls THEN pc[t] # "idle" /\ row.cmd = cmd[t]
                        ELSE row.cmd.key = t /\ row.cmd.ext = t /\ row.cmd.wallet = t
  PROVE  /\ ClaimsApart' /\ OneRowPerClaim' /\ RowsOwned'
         /\ \A u \in Stored(txs) : txs'[u] # None /\ txs'[u].cmd = txs[u].cmd
<1>1. \A a, b : Clash(a, b) <=> Clash(b, a)
  BY DEF Clash
<1>2. t \notin Stored(txs) /\ Stored(txs') = Stored(txs) \cup {t}
  <2>1. Clash(row.cmd, row.cmd)
    BY DEF Clash
  <2>2. t \in Stored(txs) => txs[t].cmd.key = row.cmd.key
    BY DEF ClaimInv, RowsOwned
  <2>3. t \notin Stored(txs)
    BY <2>2 DEF Clash
  <2>4. Stored(txs') = Stored(txs) \cup {t}
    BY RowAssumption DEF Stored, ClaimInv, TypeInv, TypeOK, DbTypeOK
  <2> QED
    BY <2>3, <2>4
<1>3. \A u \in TxIds : txs'[u] = IF u = t THEN row ELSE txs[u]
  BY DEF ClaimInv, TypeInv, TypeOK, DbTypeOK
<1>4. Stored(txs) \subseteq TxIds
  BY DEF Stored, ClaimInv, TypeInv, TypeOK, DbTypeOK
<1>5. ASSUME NEW u \in Stored(txs)
      PROVE  u # t /\ txs'[u] = txs[u] /\ u \in Stored(txs')
  BY <1>2, <1>3, <1>4
<1>6. \A u \in Stored(txs') : (u = t /\ txs'[u] = row) \/ u \in Stored(txs)
  BY <1>2, <1>3
<1>7. OneRowPerClaim'
  <2> SUFFICES ASSUME NEW u \in Stored(txs'), NEW v \in Stored(txs'),
                      Clash(txs'[u].cmd, txs'[v].cmd)
               PROVE  u = v
    BY DEF OneRowPerClaim
  <2> QED
    BY <1>1, <1>5, <1>6 DEF ClaimInv, OneRowPerClaim
<1>8. ClaimsApart'
  <2> SUFFICES ASSUME NEW c \in Calls, InFlight(c)'
               PROVE  /\ \A u \in Stored(txs') : ~Clash(txs'[u].cmd, cmd[c])
                      /\ \A d \in Calls : InFlight(d)' /\ d # c => ~Clash(cmd[d], cmd[c])
    BY DEF ClaimsApart
  <2> QED
    BY <1>1, <1>5, <1>6 DEF ClaimInv, ClaimsApart
<1>9. RowsOwned'
  <2> SUFFICES ASSUME NEW u \in Stored(txs')
               PROVE  IF u \in Calls THEN pc'[u] # "idle" /\ txs'[u].cmd = cmd[u]
                                     ELSE /\ txs'[u].cmd.key = u /\ txs'[u].cmd.ext = u
                                          /\ txs'[u].cmd.wallet = u
    BY DEF RowsOwned
  <2> QED
    BY <1>5, <1>6 DEF ClaimInv, RowsOwned
<1>10. \A u \in Stored(txs) : txs[u] # None
  BY DEF Stored
<1> QED
  BY <1>5, <1>7, <1>8, <1>9, <1>10

LEMMA OpenWalletClaims ==
  ASSUME ClaimInv, NEW w \in Wallets, NEW o \in AllOpenings, OpenWallet(w, o)
  PROVE  ClaimsApart' /\ OneRowPerClaim' /\ RowsOwned' /\ UpdatesOnly'
<1> DEFINE row == OpeningRow(w, o)
<1>1. row.cmd.key = w /\ row.cmd.ext = w /\ row.cmd.wallet = w /\ row \in Rows
  BY OpeningRowType DEF OpeningRow
<1>2. UNCHANGED cmd /\ UNCHANGED pc /\ UNCHANGED written
  BY DEF OpenWallet, callVars, workerVars
<1>3. \A c \in Calls : pc[c] # "idle" => ~Clash(cmd[c], row.cmd)
  BY <1>1 DEF OpenWallet, FreshId, Clash
<1>4. w \in TxIds /\ w \notin Calls
  BY IdsAssumption DEF TxIds
<1>5. txs' = txs \/ txs' = [txs EXCEPT ![w] = row]
  BY DEF OpenWallet
<1> HIDE DEF row
<1>6. CASE txs' = txs
  BY <1>2, <1>6, ClaimsKept, UpdatesKept DEF InFlight, Stored
<1>7. CASE txs' # txs
  <2>1. txs' = [txs EXCEPT ![w] = row]
    BY <1>5, <1>7
  <2>2. w \notin Stored(txs)
    <3> SUFFICES ASSUME w \in Stored(txs) PROVE FALSE
      OBVIOUS
    <3>1. txs[w].cmd.wallet = w
      BY <1>4 DEF ClaimInv, RowsOwned
    <3>2. txs[w] \in Rows
      BY <1>4 DEF Stored, ClaimInv, TypeInv, TypeOK, DbTypeOK
    <3>3. wallets[w] \in WalletRows
      BY <1>4, <3>1, <3>2 DEF ClaimInv, TypeInv, BatchReady
    <3> QED
      BY <3>3, RowAssumption DEF OpenWallet
  <2>3. \A u \in Stored(txs) : ~Clash(txs[u].cmd, row.cmd)
    <3> SUFFICES ASSUME NEW u \in Stored(txs) PROVE ~Clash(txs[u].cmd, row.cmd)
      OBVIOUS
    <3>1. CASE u \in Calls
      BY <1>3, <3>1 DEF ClaimInv, RowsOwned
    <3>2. CASE u \notin Calls
      <4>1. u # w
        BY <2>2
      <4> QED
        BY <1>1, <3>2, <4>1 DEF ClaimInv, RowsOwned, Clash
    <3> QED
      BY <3>1, <3>2
  <2>4. \A c \in Calls : InFlight(c)' => InFlight(c) /\ ~Clash(cmd[c], row.cmd)
    BY <1>2, <1>3 DEF InFlight
  <2>5. /\ ClaimsApart' /\ OneRowPerClaim' /\ RowsOwned'
        /\ \A u \in Stored(txs) : txs'[u] # None /\ txs'[u].cmd = txs[u].cmd
    BY <1>1, <1>2, <1>4, <2>1, <2>3, <2>4, NewRowClaims
  <2> QED
    BY <1>2, <2>5, UpdatesKept
<1> QED
  BY <1>6, <1>7

LEMMA ClaimClaims ==
  ASSUME ClaimInv, NEW c \in Calls, Claim(c)
  PROVE  ClaimsApart' /\ OneRowPerClaim' /\ RowsOwned'
<1>1. /\ pc[c] = "claim" /\ ClaimWaitsFor(c) = {} /\ ~CommittedClash(cmd[c])
      /\ UNCHANGED txs /\ UNCHANGED cmd
  BY DEF Claim, dbVars
<1>2. \A d \in Calls : /\ d # c => pc'[d] = pc[d]
                       /\ pc'[d] = "idle" <=> pc[d] = "idle"
  BY DEF Claim, ClaimInv, TypeInv, TypeOK, CallTypeOK
<1>3. \A d \in Calls : InFlight(d)' => d = c \/ InFlight(d)
  BY <1>2 DEF InFlight
<1>4. \A d \in Calls : InFlight(d) => d # c /\ ~Clash(cmd[d], cmd[c]) /\ ~Clash(cmd[c], cmd[d])
  BY <1>1 DEF ClaimWaitsFor, InFlight, Clash
<1>5. \A t \in Stored(txs) : ~Clash(txs[t].cmd, cmd[c])
  BY <1>1 DEF CommittedClash
<1>6. ClaimsApart'
  <2> SUFFICES ASSUME NEW d \in Calls, InFlight(d)'
               PROVE  /\ \A t \in Stored(txs) : ~Clash(txs[t].cmd, cmd[d])
                      /\ \A b \in Calls : InFlight(b)' /\ b # d => ~Clash(cmd[b], cmd[d])
    BY <1>1 DEF ClaimsApart
  <2> QED
    BY <1>3, <1>4, <1>5 DEF ClaimInv, ClaimsApart
<1>7. OneRowPerClaim' /\ RowsOwned'
  BY <1>1, <1>2 DEF ClaimInv, OneRowPerClaim, RowsOwned
<1> QED
  BY <1>6, <1>7

LEMMA FinishClaims ==
  ASSUME ClaimInv, NEW c \in Calls, Finish(c)
  PROVE  ClaimsApart' /\ OneRowPerClaim' /\ RowsOwned' /\ UpdatesOnly'
<1> DEFINE row == CallEffect(c).row
<1>1. pc[c] = "finish" /\ InFlight(c) /\ UNCHANGED cmd /\ UNCHANGED written
  BY DEF Finish, InFlight, workerVars
<1>2. row \in Rows /\ row.cmd = cmd[c] /\ c \in TxIds
  BY <1>1, CallEffectType DEF ClaimInv, TxIds
<1>3. PICK next \in {"done", "lookupKey"} : pc' = [pc EXCEPT ![c] = next]
  BY DEF Finish, EndCall
<1>4. \A d \in Calls : /\ pc[d] # "idle" => pc'[d] # "idle"
                       /\ InFlight(d)' => InFlight(d) /\ d # c
  BY <1>3 DEF InFlight, ClaimInv, TypeInv, TypeOK, CallTypeOK
<1>5. txs' = txs \/ txs' = [txs EXCEPT ![c] = row]
  BY DEF Finish, dbVars
<1> HIDE DEF row
<1>6. CASE txs' = txs
  BY <1>1, <1>4, <1>6, ClaimsKept, UpdatesKept DEF Stored
<1>7. CASE txs' = [txs EXCEPT ![c] = row]
  <2>1. \A u \in Stored(txs) : ~Clash(txs[u].cmd, row.cmd)
    BY <1>1, <1>2 DEF ClaimInv, ClaimsApart
  <2>2. \A d \in Calls : InFlight(d)' => InFlight(d) /\ ~Clash(cmd[d], row.cmd)
    BY <1>1, <1>2, <1>4 DEF ClaimInv, ClaimsApart
  <2>3. /\ ClaimsApart' /\ OneRowPerClaim' /\ RowsOwned'
        /\ \A u \in Stored(txs) : txs'[u] # None /\ txs'[u].cmd = txs[u].cmd
    BY <1>1, <1>2, <1>4, <1>7, <2>1, <2>2, NewRowClaims
  <2> QED
    BY <1>1, <2>3, UpdatesKept
<1> QED
  BY <1>5, <1>6, <1>7

LEMMA CallStepClaims ==
  ASSUME ClaimInv, NEW c \in Calls, CallStep(c) \/ CrashCall(c)
  PROVE  ClaimsApart' /\ OneRowPerClaim' /\ RowsOwned' /\ UpdatesOnly'
<1>1. CASE Claim(c)
  BY <1>1, ClaimClaims, UpdatesKept DEF Claim, dbVars, workerVars, Stored
<1>2. CASE Finish(c)
  BY <1>2, FinishClaims
<1>3. CASE ~Claim(c) /\ ~Finish(c)
  <2>1. UNCHANGED txs /\ UNCHANGED cmd /\ UNCHANGED written
    BY <1>3
    DEF CallStep, RefuseCommand, LockWallet, ClaimConflict, Resolve, LookupKey,
        LookupExternal, AbortCall, CrashCall, dbVars, workerVars
  <2>2. \E next \in {"done", "lookupKey", "lookupExternal", "claim", "finish"} :
          pc' = [pc EXCEPT ![c] = next] /\ (next = "finish" => pc[c] = "resolve")
    BY <1>3
    DEF CallStep, RefuseCommand, LockWallet, ClaimConflict, Resolve, LookupKey,
        LookupExternal, AbortCall, CrashCall, EndCall
  <2>3. \A d \in Calls : /\ pc[d] # "idle" => pc'[d] # "idle"
                         /\ InFlight(d)' => InFlight(d)
    BY <2>2 DEF InFlight, ClaimInv, TypeInv, TypeOK, CallTypeOK
  <2> QED
    BY <2>1, <2>3, ClaimsKept, UpdatesKept DEF Stored
<1> QED
  BY <1>1, <1>2, <1>3

\* What a worker writes or commits are rows that are there, asked the same.
LEMMA DecidedUpdates ==
  ASSUME ClaimInv, NEW k \in Workers, todo[k] # <<>>, NEW row \in Rows,
         row.cmd = txs[Head(todo[k])].cmd, Decided(k, Head(todo[k]), row),
         UNCHANGED txs
  PROVE  UpdatesOnly'
<1> DEFINE t == Head(todo[k])
<1>1. t \in TxIds /\ txs[t] \in Rows /\ txs[t] # None
  BY HeadType, RowAssumption DEF ClaimInv
<1>2. written' = [written EXCEPT ![k] = [written[k] EXCEPT ![t] = row]]
  BY DEF Decided
<1>3. row.cmd = txs[t].cmd
  OBVIOUS
<1> HIDE DEF t
<1> SUFFICES ASSUME NEW j \in Workers, NEW u \in Stored(written'[j])
             PROVE  txs[u] # None /\ written'[j][u].cmd = txs[u].cmd
  BY DEF UpdatesOnly
<1>4. CASE j = k /\ u = t
  BY <1>1, <1>2, <1>3, <1>4 DEF ClaimInv, TypeInv, TypeOK, WorkerTypeOK
<1>5. CASE ~(j = k /\ u = t)
  <2>1. u \in TxIds /\ written'[j][u] # None
    BY <1>2 DEF Stored, ClaimInv, TypeInv, TypeOK, WorkerTypeOK
  <2>2. written'[j][u] = written[j][u]
    BY <1>2, <1>5, <2>1 DEF ClaimInv, TypeInv, TypeOK, WorkerTypeOK
  <2>3. u \in Stored(written[j])
    BY <2>1, <2>2 DEF Stored, ClaimInv, TypeInv, TypeOK, WorkerTypeOK
  <2> QED
    BY <2>2, <2>3 DEF ClaimInv, UpdatesOnly
<1> QED
  BY <1>4, <1>5

LEMMA EndBatchUpdates ==
  ASSUME ClaimInv, NEW k \in Workers, EndBatch(k),
         \A t \in Stored(txs) : txs'[t] # None /\ txs'[t].cmd = txs[t].cmd
  PROVE  UpdatesOnly'
<1> SUFFICES ASSUME NEW j \in Workers, NEW t \in Stored(written'[j])
             PROVE  txs'[t] # None /\ written'[j][t].cmd = txs'[t].cmd
  BY DEF UpdatesOnly
<1>1. written' = [written EXCEPT ![k] = NoWrites]
  BY DEF EndBatch
<1>2. j # k /\ written'[j] = written[j]
  BY <1>1 DEF NoWrites, Stored, ClaimInv, TypeInv, TypeOK, WorkerTypeOK
<1>3. txs[t] # None /\ written[j][t].cmd = txs[t].cmd /\ t \in TxIds
  BY <1>2 DEF ClaimInv, UpdatesOnly, Stored, TypeInv, TypeOK, WorkerTypeOK
<1>4. t \in Stored(txs)
  BY <1>3 DEF Stored, ClaimInv, TypeInv, TypeOK, DbTypeOK
<1> QED
  BY <1>2, <1>3, <1>4

LEMMA WorkerStepClaims ==
  ASSUME ClaimInv, NEW k \in Workers, WorkerStep(k) \/ CrashWorker(k)
  PROVE  ClaimsApart' /\ OneRowPerClaim' /\ RowsOwned' /\ UpdatesOnly'
<1>1. UNCHANGED callVars
  BY DEF WorkerStep, SelectBatch, ResolveItem, ApplyItem, CommitBatch,
         AbortWorker, CrashWorker
<1>2. UNCHANGED pc /\ UNCHANGED cmd
  BY <1>1 DEF callVars
<1>3. CASE CommitBatch(k)
  <2>1. txs' = WorkerView(k) /\ EndBatch(k)
    BY <1>3 DEF CommitBatch
  <2>2. \A t \in TxIds : txs'[t] = IF written[k][t] # None THEN written[k][t] ELSE txs[t]
    BY <2>1 DEF WorkerView
  <2>3. /\ DOMAIN txs = TxIds /\ DOMAIN txs' = TxIds /\ DOMAIN written[k] = TxIds
    BY <2>1 DEF WorkerView, ClaimInv, TypeInv, TypeOK, DbTypeOK, WorkerTypeOK
  <2>4. ASSUME NEW t \in TxIds
        PROVE  IF txs[t] = None THEN txs'[t] = None
                                ELSE txs'[t] # None /\ txs'[t].cmd = txs[t].cmd
    <3>1. CASE written[k][t] = None
      BY <2>2, <3>1
    <3>2. CASE written[k][t] # None
      <4>1. t \in Stored(written[k])
        BY <2>3, <3>2 DEF Stored
      <4>2. txs[t] # None /\ written[k][t].cmd = txs[t].cmd
        BY <4>1 DEF ClaimInv, UpdatesOnly
      <4>3. txs'[t] = written[k][t]
        BY <2>2, <3>2
      <4> QED
        BY <3>2, <4>2, <4>3
    <3> QED
      BY <3>1, <3>2
  <2>5. /\ Stored(txs) = {t \in TxIds : txs[t] # None}
        /\ Stored(txs)' = {t \in TxIds : txs'[t] # None}
    BY <2>3 DEF Stored
  <2>6. \A t \in Stored(txs') : t \in Stored(txs) /\ txs'[t].cmd = txs[t].cmd
    BY <2>4, <2>5 DEF Stored
  <2>7. \A t \in Stored(txs) : txs'[t] # None /\ txs'[t].cmd = txs[t].cmd
    BY <2>4, <2>5
  <2>8. \A c \in Calls : /\ pc[c] # "idle" => pc'[c] # "idle" /\ cmd'[c] = cmd[c]
                         /\ InFlight(c)' => InFlight(c)
    BY <1>2 DEF InFlight
  <2>9. ClaimsApart' /\ OneRowPerClaim' /\ RowsOwned'
    BY <2>6, <2>8, ClaimsKept
  <2> QED
    BY <2>1, <2>7, <2>9, EndBatchUpdates
<1>4. CASE ~CommitBatch(k)
  <2>1. UNCHANGED txs
    BY <1>4 DEF WorkerStep, SelectBatch, ResolveItem, ApplyItem,
                AbortWorker, CrashWorker, dbVars
  <2>2. ClaimsApart' /\ OneRowPerClaim' /\ RowsOwned'
    BY <1>2, <2>1, ClaimsKept DEF InFlight
  <2>3. CASE EndBatch(k)
    BY <2>1, <2>2, <2>3, EndBatchUpdates DEF Stored
  <2>4. CASE UNCHANGED written
    BY <2>1, <2>2, <2>4, UpdatesKept DEF Stored
  <2>5. CASE ApplyItem(k) /\ ~EndBatch(k)
    <3>1. Decided(k, Head(todo[k]), ItemEffect(k).row) /\ wpc[k] = "lock"
      BY <2>5 DEF ApplyItem
    <3>2. todo[k] # <<>>
      BY <3>1 DEF ClaimInv, TypeInv, BatchReady
    <3>3. ItemEffect(k).row \in Rows
          /\ ItemEffect(k).row.cmd = txs[Head(todo[k])].cmd
      BY <3>1, ItemEffectType DEF ClaimInv
    <3> QED
      BY <2>1, <2>2, <3>1, <3>2, <3>3, DecidedUpdates
  <2>6. CASE ResolveItem(k) /\ written' # written
    <3> DEFINE t == Head(todo[k])
               v == ResolveReference(WorkerView(k), txs[t].cmd)
               row == Unresolved(txs[t], v)
    <3>1. Decided(k, t, row) /\ todo[k] # <<>>
      BY <2>6 DEF ResolveItem
    <3>2. txs[t] \in Rows
      BY <3>1, HeadType DEF ClaimInv
    <3>3. v \in Verdicts /\ v.outcome # "resolved"
      BY <2>6, WorkerViewType, VerdictType DEF ResolveItem, ClaimInv
    <3>4. row \in Rows /\ row.cmd = txs[t].cmd
      BY <3>2, <3>3, UnresolvedType
    <3> QED
      BY <2>1, <2>2, <3>1, <3>4, DecidedUpdates
  <2> QED
    BY <1>4, <2>2, <2>3, <2>4, <2>5, <2>6
    DEF WorkerStep, SelectBatch, AbortWorker, CrashWorker
<1> QED
  BY <1>3, <1>4

LEMMA ClaimInvInductive == ClaimInv /\ [Next]_vars => ClaimInv'
<1> SUFFICES ASSUME ClaimInv, [Next]_vars PROVE ClaimInv'
  OBVIOUS
<1>1. TypeInv' /\ HoldersInside'
  BY TypeInvInductive, HoldersKept DEF ClaimInv
<1>2. ClaimsApart' /\ OneRowPerClaim' /\ RowsOwned' /\ UpdatesOnly'
  <2>1. CASE \E w \in Wallets, o \in AllOpenings : OpenWallet(w, o)
    BY <2>1, OpenWalletClaims
  <2>2. CASE \E c \in Calls : CallStep(c) \/ CrashCall(c)
    BY <2>2, CallStepClaims
  <2>3. CASE \E k \in Workers : WorkerStep(k) \/ CrashWorker(k)
    BY <2>3, WorkerStepClaims
  <2>4. CASE \E c \in Calls, m \in AllCommands : Begin(c, m)
    <3>1. PICK c \in Calls, m \in AllCommands : Begin(c, m)
      BY <2>4
    <3>2. /\ UNCHANGED txs /\ UNCHANGED written /\ pc[c] = "idle"
          /\ pc' = [pc EXCEPT ![c] = "lock"] /\ cmd' = [cmd EXCEPT ![c] = m]
      BY <3>1 DEF Begin, dbVars, workerVars
    <3>3. \A d \in Calls :
            /\ pc[d] # "idle" => pc'[d] # "idle" /\ cmd'[d] = cmd[d]
            /\ InFlight(d)' => InFlight(d)
      BY <3>2 DEF InFlight, ClaimInv, TypeInv, TypeOK, CallTypeOK
    <3> QED
      BY <3>2, <3>3, ClaimsKept, UpdatesKept DEF Stored
  <2>5. CASE (\E t \in TxIds : BecomeDue(t)) \/ UNCHANGED vars
    <3>1. UNCHANGED txs /\ UNCHANGED written /\ UNCHANGED pc /\ UNCHANGED cmd
      BY <2>5 DEF BecomeDue, vars, dbVars, callVars, workerVars
    <3> QED
      BY <3>1, ClaimsKept, UpdatesKept DEF Stored, InFlight
  <2> QED
    BY <2>1, <2>2, <2>3, <2>4, <2>5 DEF Next
<1> QED
  BY <1>1, <1>2 DEF ClaimInv

\* No two committed rows share an idempotency key or an external id, although
\* the claim reads nothing first and the calls may hold different wallets.
THEOREM ClaimsAreUnique == Spec => []OneRowPerClaim
<1>1. ClaimInv => OneRowPerClaim
  BY DEF ClaimInv
<1> QED
  BY InitClaim, ClaimInvInductive, <1>1, PTL DEF Spec

\* However many submits run, no set of them ever waits in a cycle: every one
\* locks its wallet first and claims its row second.
THEOREM SubmitsAlwaysProceed == Spec => []SubmitsNeverDeadlock
<1> QED
  BY InitClaim, ClaimInvInductive, NoCycleOfSubmits, PTL DEF Spec
====
