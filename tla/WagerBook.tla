---- MODULE WagerBook ----
(***************************************************************************)
(* What the wagering core promises to those who only see its tables: one   *)
(* step decides a command or a set of waiting rows, and the rows, the      *)
(* balances and the ledger entries of that step agree.  There is no lock,  *)
(* no batch in progress, no crash and no retry here: a decision is taken   *)
(* at one instant, on the tables of that instant, and the decision itself  *)
(* says what must be true of them.                                         *)
(*                                                                         *)
(* accounts, rows and journal are the tables wallets, wager_transactions   *)
(* and wallet_ledger_entries.                                              *)
(***************************************************************************)
EXTENDS WagerDomain

CONSTANTS Ids, Wallets, MaxAttempts

VARIABLES accounts, rows, journal

bookVars == <<accounts, rows, journal>>

Init ==
  /\ accounts = [w \in Wallets |-> None]
  /\ rows = [t \in Ids |-> None]
  /\ journal = [w \in Wallets |-> <<>>]

-----------------------------------------------------------------------------
(* What a step does to the rows                                            *)

Changed == {t \in Ids : rows'[t] # rows[t]}
IsNew(t) == rows[t] = None
Attempts(t) == IF IsNew(t) THEN 0 ELSE rows[t].attempts

\* t is the one PROCESSED reversal of its kind of a PROCESSED transaction of
\* the same owner and amount.
Reverses(table, t) ==
  LET m == table[t].cmd
      r == table[t].refTx
  IN /\ r \in FindByExternal(table, m.ref)
     /\ table[r].status = "PROCESSED"
     /\ SameOwner(m, table[r].cmd)
     /\ table[r].cmd.amount = m.amount
     /\ table[r].cmd.kind \in ReversibleKinds(m.kind)
     /\ ProcessedReversals(table, r, m.kind) = {t}

\* Why the reference r refuses the reversal m.
RefusedBy(table, m, r, code) ==
  \/ code = "REFERENCE_MISMATCH" /\ ~SameOwner(m, table[r].cmd)
  \/ code = "REFERENCE_INVALID_KIND"
       /\ table[r].cmd.kind \notin ReversibleKinds(m.kind)
  \/ code = "REFERENCE_INVALID_STATE" /\ table[r].status \in {"REJECTED", "FAILED"}
  \/ code = "REFERENCE_AMOUNT_MISMATCH" /\ table[r].cmd.amount # m.amount
  \/ code = "REFERENCE_ALREADY_REVERSED"
       /\ ProcessedReversals(table, r, m.kind) # {}

\* The entries a step appends to a wallet, and the balances it goes through.
Grown(w) == Len(journal[w]) + 1 .. Len(journal'[w])
Balances(w) == {accounts[w].balance} \cup {journal'[w][i].after : i \in Grown(w)}

\* Why the wallet refuses the command m.
RefusedByWallet(m, code) ==
  \/ code = "WALLET_CURRENCY_MISMATCH" /\ m.currency # accounts[m.wallet].currency
  \/ /\ code = IF m.kind = "ROLLBACK" THEN "ROLLBACK_INSUFFICIENT_BALANCE"
                                      ELSE "INSUFFICIENT_BALANCE"
     /\ \E b \in Balances(m.wallet) : b < m.amount

Waits(t) ==
  /\ rows'[t].status = "PENDING_REFERENCE" /\ rows'[t].cmd.kind \in Reversals
  /\ rows'[t].attempts = Attempts(t) + 1 /\ rows'[t].attempts <= MaxAttempts
  /\ rows'[t].failure = None

Processes(t) ==
  /\ rows'[t].status = "PROCESSED"
  /\ rows'[t].attempts = Attempts(t) /\ rows'[t].failure = None
  /\ rows'[t].cmd.kind \in Reversals => Reverses(rows', t)

Rejects(t) ==
  /\ rows'[t].status = "REJECTED" /\ rows'[t].attempts = Attempts(t)
  /\ LET m == rows'[t].cmd
         code == rows'[t].failure
     IN \/ code = "REFERENCE_RESOLUTION_TIMEOUT" /\ Attempts(t) = MaxAttempts
        \/ RefusedByWallet(m, code)
        \/ \E r \in FindByExternal(rows', m.ref) : RefusedBy(rows', m, r, code)

\* Only a new row or a waiting one is decided, for what it was asked, and no
\* other row has its key or its external id.
Decides(t) ==
  /\ rows'[t] # None
  /\ ~IsNew(t) =>
       rows[t].status = "PENDING_REFERENCE" /\ rows'[t].cmd = rows[t].cmd
  /\ \A u \in Stored(rows') : Clash(rows'[u].cmd, rows'[t].cmd) => u = t
  /\ Waits(t) \/ Processes(t) \/ Rejects(t)

-----------------------------------------------------------------------------
(* What it does to the money                                               *)

\* Entry i of wallet w's new journal records the movement of row t.
Records(w, i, t) ==
  /\ journal'[w][i].tx = t
  /\ journal'[w][i].amount = rows'[t].cmd.amount
  /\ journal'[w][i].dir =
       LedgerDirectionFor(rows'[t].cmd.kind, RefKind(rows', rows'[t].refTx))

\* The journal keeps what it had and gains one entry for each decided row
\* that moves the wallet; its entries lead from zero to the balance.
Posts(w) ==
  /\ \A i \in 1 .. Len(journal[w]) :
       i <= Len(journal'[w]) /\ journal'[w][i] = journal[w][i]
  /\ \A t \in Changed : (Moves(rows'[t]) /\ rows'[t].cmd.wallet = w) =>
       \E i \in Grown(w) : Records(w, i, t)
  /\ \A i \in Grown(w) :
       LET t == journal'[w][i].tx IN
       /\ t \in Changed /\ Moves(rows'[t]) /\ rows'[t].cmd.wallet = w
       /\ Records(w, i, t)
       /\ \A j \in Grown(w) : journal'[w][j].tx = t => i = j
  /\ accounts'[w] # None => Chained(journal'[w], 0, accounts'[w].balance)

\* A wallet that is open stays what it is but for its balance, and counts its
\* entries.
Counts(w) ==
  IF accounts[w] = None THEN accounts'[w] = None
  ELSE accounts'[w] =
         [accounts[w] EXCEPT !.balance = accounts'[w].balance,
                             !.version = @ + Len(journal'[w]) - Len(journal[w])]

-----------------------------------------------------------------------------
\* A wallet is opened, with its opening transaction unless it is empty.
Open(w) ==
  /\ accounts[w] = None /\ accounts'[w] # None /\ accounts'[w].version = 1
  /\ accounts' = [accounts EXCEPT ![w] = accounts'[w]]
  /\ \A v \in Wallets \ {w} : accounts[v] # None =>
       ~(/\ accounts[v].player = accounts'[w].player
         /\ accounts[v].currency = accounts'[w].currency)
  /\ Changed = IF accounts'[w].balance = 0 THEN {} ELSE {w}
  /\ \A t \in Changed : Decides(t) /\ rows'[t].cmd.kind = "OPENING"
  /\ \A v \in Wallets : Posts(v)

Settle ==
  /\ \A t \in Changed : Decides(t)
  /\ \A w \in Wallets : Posts(w) /\ Counts(w)

\* One command is answered with one new row.
Submit(t) == IsNew(t) /\ Changed = {t} /\ Settle

\* Waiting rows are decided together.
Retry == (\A t \in Changed : ~IsNew(t)) /\ Settle

Next == (\E w \in Wallets : Open(w)) \/ (\E t \in Ids : Submit(t)) \/ Retry

Spec == Init /\ [][Next]_bookVars
====
