---- MODULE Reads ----
(***************************************************************************)
(* The two reads of a wallet that take more than one statement, while      *)
(* other transactions commit: reconciliation (the wallet, then the sum of  *)
(* its entries) and the ledger, page by page.                              *)
(*                                                                         *)
(* Writers are the transactions that move the wallet: a submit with one    *)
(* entry, or a batch of the retry worker with several.  Each reads the     *)
(* clock (created_at) before it waits for the wallet's lock and makes the  *)
(* ids of its entries, UUIDv7, once it has it.  The reads are READ         *)
(* COMMITTED statements of no transaction; two requests do not interact,   *)
(* so there is one of each.                                                *)
(***************************************************************************)
EXTENDS Integers, SequencesExt

CONSTANTS Writers,
          Movements,  \* [Writers -> sequences of signed amounts]
          Opening,    \* the balance the wallet was opened with
          Limit,      \* entries of a page
          MaxTime,    \* bound on the clock
          None

Entries == [created : Nat, id : Nat \X Nat \X Nat, amount : Int]

ASSUME ReadsAssumption ==
  /\ IsFiniteSet(Writers) /\ Movements \in [Writers -> Seq(Int)]
  /\ None \notin Writers /\ None \notin Entries
  /\ Opening \in Nat \ {0} /\ Limit \in Nat \ {0} /\ MaxTime \in Nat

VARIABLES
  now,        \* the clock, in the resolution of created_at
  wpc, stamp, \* where each writer is, and when it began
  staged,     \* the entries of its open transaction
  lock,       \* the writer that holds the wallet FOR UPDATE
  balance,    \* the wallet's committed balance
  ledger,     \* its committed entries, in the order of their commits
  cursor,     \* the last entry the ledger reader was given, None at first
  ended,      \* whether its last page came without a next cursor
  pages,      \* entries it was given, in the order it got them
  readAt,     \* how many entries were committed at its first page
  stored,     \* the balance reconciliation read, and how many entries were
  report      \* committed then; what it answered

writeVars == <<wpc, stamp, staged, lock, balance, ledger>>
pageVars == <<cursor, ended, pages, readAt>>
auditVars == <<stored, report>>
vars == <<now, writeVars, pageVars, auditVars>>

OpeningEntry == [created |-> 0, id |-> <<0, 0, 1>>, amount |-> Opening]

Init ==
  /\ now = 0
  /\ wpc = [x \in Writers |-> "idle"] /\ stamp = [x \in Writers |-> None]
  /\ staged = [x \in Writers |-> <<>>] /\ lock = None
  /\ balance = Opening /\ ledger = <<OpeningEntry>>
  /\ cursor = None /\ ended = FALSE /\ pages = <<>> /\ readAt = 0
  /\ stored = None /\ report = None

Tick == now < MaxTime /\ now' = now + 1 /\ UNCHANGED <<writeVars, pageVars, auditVars>>

Sum(entries) == FoldSeq(LAMBDA e, total : e.amount + total, 0, entries)

-----------------------------------------------------------------------------
(* Transactions that move the wallet                                       *)

\* new Date(), before anything waits.
Begin(x) ==
  /\ wpc[x] = "idle"
  /\ wpc' = [wpc EXCEPT ![x] = "waiting"] /\ stamp' = [stamp EXCEPT ![x] = now]
  /\ UNCHANGED <<now, staged, lock, balance, ledger, pageVars, auditVars>>

\* Ids of one instant are in any order between processes, and in the order
\* they were made within one.
FreshTies == {r \in 1 .. Cardinality(Writers) :
                \A i \in 1 .. Len(ledger) : <<ledger[i].id[1], ledger[i].id[2]>> # <<now, r>>}

Apply(x) ==
  /\ wpc[x] = "waiting" /\ lock = None
  /\ \E r \in FreshTies :
       staged' = [staged EXCEPT ![x] =
                    [i \in 1 .. Len(Movements[x]) |->
                       [created |-> stamp[x], id |-> <<now, r, i>>,
                        amount |-> Movements[x][i]]]]
  /\ lock' = x /\ wpc' = [wpc EXCEPT ![x] = "open"]
  /\ UNCHANGED <<now, stamp, balance, ledger, pageVars, auditVars>>

EndWriter(x) ==
  /\ wpc[x] = "open"
  /\ wpc' = [wpc EXCEPT ![x] = "done"]
  /\ staged' = [staged EXCEPT ![x] = <<>>] /\ lock' = None
  /\ UNCHANGED <<now, stamp, pageVars, auditVars>>

\* Mutant: the balance is written without the entries of the transaction.
CommitBalance(x) ==
  /\ EndWriter(x)
  /\ balance' = balance + Sum(staged[x]) /\ UNCHANGED ledger

\* The entries and the balance become visible together.
Commit(x) ==
  /\ EndWriter(x)
  /\ ledger' = ledger \o staged[x] /\ balance' = balance + Sum(staged[x])

Rollback(x) == EndWriter(x) /\ UNCHANGED <<balance, ledger>>

-----------------------------------------------------------------------------
(* findPage                                                                *)

Less(a, b) == \* of two ids
  \/ a[1] < b[1]
  \/ a[1] = b[1] /\ (a[2] < b[2] \/ (a[2] = b[2] /\ a[3] < b[3]))

\* (created_at, id) > (?, ?), which is also the ORDER BY.
After(e, c) == e.created > c.created \/ (e.created = c.created /\ Less(c.id, e.id))

\* Mutant: the keyset is created_at alone.
PassesByTime(e, c) == c = None \/ e.created > c.created

Passes(e, c) == c = None \/ After(e, c)

Committed(n) == {ledger[i] : i \in 1 .. n}

Rest(c) == {e \in Committed(Len(ledger)) : Passes(e, c)}

\* Where ORDER BY puts an entry of a set.
Place(e, S) == Cardinality({x \in S : x = e \/ After(e, x)})

\* LIMIT: the first entries behind cursor c.
Page(c) ==
  LET found == Cardinality(Rest(c))
  IN [i \in 1 .. (IF found < Limit THEN found ELSE Limit) |->
        CHOOSE e \in Rest(c) : Place(e, Rest(c)) = i]

\* Mutant: the cursor is that of the first entry of the page.
FirstOf(page) == page[1]

\* nextCursor, that of the last entry of a full page.
NextCursor(page) == page[Len(page)]

ReadPage ==
  /\ ~ended
  /\ LET page == Page(cursor) IN
     /\ pages' = pages \o page
     /\ ended' = (Len(page) < Limit)
     /\ cursor' = IF ended' THEN cursor ELSE NextCursor(page)
  /\ readAt' = IF cursor = None THEN Len(ledger) ELSE readAt
  /\ UNCHANGED <<now, writeVars, auditVars>>

-----------------------------------------------------------------------------
(* ReconcileWalletUseCase.execute                                          *)

FindWallet ==
  /\ stored = None
  /\ stored' = [balance |-> balance, entries |-> Len(ledger)]
  /\ UNCHANGED <<now, writeVars, pageVars, report>>

\* recalculateBalance, and the comparison.
Recalculate ==
  /\ stored # None /\ report = None
  /\ LET difference == stored.balance - Sum(ledger) IN
     report' = [difference |-> difference, consistent |-> difference = 0,
                checkedEntries |-> Len(ledger)]
  /\ UNCHANGED <<now, writeVars, pageVars, stored>>

-----------------------------------------------------------------------------
Next ==
  \/ Tick \/ ReadPage \/ FindWallet \/ Recalculate
  \/ \E x \in Writers : Begin(x) \/ Apply(x) \/ Commit(x) \/ Rollback(x)

Spec == Init /\ [][Next]_vars

-----------------------------------------------------------------------------
(* Properties                                                              *)

TypeOK ==
  /\ now \in Nat
  /\ wpc \in [Writers -> {"idle", "waiting", "open", "done"}]
  /\ stamp \in [Writers -> Nat \cup {None}]
  /\ staged \in [Writers -> Seq(Entries)]
  /\ lock \in Writers \cup {None}
  /\ balance \in Int /\ ledger \in Seq(Entries)
  /\ cursor \in Entries \cup {None} /\ ended \in BOOLEAN
  /\ pages \in Seq(Entries) /\ readAt \in Nat
  /\ stored \in [balance : Int, entries : Nat] \cup {None}
  /\ report \in [difference : Int, consistent : BOOLEAN, checkedEntries : Nat]
                \cup {None}

\* A reported mismatch is exactly what was committed between the two reads
\* of the request, never a hole in the books: with nothing committed in
\* between the wallet is found consistent.
MismatchIsOvertaken ==
  report # None =>
    report.difference =
      -Sum(SubSeq(ledger, stored.entries + 1, report.checkedEntries))

\* The pages put together are in the order of the ledger and show no entry
\* twice, whatever commits between them and wherever it sorts.
PagesAscend ==
  \A i, j \in 1 .. Len(pages) : i < j => After(pages[j], pages[i])

\* An entry that was committed before the first page was asked for is never
\* skipped, whatever is inserted before and behind it meanwhile; only one
\* that commits during the listing, below a position already passed, is.
NothingSkipped ==
  \A e \in Committed(readAt) :
    (~ended /\ Passes(e, cursor)) \/ e \in ToSet(pages)
====
