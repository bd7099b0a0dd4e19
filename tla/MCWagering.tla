---- MODULE MCWagering ----
(***************************************************************************)
(* Small instances of the wagering core.  Amounts are in one unit of money; *)
(* each run gets its own commands, chosen so that they meet: duplicates,   *)
(* reversals of one bet, clashes across wallets, references that are       *)
(* missing, late or wrong.                                                 *)
(***************************************************************************)
EXTENDS WageringProperties, TLC

CONSTANTS c1, c2, c3, c4, c5, c6, k1, k2, w1, w2

ThreeCalls == {c1, c2, c3}
FourCalls == {c1, c2, c3, c4}
SixCalls == {c1, c2, c3, c4, c5, c6}
TwoWorkersAlike == Permutations({k1, k2})
ThreeCallsAlike == Permutations(ThreeCalls)
RetryAlike == Permutations({c2, c3, c4}) \cup TwoWorkersAlike

Brl(n) == [player |-> "ana", currency |-> "BRL", amount |-> n]
OneOpening == (w1 :> {Brl(3)})
PoorOpening == (w1 :> {Brl(1)})   \* the bet and the rollback may be refused
TwoOpenings == (w1 :> {Brl(3)}) @@ (w2 :> {[Brl(3) EXCEPT !.player = "bia"]})
ManyOpenings ==
  (w1 :> {Brl(3)}) @@
  (w2 :> {[Brl(0) EXCEPT !.player = "bia"], Brl(3),
          [player |-> "bia", currency |-> "USD", amount |-> 1]})

Command(id, w, kind, amount, ref) ==
  [key |-> id, ext |-> id, player |-> "ana", wallet |-> w, round |-> "r1",
   kind |-> kind, amount |-> amount, currency |-> "BRL", ref |-> ref]

Named(id, m) == [m EXCEPT !.key = id, !.ext = id]

Bet == Command("bet", w1, "BET", 2, None)
Win == Command("win", w1, "WIN", 1, None)
Loss == Command("loss", w1, "LOSS", 2, None)
Refund == Command("refund", w1, "REFUND", 2, "bet")
OtherRefund == Command("refund2", w1, "REFUND", 2, "bet")
StrayRefund == Command("stray", w1, "REFUND", 2, "nothing")
Rollback == Command("rollback", w1, "ROLLBACK", 2, "bet")
RollbackOfRefund == Command("undo", w1, "ROLLBACK", 2, "refund")
RollbackOfWin == Command("unwin", w1, "ROLLBACK", 1, "win")

\* One wallet, every way in which a single command can go.
SubmitCommands ==
  { Bet, Win, Loss, Refund, RollbackOfWin,
    [Bet EXCEPT !.amount = 1, !.ext = "x"], \* same key, other payload
    [Bet EXCEPT !.key = "again"],         \* same external id, other key
    [Win EXCEPT !.key = w1],              \* the key of the OPENING row
    [Refund EXCEPT !.amount = 1],         \* does not match its bet
    [Bet EXCEPT !.amount = 0],            \* "0.00"
    [Win EXCEPT !.amount = 3], Named("win2", Win), \* more than a bigint holds
    [Loss EXCEPT !.player = "bia"], [Loss EXCEPT !.kind = "OPENING"],
    [Refund EXCEPT !.ref = None] }
SubmitAsked == [c \in ThreeCalls |-> SubmitCommands]

\* One wallet, reversals that wait and race for one bet.
RetryCommands == {Refund, OtherRefund, StrayRefund, RollbackOfRefund}
RetryAsked == [c \in FourCalls |-> IF c = c1 THEN {Bet} ELSE RetryCommands]

In(w, m) == [m EXCEPT !.wallet = w, !.player = "bia"]
\* Two wallets: the same key or external id under two locks, a reference
\* that belongs to the other wallet, a wallet in another currency.
TwoWalletCommands ==
  { Bet, In(w2, Bet), [In(w2, Bet) EXCEPT !.key = "other"], Refund,
    In(w2, Refund), Named("bet2", In(w2, Bet)) }
TwoWalletAsked == [c \in ThreeCalls |-> TwoWalletCommands]

\* Four rows wait in two wallets when their bets arrive.
CrossedAsked ==
  (c1 :> {Bet}) @@ (c2 :> {Refund}) @@ (c3 :> {Rollback})
    @@ (c4 :> {Named("bet2", In(w2, Bet))})
    @@ (c5 :> {[Named("refund2", In(w2, Refund)) EXCEPT !.ref = "bet2"]})
    @@ (c6 :> {[Named("rollback2", In(w2, Rollback)) EXCEPT !.ref = "bet2"]})

\* A client repeats a waiting reversal while another one becomes ready.
RepeatedAsked ==
  (c1 :> {Bet}) @@ (c2 :> {Refund}) @@ (c3 :> {StrayRefund})
    @@ (c4 :> {StrayRefund})

\* A refund waits for its bet; the win leaves no room for it.
OverflowAsked ==
  (c1 :> {Bet}) @@ (c2 :> {Refund}) @@ (c3 :> {[Win EXCEPT !.amount = 2]})

RacingRefundsAsked ==
  (c1 :> {Bet}) @@ (c2 :> {Refund}) @@ (c3 :> {OtherRefund})

RollbackAsked ==
  (c1 :> {Bet}) @@ (c2 :> {Refund}) @@ (c3 :> {RollbackOfRefund})
====
