---- MODULE MCOutbox ----
(***************************************************************************)
(* Small instances of the outbox: three events of two aggregates.          *)
(***************************************************************************)
EXTENDS Outbox, TLC

CONSTANTS e1, e2, e3, p1, p2

TwoAggregates == (e1 :> "w1") @@ (e2 :> "w1") @@ (e3 :> "w2")
OneAggregate == (e1 :> "w1") @@ (e2 :> "w1")
====
