---- MODULE MCConsumer ----
(***************************************************************************)
(* A small instance of the consumers: a group of two messages, a second    *)
(* group that brings the command of one of them once more, and an API that *)
(* may take the key of the other for another payload: from then on that    *)
(* message is refused for ever, as a malformed one is from the beginning.  *)
(***************************************************************************)
EXTENDS Consumer, TLC

CONSTANTS m1, m2, m3, k1, k2

TwoGroups == (m1 :> "g1") @@ (m2 :> "g1") @@ (m3 :> "g2")
SharedKey == (m1 :> "a") @@ (m2 :> "b") @@ (m3 :> "b")
OnePayload == (m1 :> "p") @@ (m2 :> "p") @@ (m3 :> "p")
OtherPayload == {<<"a", "q">>}
====
