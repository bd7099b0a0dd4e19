---- MODULE Handling ----
(***************************************************************************)
(* What the consumers of wager-transactions promise to those who see the   *)
(* inbox, the transactions and the queue, but no worker: handling a        *)
(* message is one step, which marks it and decides its key; a key is       *)
(* decided once, by a message or by the API, and its decision stands; a    *)
(* message is deleted from the queue only after it was handled, and leaves *)
(* the queue only once.  There is no batch, no claim, no receipt handle,   *)
(* no redelivery and no process that ends.                                 *)
(***************************************************************************)
CONSTANTS Messages, Keys, Key, Payload, ApiCommands, None

VARIABLES handled,  \* messages whose inbox row is there
          decisions, \* [Keys -> the payload of its transaction, or None]
          deleted,  \* messages deleted from the queue
          buried    \* messages in the dead letter queue

handlingVars == <<handled, decisions, deleted, buried>>

Init ==
  /\ handled = {} /\ deleted = {} /\ buried = {}
  /\ decisions = [k \in Keys |-> None]

Decide(k, payload) == decisions' = [decisions EXCEPT ![k] = payload]

\* The first decision of the key, or a repetition of it.
Handle(m) ==
  /\ m \notin handled
  /\ decisions[Key[m]] \in {None, Payload[m]}
  /\ handled' = handled \cup {m}
  /\ Decide(Key[m], Payload[m])
  /\ UNCHANGED <<deleted, buried>>

Request(a) ==
  /\ decisions[a[1]] = None
  /\ Decide(a[1], a[2])
  /\ UNCHANGED <<handled, deleted, buried>>

Delete(m) ==
  /\ m \in handled \ (deleted \cup buried)
  /\ deleted' = deleted \cup {m}
  /\ UNCHANGED <<handled, decisions, buried>>

Bury(m) ==
  /\ m \notin deleted \cup buried
  /\ buried' = buried \cup {m}
  /\ UNCHANGED <<handled, decisions, deleted>>

Next ==
  \/ \E m \in Messages : Handle(m) \/ Delete(m) \/ Bury(m)
  \/ \E a \in ApiCommands : Request(a)

Spec == Init /\ [][Next]_handlingVars
====
