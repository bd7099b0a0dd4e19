---- MODULE Relay ----
(***************************************************************************)
(* What the outbox promises to those who see its rows and the queue, but   *)
(* no publisher: an event is in the queue only after the transaction that  *)
(* reports it is committed; it is confirmed only after it was sent, and    *)
(* never sent again after that; what was sent stays where it is, in the    *)
(* group of its aggregate.  There is no batch, no row lock, no mark, no    *)
(* fault and no retry.                                                     *)
(***************************************************************************)
EXTENDS Sequences, Integers

CONSTANTS Events, Groups, Aggregate

VARIABLES reported,  \* events with a committed row
          sent,      \* what each group of the queue has received
          confirmed  \* events whose row is marked as published

relayVars == <<reported, sent, confirmed>>

Received(g) == {sent[g][i] : i \in 1 .. Len(sent[g])}

Init ==
  /\ reported = {} /\ confirmed = {}
  /\ sent = [g \in Groups |-> <<>>]

Report(e) ==
  /\ e \notin reported
  /\ reported' = reported \cup {e}
  /\ UNCHANGED <<sent, confirmed>>

Send(e) ==
  /\ e \in reported \ confirmed
  /\ sent' = [sent EXCEPT ![Aggregate[e]] = Append(@, e)]
  /\ UNCHANGED <<reported, confirmed>>

\* The events of a batch together.
Confirm(batch) ==
  /\ \A e \in batch : e \in reported \ confirmed /\ e \in Received(Aggregate[e])
  /\ confirmed' = confirmed \cup batch
  /\ UNCHANGED <<reported, sent>>

Next ==
  \/ \E e \in Events : Report(e) \/ Send(e)
  \/ \E batch \in SUBSET Events : Confirm(batch)

Spec == Init /\ [][Next]_relayVars
====
