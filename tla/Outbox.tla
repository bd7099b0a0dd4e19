---- MODULE Outbox ----
(***************************************************************************)
(* The transactional outbox and its publishers: PublishOutboxBatchUseCase  *)
(* run by several worker processes against outbox_messages, and the FIFO   *)
(* queue wager-events it sends to.                                         *)
(*                                                                         *)
(* An event is written by the transaction it reports (submit, retry batch, *)
(* open wallet), stamped with the time that transaction read when it began. *)
(* Events of one aggregate commit one after the other, under the wallet's  *)
(* lock.  What a batch marks stays with the publisher until its commit.    *)
(***************************************************************************)
EXTENDS Integers, Sequences, FiniteSets

CONSTANTS Events, Publishers,
          Aggregate,   \* [Events -> wallet]: the message group
          BatchSize,   \* rows one run of the publisher takes
          MaxFaults,   \* bound on crashes, failed sends and lost answers
          None

Groups == {Aggregate[e] : e \in Events}

ASSUME EventsAssumption ==
  /\ DOMAIN Aggregate = Events /\ IsFiniteSet(Events)
  /\ BatchSize \in Nat \ {0} /\ MaxFaults \in Nat
  /\ None \notin {"pending", "published", "retry"}

VARIABLES
  stamp,     \* occurredAt; 0 before the event's transaction began
  row,       \* outbox_messages: None, "pending" or "published"
  attempts,  \* its attempts column
  due,       \* pending rows whose next_attempt_at has passed or is null
  history,   \* each aggregate's events in commit order
  batch,     \* what each publisher has still to send, None when it is idle
  marked,    \* what its open transaction has done: "published" or "retry"
  queue,     \* wager-events.fifo: what each group received
  recent,    \* deduplication ids SQS still remembers
  crashes, failed, lost

tableVars == <<row, attempts, due, history>>
queueVars == <<queue, recent>>
faultVars == <<crashes, failed, lost>>
vars == <<stamp, tableVars, batch, marked, queueVars, faultVars>>

Unmarked == [e \in Events |-> None]

Init ==
  /\ stamp = [e \in Events |-> 0]
  /\ row = [e \in Events |-> None] /\ attempts = [e \in Events |-> 0]
  /\ due = {} /\ history = [g \in Groups |-> <<>>]
  /\ batch = [p \in Publishers |-> None]
  /\ marked = [p \in Publishers |-> Unmarked]
  /\ queue = [g \in Groups |-> <<>>] /\ recent = {}
  /\ crashes = 0 /\ failed = 0 /\ lost = 0

-----------------------------------------------------------------------------
(* The transactions that report                                            *)

\* processNew reads `now` before it waits for the wallet.  Later transactions
\* read the same millisecond or a later one; as many of them matter as there
\* are events.
BeginReport(e) ==
  /\ stamp[e] = 0
  /\ \E now \in 1 .. Cardinality(Events) :
       /\ \A f \in Events : stamp[f] <= now
       /\ stamp' = [stamp EXCEPT ![e] = now]
  /\ UNCHANGED <<tableVars, batch, marked, queueVars, faultVars>>

\* OutboxMessage.enqueue and insert, committed with the change they report.
Enqueue(e) ==
  /\ stamp[e] > 0 /\ row[e] = None
  /\ row' = [row EXCEPT ![e] = "pending"]
  /\ due' = due \cup {e}
  /\ history' = [history EXCEPT ![Aggregate[e]] = Append(@, e)]
  /\ UNCHANGED <<stamp, attempts, batch, marked, queueVars, faultVars>>

-----------------------------------------------------------------------------
(* PublishOutboxBatchUseCase.run                                           *)

Sent(s) == {s[i] : i \in 1 .. Len(s)}
Unsent(p) == IF batch[p] = None THEN {} ELSE Sent(batch[p])

\* Rows the open transaction of p holds FOR UPDATE.
Held(p) == Unsent(p) \cup {e \in Events : marked[p][e] # None}

\* Mutant: the query loses its lock mode, and with it both the row locks and
\* SKIP LOCKED.
SelectableUnlocked == {e \in due : row[e] = "pending"}

Selectable == {e \in due : row[e] = "pending" /\ \A p \in Publishers : e \notin Held(p)}

\* ORDER BY occurred_at LIMIT BatchSize: rows of one stamp in any order.
Batches ==
  {s \in UNION {[1 .. n -> Selectable] : n \in 1 .. BatchSize} :
     /\ \A i, j \in 1 .. Len(s) :
          i < j => s[i] # s[j] /\ stamp[s[i]] <= stamp[s[j]]
     /\ Len(s) < BatchSize => Sent(s) = Selectable
     /\ \A e \in Selectable \ Sent(s) : \A f \in Sent(s) : stamp[f] <= stamp[e]}

SelectBatch(p) ==
  /\ batch[p] = None
  /\ \E s \in Batches : batch' = [batch EXCEPT ![p] = s]
  /\ UNCHANGED <<stamp, tableVars, marked, queueVars, faultVars>>

\* SQS takes a deduplication id it remembers without delivering it again.
Deliver(e) ==
  /\ queue' = IF e \in recent THEN queue
              ELSE [queue EXCEPT ![Aggregate[e]] = Append(@, e)]
  /\ recent' = recent \cup {e}

\* The head of the batch is dealt with: the run goes on with the next row.
Mark(p, as) ==
  /\ marked' = [marked EXCEPT ![p][Head(batch[p])] = as]
  /\ batch' = [batch EXCEPT ![p] = Tail(@)]

Sending(p) == batch[p] # None /\ batch[p] # <<>>

Faults == crashes + failed + lost

Publish(p) ==
  /\ Sending(p)
  /\ Deliver(Head(batch[p]))
  /\ Mark(p, "published")
  /\ UNCHANGED <<stamp, tableVars, faultVars>>

\* Mutant: the catch goes on to mark the message as published.
SwallowFailure(p) ==
  /\ Sending(p) /\ Faults < MaxFaults
  /\ failed' = failed + 1
  /\ Mark(p, "published")
  /\ UNCHANGED <<stamp, tableVars, queueVars, crashes, lost>>

\* send() throws and the queue got nothing.
FailToSend(p) ==
  /\ Sending(p) /\ Faults < MaxFaults
  /\ failed' = failed + 1
  /\ Mark(p, "retry")
  /\ UNCHANGED <<stamp, tableVars, queueVars, crashes, lost>>

\* send() throws although the queue took the message.
LoseAnswer(p) ==
  /\ Sending(p) /\ Faults < MaxFaults
  /\ lost' = lost + 1
  /\ Deliver(Head(batch[p]))
  /\ Mark(p, "retry")
  /\ UNCHANGED <<stamp, tableVars, crashes, failed>>

EndRun(p) ==
  /\ batch' = [batch EXCEPT ![p] = None]
  /\ marked' = [marked EXCEPT ![p] = Unmarked]

CommitBatch(p) ==
  /\ batch[p] = <<>>
  /\ row' = [e \in Events |->
               IF marked[p][e] = "published" THEN "published" ELSE row[e]]
  /\ attempts' = [e \in Events |->
                    IF marked[p][e] = "retry" THEN attempts[e] + 1 ELSE attempts[e]]
  /\ due' = {e \in due : marked[p][e] = None}
  /\ EndRun(p)
  /\ UNCHANGED <<stamp, history, queueVars, faultVars>>

\* The process dies or the commit fails: the marks are rolled back, what was
\* sent stays sent.
Crash(p) ==
  /\ batch[p] # None /\ Faults < MaxFaults
  /\ crashes' = crashes + 1
  /\ EndRun(p)
  /\ UNCHANGED <<stamp, tableVars, queueVars, failed, lost>>

\* Mutant: a message that failed before is not tried a second time.
BecomeDueOnce(e) ==
  /\ row[e] = "pending" /\ e \notin due /\ attempts[e] = 0
  /\ due' = due \cup {e}
  /\ UNCHANGED <<stamp, row, attempts, history, batch, marked, queueVars, faultVars>>

\* computeBackoffMs(attempts) has elapsed.
BecomeDue(e) ==
  /\ row[e] = "pending" /\ e \notin due
  /\ due' = due \cup {e}
  /\ UNCHANGED <<stamp, row, attempts, history, batch, marked, queueVars, faultVars>>

\* The deduplication interval of the queue ends for a message.
Forget(e) ==
  /\ e \in recent
  /\ recent' = recent \ {e}
  /\ UNCHANGED <<stamp, tableVars, batch, marked, queue, faultVars>>

-----------------------------------------------------------------------------
PublisherStep(p) ==
  SelectBatch(p) \/ Publish(p) \/ FailToSend(p) \/ LoseAnswer(p) \/ CommitBatch(p)

Next ==
  \/ \E e \in Events : BeginReport(e) \/ Enqueue(e) \/ BecomeDue(e) \/ Forget(e)
  \/ \E p \in Publishers : PublisherStep(p) \/ Crash(p)

Spec == Init /\ [][Next]_vars

\* The repeating task runs the publisher again and again, and time passes.
Fairness ==
  /\ \A p \in Publishers : WF_vars(PublisherStep(p))
  /\ \A e \in Events : WF_vars(BecomeDue(e))

FairSpec == Spec /\ Fairness

-----------------------------------------------------------------------------
(* Properties                                                              *)

TypeOK ==
  /\ stamp \in [Events -> Nat]
  /\ row \in [Events -> {None, "pending", "published"}]
  /\ attempts \in [Events -> Nat]
  /\ due \subseteq Events
  /\ history \in [Groups -> Seq(Events)]
  /\ batch \in [Publishers -> Seq(Events) \cup {None}]
  /\ marked \in [Publishers -> [Events -> {None, "published", "retry"}]]
  /\ queue \in [Groups -> Seq(Events)]
  /\ recent \subseteq Events
  /\ crashes \in Nat /\ failed \in Nat /\ lost \in Nat

\* A row marked as published reached the queue, in its own group: no event is
\* lost between the failed sends, the lost answers and the crashes of a run.
PublishedWasSent ==
  \A e \in Events : row[e] = "published" => e \in Sent(queue[Aggregate[e]])

\* Rows a publisher holds are pending and due and nobody else's.  markPublished
\* and scheduleRetry could not tell: they test publishedAt of the run's own
\* copy, and what another publisher has published meanwhile only the trigger
\* outbox_messages_envelope_immutable would stop, at the flush, and roll the
\* whole batch back after its sends.
HeldArePending ==
  \A p \in Publishers : \A e \in Held(p) :
    /\ row[e] = "pending" /\ e \in due
    /\ \A q \in Publishers \ {p} : e \notin Held(q)

Copies(e) == Cardinality({i \in 1 .. Len(queue[Aggregate[e]]) :
                            queue[Aggregate[e]][i] = e})

\* At least once, and more than once only for a reason: an event has at most
\* one copy more than there were crashes and lost answers (all of them, of
\* whatever event), and two publishers running side by side add none, even
\* when SQS forgets the deduplication ids.
CopiesExplained == \A e \in Events : Copies(e) <= 1 + crashes + lost

\* Every committed event is eventually published, with failed sends, lost
\* answers and crashes on the way.
EventuallyPublished ==
  \A e \in Events : (row[e] = "pending") ~> (row[e] = "published")

Promise == INSTANCE Relay WITH
  reported <- {e \in Events : row[e] # None}, sent <- queue,
  confirmed <- {e \in Events : row[e] = "published"}

\* Whatever the publishers, their faults and SQS do, the rows and the queue
\* go through the steps of Relay: no event is announced that did not happen,
\* none is sent after it was confirmed, and a batch confirms only what the
\* queue has.
RelayedAsPromised == Promise!Spec

\* Where an event first appears in a sequence.
First(e, s) == CHOOSE i \in 1 .. Len(s) :
                 s[i] = e /\ \A j \in 1 .. i - 1 : s[j] # e

\* Events of one aggregate are said to reach the consumer in order
\* (publish-outbox-batch.use-case.ts:17-19): of two that occurred and
\* committed one after the other, the first arrives first.
AggregateOrder ==
  \A g \in Groups : \A e, f \in Sent(queue[g]) :
    (stamp[e] < stamp[f] /\ First(e, history[g]) < First(f, history[g])) =>
      First(e, queue[g]) < First(f, queue[g])
====
