---- MODULE OutboxProofs ----
(***************************************************************************)
(* For any number of events, publishers and faults: no publisher ever meets *)
(* a row that is not its own and pending, a row marked as published has     *)
(* been sent, no failure costs an event two copies, and the outbox          *)
(* implements Relay.                                                        *)
(***************************************************************************)
EXTENDS Outbox, FiniteSetTheorems, TLAPS

\* What a sequence holds after Append, and after Tail.
LEMMA SentAppend ==
  ASSUME NEW S, NEW s \in Seq(S), NEW e \in S
  PROVE  Sent(Append(s, e)) = Sent(s) \cup {e}
  BY DEF Sent

LEMMA SentTail ==
  ASSUME NEW S, NEW s \in Seq(S), s # <<>>
  PROVE  /\ Sent(Tail(s)) \subseteq Sent(s)
         /\ Head(s) \in Sent(s) /\ Head(s) \in S
         /\ Tail(s) \in Seq(S)
  BY DEF Sent

\* A batch is a sequence of selectable rows.
LEMMA BatchSelectable ==
  ASSUME NEW s \in Batches
  PROVE  s \in Seq(Selectable) /\ Sent(s) \subseteq Selectable
<1>1. PICK n \in 1 .. BatchSize : s \in [1 .. n -> Selectable]
  BY DEF Batches
<1>2. n \in Nat
  BY <1>1, EventsAssumption
<1>3. s \in Seq(Selectable)
  BY <1>1, <1>2
<1> QED BY <1>3 DEF Sent

\* Deliver keeps what a group has received and adds the event it is asked for,
\* unless its deduplication id is remembered.
LEMMA DeliverSends ==
  ASSUME TypeOK, NEW e \in Events, Deliver(e)
  PROVE  /\ queue' \in [Groups -> Seq(Events)] /\ recent' \subseteq Events
         /\ \A f \in Events :
              f \in Sent(queue[Aggregate[f]]) => f \in Sent(queue'[Aggregate[f]])
         /\ e \notin recent => e \in Sent(queue'[Aggregate[e]])
         /\ recent' = recent \cup {e}
<1> DEFINE g == Aggregate[e]
<1>1. g \in Groups
  BY DEF Groups
<1>2. CASE e \in recent
  BY <1>2 DEF Deliver, TypeOK
<1>3. CASE e \notin recent
  <2>1. queue' = [queue EXCEPT ![g] = Append(queue[g], e)]
    BY <1>3 DEF Deliver
  <2>2. queue[g] \in Seq(Events)
    BY <1>1 DEF TypeOK
  <2>3. Sent(Append(queue[g], e)) = Sent(queue[g]) \cup {e}
    BY <2>2, SentAppend
  <2>4. queue'[g] = Append(queue[g], e)
    BY <1>1, <2>1 DEF TypeOK
  <2>5. \A h \in Groups : h # g => queue'[h] = queue[h]
    BY <2>1 DEF TypeOK
  <2>6. \A f \in Events : Aggregate[f] \in Groups
    BY DEF Groups
  <2>7. queue' \in [Groups -> Seq(Events)]
    BY <2>1, <2>2, <1>1 DEF TypeOK
  <2> QED BY <2>3, <2>4, <2>5, <2>6, <2>7 DEF Deliver, TypeOK
<1> QED BY <1>2, <1>3

-----------------------------------------------------------------------------
(* Types and ownership                                                     *)

\* HeldArePending is inductive with the types.
OwnInv == TypeOK /\ HeldArePending

LEMMA OwnInit == Init => OwnInv
<1> SUFFICES ASSUME Init PROVE OwnInv
  OBVIOUS
<1>1. TypeOK
  BY DEF Init, TypeOK, Unmarked
<1>2. \A p \in Publishers : Held(p) = {}
  BY DEF Init, Held, Unsent, Unmarked
<1> QED BY <1>1, <1>2 DEF OwnInv, HeldArePending

\* A step that takes no row and leaves the held ones pending and due.
LEMMA OwnershipKept ==
  ASSUME HeldArePending,
         \A p \in Publishers : Held(p)' \subseteq Held(p),
         \A p \in Publishers : \A e \in Held(p)' : row'[e] = "pending" /\ e \in due'
  PROVE  HeldArePending'
  BY DEF HeldArePending

\* Dealing with the head of a batch frees nothing and takes nothing.
LEMMA MarkHolds ==
  ASSUME TypeOK, NEW p \in Publishers, Sending(p),
         NEW as \in {"published", "retry"}, Mark(p, as)
  PROVE  /\ batch' \in [Publishers -> Seq(Events) \cup {None}]
         /\ marked' \in [Publishers -> [Events -> {None, "published", "retry"}]]
         /\ \A q \in Publishers : Held(q)' \subseteq Held(q)
         /\ Head(batch[p]) \in Events
         /\ \A q \in Publishers, e \in Events :
              marked'[q][e] =
                IF q = p /\ e = Head(batch[p]) THEN as ELSE marked[q][e]
<1> DEFINE b == batch[p]
           h == Head(b)
<1>1. b \in Seq(Events) /\ b # <<>> /\ b # None
  BY DEF TypeOK, Sending
<1>2. h \in Events /\ Tail(b) \in Seq(Events) /\ h \in Sent(b)
      /\ Sent(Tail(b)) \subseteq Sent(b)
  BY <1>1, SentTail
<1>3. \A q \in Publishers, e \in Events :
        marked'[q][e] = IF q = p /\ e = h THEN as ELSE marked[q][e]
  BY <1>2 DEF Mark, TypeOK
<1>4. batch' = [batch EXCEPT ![p] = Tail(b)]
  BY DEF Mark
<1>5. /\ batch' \in [Publishers -> Seq(Events) \cup {None}]
      /\ marked' \in [Publishers -> [Events -> {None, "published", "retry"}]]
  BY <1>2, <1>4 DEF Mark, TypeOK
<1>6. \A q \in Publishers : Unsent(q)' \subseteq Unsent(q)
  <2> TAKE q \in Publishers
  <2>1. CASE q = p
    <3>1. batch'[p] = Tail(b)
      BY <1>4 DEF TypeOK
    <3>2. Unsent(p) = Sent(b)
      BY <1>1 DEF Unsent
    <3>3. Unsent(p)' \subseteq Sent(Tail(b))
      BY <3>1 DEF Unsent, Sent
    <3> QED BY <2>1, <3>2, <3>3, <1>2
  <2>2. CASE q # p
    BY <2>2, <1>4 DEF TypeOK, Unsent, Sent
  <2> QED BY <2>1, <2>2
<1>7. h \in Unsent(p)
  BY <1>1, <1>2 DEF Unsent
<1>8. \A q \in Publishers : Held(q)' \subseteq Held(q)
  BY <1>3, <1>6, <1>7 DEF Held
<1> QED BY <1>2, <1>3, <1>5, <1>8

LEMMA EndRunHolds ==
  ASSUME TypeOK, NEW p \in Publishers, EndRun(p)
  PROVE  /\ batch' \in [Publishers -> Seq(Events) \cup {None}]
         /\ marked' \in [Publishers -> [Events -> {None, "published", "retry"}]]
         /\ Held(p)' = {}
         /\ \A q \in Publishers \ {p} : Held(q)' = Held(q)
<1>1. batch'[p] = None /\ marked'[p] = Unmarked
  BY DEF EndRun, TypeOK
<1>2. \A q \in Publishers \ {p} : batch'[q] = batch[q] /\ marked'[q] = marked[q]
  BY DEF EndRun, TypeOK
<1>3. Held(p)' = {}
  BY <1>1 DEF Held, Unsent, Unmarked
<1>4. \A q \in Publishers \ {p} : Held(q)' = Held(q)
  BY <1>2 DEF Held, Unsent, Sent
<1>5. /\ batch' \in [Publishers -> Seq(Events) \cup {None}]
      /\ marked' \in [Publishers -> [Events -> {None, "published", "retry"}]]
  BY DEF EndRun, TypeOK, Unmarked
<1> QED BY <1>3, <1>4, <1>5

LEMMA SelectHolds ==
  ASSUME OwnInv, NEW p \in Publishers, SelectBatch(p)
  PROVE  OwnInv'
<1> USE DEF OwnInv
<1>1. PICK s \in Batches : batch' = [batch EXCEPT ![p] = s]
  BY DEF SelectBatch
<1>2. s \in Seq(Selectable) /\ Sent(s) \subseteq Selectable
  BY BatchSelectable
<1>3. Selectable \subseteq Events
  BY DEF Selectable, TypeOK
<1>4. s \in Seq(Events)
  BY <1>2, <1>3
<1>5. TypeOK'
  BY <1>1, <1>4 DEF TypeOK, SelectBatch, tableVars, queueVars, faultVars
<1>6. UNCHANGED <<row, due, marked>>
  BY DEF SelectBatch, tableVars
<1>7. \A q \in Publishers \ {p} : Held(q)' = Held(q)
  BY <1>1, <1>6 DEF Held, Unsent, Sent, TypeOK
<1>8. Held(p)' \subseteq Held(p) \cup Selectable
  <2>1. batch'[p] = s
    BY <1>1 DEF TypeOK
  <2>2. Unsent(p)' \subseteq Sent(s)
    BY <2>1 DEF Unsent, Sent
  <2> QED BY <2>2, <1>2, <1>6 DEF Held
<1>9. \A e \in Selectable : /\ row[e] = "pending" /\ e \in due
                            /\ \A q \in Publishers : e \notin Held(q)
  BY DEF Selectable
<1>10. HeldArePending'
  BY <1>6, <1>7, <1>8, <1>9 DEF HeldArePending
<1> QED BY <1>5, <1>10

LEMMA CommitHolds ==
  ASSUME OwnInv, NEW p \in Publishers, CommitBatch(p)
  PROVE  OwnInv'
<1> USE DEF OwnInv
<1>1. /\ Held(p)' = {}
      /\ \A q \in Publishers \ {p} : Held(q)' = Held(q)
      /\ batch' \in [Publishers -> Seq(Events) \cup {None}]
      /\ marked' \in [Publishers -> [Events -> {None, "published", "retry"}]]
  BY EndRunHolds DEF CommitBatch
<1>2. row' \in [Events -> {None, "pending", "published"}]
  BY DEF CommitBatch, TypeOK
<1>3. attempts' \in [Events -> Nat] /\ due' \subseteq Events
  BY DEF CommitBatch, TypeOK
<1>4. TypeOK'
  BY <1>1, <1>2, <1>3 DEF CommitBatch, TypeOK, queueVars, faultVars
<1>5. \A e \in Events : e \notin Held(p) =>
        row'[e] = row[e] /\ (e \in due => e \in due')
  BY EventsAssumption DEF CommitBatch, Held, TypeOK
<1>6. \A q \in Publishers \ {p} : \A e \in Held(q) : e \in Events /\ e \notin Held(p)
  BY DEF HeldArePending, TypeOK
<1>7. \A q \in Publishers : \A e \in Held(q)' : row'[e] = "pending" /\ e \in due'
  BY <1>1, <1>5, <1>6 DEF HeldArePending
<1>8. HeldArePending'
  BY <1>1, <1>7, OwnershipKept
<1> QED BY <1>4, <1>8

LEMMA OwnNext == OwnInv /\ [Next]_vars => OwnInv'
<1> SUFFICES ASSUME OwnInv, [Next]_vars PROVE OwnInv'
  OBVIOUS
<1> USE DEF OwnInv
<1>1. ASSUME NEW e \in Events, BeginReport(e) PROVE OwnInv'
  <2>1. Cardinality(Events) \in Nat
    BY EventsAssumption, FS_CardinalityType
  <2>2. stamp' \in [Events -> Nat]
    BY <1>1, <2>1 DEF BeginReport, TypeOK
  <2>3. TypeOK'
    BY <1>1, <2>2 DEF BeginReport, TypeOK, tableVars, queueVars, faultVars
  <2>4. UNCHANGED <<row, due, batch, marked>>
    BY <1>1 DEF BeginReport, tableVars
  <2>5. HeldArePending'
    BY <2>4 DEF HeldArePending, Held, Unsent, Sent
  <2> QED BY <2>3, <2>5
<1>2. ASSUME NEW e \in Events, Enqueue(e) PROVE OwnInv'
  <2>1. Aggregate[e] \in Groups
    BY DEF Groups
  <2>2. history' \in [Groups -> Seq(Events)]
    BY <1>2, <2>1 DEF Enqueue, TypeOK
  <2>3. TypeOK'
    BY <1>2, <2>2 DEF Enqueue, TypeOK, queueVars, faultVars
  <2>4. \A p \in Publishers : Held(p)' = Held(p)
    BY <1>2 DEF Enqueue, Held, Unsent, Sent
  <2>5. \A f \in Events : row[f] = "pending" /\ f \in due =>
          row'[f] = "pending" /\ f \in due'
    BY <1>2 DEF Enqueue, TypeOK
  <2>6. HeldArePending'
    BY <2>4, <2>5 DEF HeldArePending, TypeOK
  <2> QED BY <2>3, <2>6
<1>3. ASSUME NEW e \in Events, BecomeDue(e) PROVE OwnInv'
  <2>1. TypeOK'
    BY <1>3 DEF BecomeDue, TypeOK, queueVars, faultVars
  <2>2. HeldArePending'
    BY <1>3 DEF BecomeDue, HeldArePending, Held, Unsent, Sent
  <2> QED BY <2>1, <2>2
<1>4. ASSUME NEW e \in Events, Forget(e) PROVE OwnInv'
  <2>1. TypeOK'
    BY <1>4 DEF Forget, TypeOK, tableVars, faultVars
  <2>2. HeldArePending'
    BY <1>4 DEF Forget, HeldArePending, Held, Unsent, Sent, tableVars
  <2> QED BY <2>1, <2>2
<1>5. ASSUME NEW p \in Publishers, SelectBatch(p) PROVE OwnInv'
  BY <1>5, SelectHolds
<1>6. ASSUME NEW p \in Publishers, Sending(p), NEW as \in {"published", "retry"},
             Mark(p, as), UNCHANGED <<stamp, tableVars>>,
             \/ Deliver(Head(batch[p]))
             \/ UNCHANGED queueVars,
             crashes' \in Nat, failed' \in Nat, lost' \in Nat
      PROVE  OwnInv'
  <2>1. /\ batch' \in [Publishers -> Seq(Events) \cup {None}]
        /\ marked' \in [Publishers -> [Events -> {None, "published", "retry"}]]
        /\ \A q \in Publishers : Held(q)' \subseteq Held(q)
        /\ Head(batch[p]) \in Events
    BY <1>6, MarkHolds
  <2>2. queue' \in [Groups -> Seq(Events)] /\ recent' \subseteq Events
    BY <1>6, <2>1, DeliverSends DEF queueVars, TypeOK
  <2>3. TypeOK'
    BY <1>6, <2>1, <2>2 DEF TypeOK, tableVars
  <2>4. UNCHANGED <<row, due>>
    BY <1>6 DEF tableVars
  <2>5. HeldArePending'
    BY <2>1, <2>4 DEF HeldArePending
  <2> QED BY <2>3, <2>5
<1>7. ASSUME NEW p \in Publishers, Publish(p) PROVE OwnInv'
  BY <1>6, <1>7 DEF Publish, faultVars, TypeOK
<1>8. ASSUME NEW p \in Publishers, FailToSend(p) PROVE OwnInv'
  BY <1>6, <1>8 DEF FailToSend, TypeOK
<1>9. ASSUME NEW p \in Publishers, LoseAnswer(p) PROVE OwnInv'
  BY <1>6, <1>9 DEF LoseAnswer, TypeOK
<1>10. ASSUME NEW p \in Publishers, CommitBatch(p) PROVE OwnInv'
  BY <1>10, CommitHolds
<1>11. ASSUME NEW p \in Publishers, Crash(p) PROVE OwnInv'
  <2>1. /\ batch' \in [Publishers -> Seq(Events) \cup {None}]
        /\ marked' \in [Publishers -> [Events -> {None, "published", "retry"}]]
        /\ \A q \in Publishers : Held(q)' \subseteq Held(q)
    BY <1>11, EndRunHolds DEF Crash
  <2>2. TypeOK'
    BY <1>11, <2>1 DEF Crash, TypeOK, tableVars, queueVars
  <2>3. UNCHANGED <<row, due>>
    BY <1>11 DEF Crash, tableVars
  <2>4. HeldArePending'
    BY <2>1, <2>3 DEF HeldArePending
  <2> QED BY <2>2, <2>4
<1>12. CASE UNCHANGED vars
  <2>1. TypeOK'
    BY <1>12 DEF vars, TypeOK, tableVars, queueVars, faultVars
  <2>2. HeldArePending'
    BY <1>12 DEF vars, HeldArePending, Held, Unsent, Sent, tableVars
  <2> QED BY <2>1, <2>2
<1> QED
  BY <1>1, <1>2, <1>3, <1>4, <1>5, <1>7, <1>8, <1>9, <1>10, <1>11, <1>12
  DEF Next, PublisherStep

\* Publishers never meet: a row one of them holds is pending, due and nobody
\* else's (FOR UPDATE SKIP LOCKED in findDueBatch), so what markPublished and
\* scheduleRetry read in the run's own copy is current, and no flush meets a
\* published row, at which the trigger would roll the batch back.
THEOREM PublishersNeverMeet == Spec => []HeldArePending
<1>1. Init => OwnInv
  BY OwnInit
<1>2. OwnInv /\ [Next]_vars => OwnInv'
  BY OwnNext
<1>3. OwnInv => HeldArePending
  BY DEF OwnInv
<1> QED BY <1>1, <1>2, <1>3, PTL DEF Spec

-----------------------------------------------------------------------------
(* At least once                                                           *)

Arrived(e) == e \in Sent(queue[Aggregate[e]])

\* What is remembered, or about to be committed as published, was sent.
SentInv ==
  /\ OwnInv
  /\ \A e \in recent : Arrived(e)
  /\ \A p \in Publishers, e \in Events : marked[p][e] = "published" => Arrived(e)
  /\ PublishedWasSent

\* A step that forgets nothing the queue received keeps SentInv if whatever
\* it marks, remembers or publishes was sent.
LEMMA SentKept ==
  ASSUME SentInv, OwnInv',
         \A e \in Events : Arrived(e) => Arrived(e)',
         \A e \in recent' : e \in recent \/ Arrived(e)',
         \A p \in Publishers, e \in Events : marked'[p][e] = "published" =>
           marked[p][e] = "published" \/ Arrived(e)',
         \A e \in Events : row'[e] = "published" =>
           row[e] = "published" \/ Arrived(e)
  PROVE  SentInv'
<1>1. recent \subseteq Events /\ recent' \subseteq Events
  BY DEF SentInv, OwnInv, TypeOK
<1>2. \A e \in recent' : Arrived(e)'
  BY <1>1 DEF SentInv
<1>3. \A p \in Publishers, e \in Events : marked'[p][e] = "published" => Arrived(e)'
  BY DEF SentInv
<1>4. PublishedWasSent'
  BY DEF SentInv, PublishedWasSent, Arrived
<1> QED BY <1>2, <1>3, <1>4 DEF SentInv

LEMMA SentNext == SentInv /\ [Next]_vars => SentInv'
<1> SUFFICES ASSUME SentInv, [Next]_vars PROVE SentInv'
  OBVIOUS
<1>1. OwnInv /\ OwnInv' /\ TypeOK
  BY OwnNext DEF SentInv, OwnInv
<1>2. ASSUME UNCHANGED <<queueVars, marked, row>> PROVE SentInv'
  BY <1>1, <1>2, SentKept DEF queueVars, Arrived, Sent
<1>3. ASSUME NEW e \in Events, Enqueue(e) PROVE SentInv'
  <2>1. \A f \in Events : row'[f] = "published" => row[f] = "published"
    BY <1>1, <1>3 DEF Enqueue, TypeOK
  <2> QED BY <1>1, <1>3, <2>1, SentKept DEF Enqueue, queueVars, Arrived, Sent
<1>4. ASSUME NEW e \in Events, Forget(e) PROVE SentInv'
  BY <1>1, <1>4, SentKept DEF Forget, tableVars, Arrived, Sent
<1>5. ASSUME NEW p \in Publishers, Sending(p), Mark(p, "retry"),
             UNCHANGED row, UNCHANGED queueVars
      PROVE  SentInv'
  <2>1. \A q \in Publishers, f \in Events : marked'[q][f] = "published" =>
          marked[q][f] = "published"
    BY <1>1, <1>5, MarkHolds
  <2> QED BY <1>1, <1>5, <2>1, SentKept DEF queueVars, Arrived, Sent
<1>6. ASSUME NEW p \in Publishers, Sending(p), NEW as \in {"published", "retry"},
             Mark(p, as), UNCHANGED row, Deliver(Head(batch[p]))
      PROVE  SentInv'
  <2>1. /\ Head(batch[p]) \in Events
        /\ \A q \in Publishers, f \in Events : marked'[q][f] =
             IF q = p /\ f = Head(batch[p]) THEN as ELSE marked[q][f]
    BY <1>1, <1>6, MarkHolds
  <2>2. PICK h \in Events : h = Head(batch[p])
    BY <2>1
  <2>3. Deliver(h)
    BY <1>6, <2>2
  <2>4. /\ \A f \in Events :
             f \in Sent(queue[Aggregate[f]]) => f \in Sent(queue'[Aggregate[f]])
        /\ h \notin recent => h \in Sent(queue'[Aggregate[h]])
        /\ recent' = recent \cup {h}
    BY <1>1, <2>3, DeliverSends
  <2>5. \A f \in Events : Arrived(f) => Arrived(f)'
    BY <2>4 DEF Arrived, Sent
  <2>6. h \in recent => Arrived(h)
    BY DEF SentInv
  <2>7. Arrived(h)'
    BY <2>4, <2>5, <2>6 DEF Arrived, Sent
  <2> QED BY <1>1, <1>6, <2>1, <2>2, <2>4, <2>5, <2>7, SentKept
<1>7. ASSUME NEW p \in Publishers, EndRun(p), UNCHANGED queueVars,
             \A e \in Events : row'[e] = "published" =>
               row[e] = "published" \/ marked[p][e] = "published"
      PROVE  SentInv'
  <2>1. \A q \in Publishers, f \in Events : marked'[q][f] = "published" =>
          marked[q][f] = "published"
    BY <1>1, <1>7, EventsAssumption DEF EndRun, Unmarked, TypeOK
  <2>2. \A e \in Events : row'[e] = "published" => row[e] = "published" \/ Arrived(e)
    BY <1>7 DEF SentInv
  <2> QED BY <1>1, <1>7, <2>1, <2>2, SentKept DEF queueVars, Arrived, Sent
<1>8. ASSUME NEW p \in Publishers, CommitBatch(p) PROVE SentInv'
  <2>1. \A e \in Events : row'[e] = "published" =>
          row[e] = "published" \/ marked[p][e] = "published"
    BY <1>8 DEF CommitBatch
  <2> QED BY <1>7, <1>8, <2>1 DEF CommitBatch
<1>9. ASSUME NEW p \in Publishers, Crash(p) PROVE SentInv'
  BY <1>7, <1>9 DEF Crash, tableVars
<1>10. ASSUME NEW e \in Events, BeginReport(e) \/ BecomeDue(e) PROVE SentInv'
  BY <1>2, <1>10 DEF BeginReport, BecomeDue, tableVars
<1>11. ASSUME NEW p \in Publishers, SelectBatch(p) PROVE SentInv'
  BY <1>2, <1>11 DEF SelectBatch, tableVars
<1>12. ASSUME NEW p \in Publishers, Publish(p) PROVE SentInv'
  BY <1>6, <1>12 DEF Publish, tableVars
<1>13. ASSUME NEW p \in Publishers, FailToSend(p) PROVE SentInv'
  BY <1>5, <1>13 DEF FailToSend, tableVars
<1>14. ASSUME NEW p \in Publishers, LoseAnswer(p) PROVE SentInv'
  BY <1>6, <1>14 DEF LoseAnswer, tableVars
<1>15. CASE UNCHANGED vars
  BY <1>2, <1>15 DEF vars, tableVars
<1> QED
  BY <1>3, <1>4, <1>8, <1>9, <1>10, <1>11, <1>12, <1>13, <1>14, <1>15
  DEF Next, PublisherStep

LEMMA SentInit == Init => SentInv
<1> SUFFICES ASSUME Init PROVE SentInv
  OBVIOUS
<1>1. OwnInv
  BY OwnInit
<1>2. PublishedWasSent
  BY EventsAssumption DEF Init, PublishedWasSent
<1>3. \A p \in Publishers, e \in Events : marked[p][e] # "published"
  BY EventsAssumption DEF Init, Unmarked
<1>4. recent = {}
  BY DEF Init
<1> QED BY <1>1, <1>2, <1>3, <1>4 DEF SentInv

\* At least once: a row is only marked as published when the queue has its
\* message, whatever sends fail, answers get lost or batches roll back.
THEOREM PublishedMeansSent == Spec => []PublishedWasSent
<1>1. Init => SentInv
  BY SentInit
<1>2. SentInv /\ [Next]_vars => SentInv'
  BY SentNext
<1>3. SentInv => PublishedWasSent
  BY DEF SentInv
<1> QED BY <1>1, <1>2, <1>3, PTL DEF Spec


-----------------------------------------------------------------------------
(* Further copies are no more than the faults                              *)

Places(s, e) == {i \in 1 .. Len(s) : s[i] = e}

LEMMA PlacesFinite ==
  ASSUME NEW s \in Seq(Events), NEW e
  PROVE  IsFiniteSet(Places(s, e)) /\ Cardinality(Places(s, e)) \in Nat
<1>1. IsFiniteSet(1 .. Len(s))
  BY FS_Interval
<1>2. IsFiniteSet(Places(s, e))
  BY <1>1, FS_Subset DEF Places
<1> QED BY <1>2, FS_CardinalityType

LEMMA PlacesAppend ==
  ASSUME NEW s \in Seq(Events), NEW e \in Events, NEW f \in Events
  PROVE  Cardinality(Places(Append(s, f), e)) =
           IF e = f THEN Cardinality(Places(s, e)) + 1
                    ELSE Cardinality(Places(s, e))
<1> DEFINE n == Len(s)
           u == Append(s, f)
<1>1. n \in Nat /\ Len(u) = n + 1 /\ u[n + 1] = f /\ \A i \in 1 .. n : u[i] = s[i]
  OBVIOUS
<1>2. n + 1 \notin Places(s, e)
  BY <1>1 DEF Places
<1> HIDE DEF u, n
<1>3. CASE e = f
  <2>1. Places(u, e) = Places(s, e) \cup {n + 1}
    <3>1. Places(s, e) = {i \in 1 .. n : s[i] = e}
      BY DEF Places, n
    <3>2. Places(u, e) = {i \in 1 .. n + 1 : u[i] = e}
      BY <1>1 DEF Places
    <3> QED BY <1>1, <1>3, <3>1, <3>2
  <2> QED BY <1>2, <1>3, <2>1, PlacesFinite, FS_AddElement DEF u
<1>4. CASE e # f
  <2>1. Places(u, e) = Places(s, e)
    <3>1. Places(s, e) = {i \in 1 .. n : s[i] = e}
      BY DEF Places, n
    <3>2. Places(u, e) = {i \in 1 .. n + 1 : u[i] = e}
      BY <1>1 DEF Places
    <3> QED BY <1>1, <1>4, <3>1, <3>2
  <2> QED BY <1>4, <2>1 DEF u
<1> QED BY <1>3, <1>4

\* What a delivery does to the number of copies.
LEMMA DeliverCopies ==
  ASSUME TypeOK, NEW h \in Events, Deliver(h), NEW e \in Events
  PROVE  /\ Copies(e) \in Nat /\ Copies(e)' \in Nat
         /\ Copies(e)' <= Copies(e) + 1
         /\ e # h => Copies(e)' = Copies(e)
<1> DEFINE g == Aggregate[e]
<1>1. g \in Groups /\ Aggregate[h] \in Groups
  BY DEF Groups
<1>2. queue[g] \in Seq(Events) /\ queue'[g] \in {queue[g], Append(queue[g], h)}
      /\ (queue'[g] # queue[g] => queue'[g] = Append(queue[g], h))
  BY <1>1 DEF Deliver, TypeOK
<1>3. Copies(e) = Cardinality(Places(queue[g], e))
      /\ Copies(e)' = Cardinality(Places(queue'[g], e))
  BY DEF Copies, Places
<1>4. Cardinality(Places(queue[g], e)) \in Nat
  BY <1>2, PlacesFinite
<1> HIDE DEF g
<1>5. CASE queue'[g] = queue[g]
  BY <1>3, <1>4, <1>5
<1>6. CASE queue'[g] = Append(queue[g], h)
  BY <1>2, <1>3, <1>4, <1>6, PlacesAppend
<1> QED BY <1>2, <1>5, <1>6

\* The copy that needs no fault: the one of a run that marked the row.
Marked(e) == row[e] = "published" \/ \E p \in Publishers : marked[p][e] = "published"
FirstCopy(e) == IF Marked(e) THEN 1 ELSE 0

Distinct(s) == \A i, j \in 1 .. Len(s) : i # j => s[i] # s[j]

CopyInv ==
  /\ OwnInv
  /\ \A p \in Publishers : batch[p] # None => Distinct(batch[p])
  /\ \A p \in Publishers : \A e \in Unsent(p) : marked[p][e] = None
  /\ \A e \in Events : Copies(e) \in Nat /\ Copies(e) <= crashes + lost + FirstCopy(e)

LEMMA InitCopies == Init => CopyInv
<1> SUFFICES ASSUME Init PROVE CopyInv
  OBVIOUS
<1>1. OwnInv
  BY OwnInit
<1>2. \A p \in Publishers : batch[p] = None /\ Unsent(p) = {}
  BY DEF Init, Unsent
<1>3. ASSUME NEW e \in Events PROVE Copies(e) = 0
  <2>1. queue[Aggregate[e]] = <<>>
    BY DEF Init, Groups
  <2>2. {i \in 1 .. Len(queue[Aggregate[e]]) : queue[Aggregate[e]][i] = e} = {}
    BY <2>1
  <2> QED BY <2>2, FS_EmptySet DEF Copies
<1>4. \A e \in Events : Copies(e) \in Nat /\ Copies(e) <= crashes + lost + FirstCopy(e)
  <2>1. crashes = 0 /\ lost = 0
    BY DEF Init
  <2>2. \A e \in Events : FirstCopy(e) \in {0, 1}
    BY DEF FirstCopy
  <2> QED BY <1>3, <2>1, <2>2
<1> QED BY <1>1, <1>2, <1>4 DEF CopyInv

\* Batches are only read or shortened, no row loses its mark and no copy is
\* made.
LEMMA CopiesKept ==
  ASSUME CopyInv, OwnInv', UNCHANGED <<queue, batch, marked, crashes, lost>>,
         \A e \in Events : row[e] = "published" => row'[e] = "published"
  PROVE  CopyInv'
<1>1. \A e \in Events : Copies(e)' = Copies(e)
  BY DEF Copies
<1>2. \A e \in Events : Marked(e) => Marked(e)'
  BY DEF Marked
<1>3. \A e \in Events : FirstCopy(e) \in {0, 1} /\ FirstCopy(e)' \in {0, 1}
                        /\ FirstCopy(e) <= FirstCopy(e)'
  BY <1>2 DEF FirstCopy
<1>4. \A e \in Events :
        Copies(e)' \in Nat /\ Copies(e)' <= crashes' + lost' + FirstCopy(e)'
  <2> TAKE e \in Events
  <2>1. crashes \in Nat /\ lost \in Nat /\ UNCHANGED <<crashes, lost>>
    BY DEF CopyInv, OwnInv, TypeOK
  <2>2. Copies(e) \in Nat /\ Copies(e) <= crashes + lost + FirstCopy(e)
    BY DEF CopyInv
  <2>3. Copies(e)' = Copies(e)
    BY <1>1
  <2>4. /\ FirstCopy(e) \in {0, 1} /\ FirstCopy(e)' \in {0, 1}
        /\ FirstCopy(e) <= FirstCopy(e)'
    BY <1>3
  <2> QED BY <2>1, <2>2, <2>3, <2>4
<1>5. /\ \A p \in Publishers : batch'[p] # None => Distinct(batch'[p])
      /\ \A p \in Publishers : \A e \in Unsent(p)' : marked'[p][e] = None
  BY DEF CopyInv, Unsent
<1> QED BY <1>4, <1>5 DEF CopyInv, Distinct

LEMMA SelectCopies ==
  ASSUME CopyInv, OwnInv', NEW p \in Publishers, SelectBatch(p)
  PROVE  CopyInv'
<1>1. PICK s \in Batches : batch' = [batch EXCEPT ![p] = s]
  BY DEF SelectBatch
<1>2. /\ UNCHANGED <<row, marked, queue, crashes, lost>>
  BY DEF SelectBatch, tableVars, queueVars, faultVars
<1>3. batch'[p] = s /\ \A q \in Publishers \ {p} : batch'[q] = batch[q]
  BY <1>1 DEF CopyInv, OwnInv, TypeOK
<1>4. Distinct(s)
  <2>1. s \in Seq(Selectable) /\ \A i, j \in 1 .. Len(s) : i < j => s[i] # s[j]
    BY BatchSelectable DEF Batches
  <2> HIDE DEF Selectable
  <2>2. Len(s) \in Nat
    BY <2>1
  <2>3. \A i, j \in 1 .. Len(s) : i # j => i < j \/ j < i
    BY <2>2
  <2> QED BY <2>1, <2>3 DEF Distinct
<1>5. \A e \in Sent(s) : marked[p][e] = None
  <2>1. Sent(s) \subseteq Selectable
    BY BatchSelectable
  <2> QED BY <2>1 DEF Selectable, Held, CopyInv, OwnInv, TypeOK
<1>6. \A q \in Publishers : batch'[q] # None => Distinct(batch'[q])
  BY <1>3, <1>4 DEF CopyInv
<1>7. \A q \in Publishers : \A e \in Unsent(q)' : marked'[q][e] = None
  BY <1>2, <1>3, <1>5 DEF CopyInv, Unsent
<1>8. \A e \in Events :
        Copies(e)' \in Nat /\ Copies(e)' <= crashes' + lost' + FirstCopy(e)'
  BY <1>2 DEF CopyInv, Copies, FirstCopy, Marked
<1> QED BY <1>6, <1>7, <1>8 DEF CopyInv, Distinct


\* What a batch without its head holds: nothing twice, and not the head.
LEMMA DistinctTail ==
  ASSUME NEW s \in Seq(Events), s # <<>>, Distinct(s)
  PROVE  Distinct(Tail(s)) /\ Head(s) \notin Sent(Tail(s))
<1> DEFINE n == Len(s)
           u == Tail(s)
<1>1. n \in Nat /\ n >= 1 /\ Len(u) = n - 1 /\ Head(s) = s[1]
      /\ \A i \in 1 .. n - 1 : u[i] = s[i + 1]
  OBVIOUS
<1>2. \A i, j \in 1 .. n : i # j => s[i] # s[j]
  BY DEF Distinct
<1> HIDE DEF n, u
<1>3. \A i \in 1 .. n - 1 : i + 1 \in 1 .. n /\ i + 1 # 1
  BY <1>1
<1>4. \A i, j \in 1 .. n - 1 : i # j => u[i] # u[j]
  BY <1>1, <1>2, <1>3
<1>5. \A i \in 1 .. n - 1 : u[i] # s[1]
  BY <1>1, <1>2, <1>3
<1> QED BY <1>1, <1>4, <1>5 DEF Distinct, Sent, u

\* The head of the batch gets its mark; at most one copy of it was made, and
\* that one is its first or has its fault.
LEMMA MarkCopies ==
  ASSUME CopyInv, OwnInv', NEW p \in Publishers, Sending(p),
         NEW as \in {"published", "retry"}, Mark(p, as), UNCHANGED row,
         UNCHANGED crashes, lost' \in {lost, lost + 1},
         \/ UNCHANGED queueVars
         \/ /\ Deliver(Head(batch[p]))
            /\ as = "published" \/ lost' = lost + 1
  PROVE  CopyInv'
<1> DEFINE b == batch[p]
<1>0. PICK h \in Events : h = Head(b)
  BY MarkHolds DEF CopyInv, OwnInv
<1>1. TypeOK /\ HeldArePending /\ TypeOK'
  BY DEF CopyInv, OwnInv
<1>2. \A q \in Publishers, e \in Events :
        marked'[q][e] = IF q = p /\ e = h THEN as ELSE marked[q][e]
  <2>1. \A q \in Publishers, e \in Events :
          marked'[q][e] =
            IF q = p /\ e = Head(batch[p]) THEN as ELSE marked[q][e]
    BY <1>1, MarkHolds
  <2> QED BY <1>0, <2>1
<1>3. b \in Seq(Events) /\ b # <<>> /\ b # None /\ Distinct(b)
  BY <1>1 DEF TypeOK, Sending, CopyInv
<1>4. batch'[p] = Tail(b) /\ \A q \in Publishers \ {p} : batch'[q] = batch[q]
  BY <1>1 DEF Mark, TypeOK
<1>5. Distinct(Tail(b)) /\ h \notin Sent(Tail(b)) /\ Sent(Tail(b)) \subseteq Sent(b)
      /\ h \in Sent(b)
  BY <1>0, <1>3, DistinctTail, SentTail
<1>6. Unsent(p) = Sent(b)
  BY <1>3 DEF Unsent
<1>7. \A q \in Publishers : batch'[q] # None => Distinct(batch'[q])
  BY <1>4, <1>5 DEF CopyInv
<1>8. \A q \in Publishers : \A e \in Unsent(q)' : marked'[q][e] = None
  <2> TAKE q \in Publishers
  <2>1. CASE q = p
    <3>1. Unsent(p)' \subseteq Sent(Tail(b))
      BY <1>4 DEF Unsent
    <3>2. \A e \in Sent(Tail(b)) : e \in Events /\ e # h /\ marked[p][e] = None
      BY <1>3, <1>5, <1>6 DEF CopyInv, Sent
    <3> QED BY <1>2, <2>1, <3>1, <3>2
  <2>2. CASE q # p
    <3>1. Unsent(q)' = Unsent(q)
      BY <1>4, <2>2 DEF Unsent
    <3>2. \A e \in Unsent(q) : e \in Events /\ marked[q][e] = None
      BY <1>1 DEF CopyInv, Unsent, Sent, TypeOK
    <3> QED BY <1>2, <2>2, <3>1, <3>2
  <2> QED BY <2>1, <2>2
<1>9. crashes \in Nat /\ lost \in Nat
  BY <1>1 DEF TypeOK
<1>10. \A e \in Events : Copies(e) \in Nat /\ Copies(e) <= crashes + lost + FirstCopy(e)
  BY DEF CopyInv
<1>11. \A e \in Events : FirstCopy(e) \in {0, 1} /\ FirstCopy(e)' \in {0, 1}
  BY DEF FirstCopy
<1>12. FirstCopy(h) = 0 /\ FirstCopy(h)' = IF as = "published" THEN 1 ELSE 0
  <2>1. row[h] = "pending" /\ \A q \in Publishers \ {p} : h \notin Held(q)
    BY <1>1, <1>5, <1>6 DEF HeldArePending, Held
  <2>2. \A q \in Publishers : marked[q][h] = None
    BY <1>5, <1>6, <2>1 DEF Held, CopyInv
  <2>3. None # "published"
    BY EventsAssumption
  <2>4. Marked(h)' <=> as = "published"
    BY <1>2, <2>1, <2>2, <2>3 DEF Marked
  <2>5. ~Marked(h)
    BY <2>1, <2>2, <2>3 DEF Marked
  <2> QED BY <2>4, <2>5 DEF FirstCopy
<1>13. \A e \in Events : e # h => FirstCopy(e)' = FirstCopy(e)
  BY <1>2 DEF FirstCopy, Marked
<1>14. \A e \in Events :
         Copies(e)' \in Nat /\ Copies(e)' <= crashes' + lost' + FirstCopy(e)'
  <2>1. CASE UNCHANGED queueVars
    <3>1. \A e \in Events : Copies(e)' = Copies(e)
      BY <2>1 DEF Copies, queueVars
    <3>2. \A e \in Events : FirstCopy(e) <= FirstCopy(e)'
      BY <1>11, <1>12, <1>13
    <3> QED BY <1>9, <1>10, <1>11, <3>1, <3>2
  <2>2. CASE /\ Deliver(Head(batch[p]))
             /\ as = "published" \/ lost' = lost + 1
    <3>1. Deliver(h)
      BY <1>0, <2>2
    <3>2. \A e \in Events : /\ Copies(e)' \in Nat /\ Copies(e)' <= Copies(e) + 1
                            /\ e # h => Copies(e)' = Copies(e)
      BY <1>1, <3>1, DeliverCopies
    <3>3. as = "published" \/ lost' = lost + 1
      BY <2>2
    <3>4. Copies(h)' <= crashes' + lost' + FirstCopy(h)'
      <4>1. Copies(h) \in Nat /\ Copies(h) <= crashes + lost /\ crashes' = crashes
        BY <1>9, <1>10, <1>12
      <4>2. Copies(h)' \in Nat /\ Copies(h)' <= Copies(h) + 1
        BY <3>2
      <4>3. CASE as = "published"
        BY <1>9, <1>12, <4>1, <4>2, <4>3
      <4>4. CASE as # "published"
        <5>1. lost' = lost + 1 /\ FirstCopy(h)' = 0
          BY <1>12, <3>3, <4>4
        <5> HIDE DEF b
        <5> QED BY <1>9, <4>1, <4>2, <5>1
      <4> QED BY <4>3, <4>4
    <3>5. \A e \in Events : e # h => Copies(e)' <= crashes' + lost' + FirstCopy(e)'
      BY <1>9, <1>10, <1>11, <1>13, <3>2
    <3> QED BY <3>2, <3>4, <3>5
  <2> QED BY <2>1, <2>2
<1> QED BY <1>7, <1>8, <1>14 DEF CopyInv, Distinct

\* A run ends: if its marks are committed each stays a mark, if they are
\* rolled back a crash is charged for every row.
LEMMA EndCopies ==
  ASSUME CopyInv, OwnInv', NEW p \in Publishers, EndRun(p), UNCHANGED <<queue, lost>>,
         \A e \in Events : row[e] = "published" => row'[e] = "published",
         \/ /\ UNCHANGED crashes
            /\ \A e \in Events : marked[p][e] = "published" => row'[e] = "published"
         \/ crashes' = crashes + 1
  PROVE  CopyInv'
<1>1. TypeOK
  BY DEF CopyInv, OwnInv
<1>2. batch'[p] = None /\ marked'[p] = Unmarked
      /\ \A q \in Publishers \ {p} : batch'[q] = batch[q] /\ marked'[q] = marked[q]
  BY <1>1 DEF EndRun, TypeOK
<1>3. \A q \in Publishers : batch'[q] # None => Distinct(batch'[q])
  BY <1>2 DEF CopyInv
<1>4. \A q \in Publishers : \A e \in Unsent(q)' : marked'[q][e] = None
  BY <1>2 DEF CopyInv, Unsent
<1>5. \A e \in Events : Copies(e)' = Copies(e)
  BY DEF Copies
<1>6. \A e \in Events : FirstCopy(e) \in {0, 1} /\ FirstCopy(e)' \in {0, 1}
  BY DEF FirstCopy
<1>7. crashes \in Nat /\ lost \in Nat
  BY <1>1 DEF TypeOK
<1>8. \A e \in Events : Copies(e) \in Nat /\ Copies(e) <= crashes + lost + FirstCopy(e)
  BY DEF CopyInv
<1>9. \A e \in Events : Copies(e)' \in Nat /\ Copies(e)' <= crashes' + lost' + FirstCopy(e)'
  <2>1. CASE crashes' = crashes + 1
    BY <1>5, <1>6, <1>7, <1>8, <2>1
  <2>2. CASE /\ UNCHANGED crashes
             /\ \A e \in Events : marked[p][e] = "published" => row'[e] = "published"
    <3>1. \A e \in Events : Marked(e) => Marked(e)'
      BY <1>2, <2>2 DEF Marked
    <3>2. \A e \in Events : FirstCopy(e) <= FirstCopy(e)'
      BY <3>1 DEF FirstCopy
    <3> QED BY <1>5, <1>6, <1>7, <1>8, <2>2, <3>2
  <2> QED BY <2>1, <2>2
<1> QED BY <1>3, <1>4, <1>9 DEF CopyInv, Distinct

LEMMA CopiesNext == CopyInv /\ [Next]_vars => CopyInv'
<1> SUFFICES ASSUME CopyInv, [Next]_vars PROVE CopyInv'
  OBVIOUS
<1>0. OwnInv /\ OwnInv' /\ TypeOK
  BY OwnNext DEF CopyInv, OwnInv
<1>1. ASSUME NEW e \in Events, BeginReport(e) \/ BecomeDue(e) \/ Forget(e) PROVE CopyInv'
  BY <1>0, <1>1, CopiesKept DEF BeginReport, BecomeDue, Forget, tableVars, queueVars, faultVars
<1>2. ASSUME NEW e \in Events, Enqueue(e) PROVE CopyInv'
  <2>1. \A f \in Events : row[f] = "published" => row'[f] = "published"
    BY <1>0, <1>2, EventsAssumption DEF Enqueue, TypeOK
  <2> QED BY <1>0, <1>2, <2>1, CopiesKept DEF Enqueue, queueVars, faultVars
<1>3. ASSUME NEW p \in Publishers, SelectBatch(p) PROVE CopyInv'
  BY <1>0, <1>3, SelectCopies
<1>4. ASSUME NEW p \in Publishers, Publish(p) PROVE CopyInv'
  BY <1>0, <1>4, MarkCopies DEF Publish, tableVars, faultVars
<1>5. ASSUME NEW p \in Publishers, FailToSend(p) PROVE CopyInv'
  BY <1>0, <1>5, MarkCopies DEF FailToSend, tableVars
<1>6. ASSUME NEW p \in Publishers, LoseAnswer(p) PROVE CopyInv'
  BY <1>0, <1>6, MarkCopies DEF LoseAnswer, tableVars
<1>7. ASSUME NEW p \in Publishers, CommitBatch(p) PROVE CopyInv'
  <2>1. \A e \in Events : row[e] = "published" => row'[e] = "published"
    BY <1>7 DEF CommitBatch
  <2>2. \A e \in Events : marked[p][e] = "published" => row'[e] = "published"
    BY <1>7 DEF CommitBatch
  <2> QED BY <1>0, <1>7, <2>1, <2>2, EndCopies DEF CommitBatch, queueVars, faultVars
<1>8. ASSUME NEW p \in Publishers, Crash(p) PROVE CopyInv'
  BY <1>0, <1>8, EndCopies DEF Crash, tableVars, queueVars
<1>9. CASE UNCHANGED vars
  BY <1>0, <1>9, CopiesKept DEF vars, tableVars, queueVars, faultVars
<1> QED BY <1>1, <1>2, <1>3, <1>4, <1>5, <1>6, <1>7, <1>8, <1>9
        DEF Next, PublisherStep

\* At most once but for faults: the copies of an event after its first are no
\* more than the crashes and lost answers there have been, since none costs an
\* event two (SKIP LOCKED keeps publishers apart, a commit and its marks go
\* together).
THEOREM CopiesHaveReasons == Spec => []CopiesExplained
<1>1. CopyInv => CopiesExplained
  <2> SUFFICES ASSUME CopyInv, NEW e \in Events PROVE Copies(e) <= 1 + crashes + lost
    BY DEF CopiesExplained
  <2>1. crashes \in Nat /\ lost \in Nat
    BY DEF CopyInv, OwnInv, TypeOK
  <2>2. FirstCopy(e) \in {0, 1}
    BY DEF FirstCopy
  <2>3. Copies(e) \in Nat /\ Copies(e) <= crashes + lost + FirstCopy(e)
    BY DEF CopyInv
  <2> QED BY <2>1, <2>2, <2>3
<1> QED BY <1>1, InitCopies, CopiesNext, PTL DEF Spec

-----------------------------------------------------------------------------
(* The outbox implements Relay                                             *)

\* What the relay sees.
Reported == {e \in Events : row[e] # None}
Confirmed == {e \in Events : row[e] = "published"}

\* A step that changes neither the queue nor what a row says to the relay.
LEMMA RelayStutters ==
  ASSUME UNCHANGED <<row, queue>>
  PROVE  UNCHANGED Promise!relayVars
BY DEF Promise!relayVars

\* The rows of a batch being sent are committed, and none is published yet.
LEMMA DeliverRelays ==
  ASSUME OwnInv, NEW p \in Publishers, Sending(p), Deliver(Head(batch[p])), UNCHANGED row
  PROVE  [Promise!Next]_(Promise!relayVars)
<1> DEFINE e == Head(batch[p])
<1>1. batch[p] \in Seq(Events) /\ batch[p] # <<>> /\ batch[p] # None
  BY DEF OwnInv, TypeOK, Sending
<1>2. e \in Events /\ e \in Held(p)
  BY <1>1, SentTail DEF Held, Unsent
<1>3. row[e] = "pending"
  BY <1>2 DEF OwnInv, HeldArePending
<1>4. e \in Reported \ Confirmed
  BY <1>2, <1>3, EventsAssumption DEF Reported, Confirmed
<1>5. UNCHANGED <<Reported, Confirmed>>
  BY DEF Reported, Confirmed
<1> HIDE DEF e
<1>6. CASE e \in recent
  <2>1. queue' = queue
    BY <1>6 DEF Deliver, e
  <2> QED BY <2>1, RelayStutters
<1>7. CASE e \notin recent
  <2>1. queue' = [queue EXCEPT ![Aggregate[e]] = Append(@, e)]
    BY <1>7 DEF Deliver, e
  <2>2. Promise!Send(e)
    BY <1>4, <1>5, <2>1 DEF Promise!Send, Reported, Confirmed
  <2> QED BY <1>2, <2>2 DEF Promise!Next
<1> QED BY <1>6, <1>7

\* A commit confirms what it marked, all of it sent and none of it confirmed
\* before.
LEMMA CommitRelays ==
  ASSUME SentInv, NEW p \in Publishers, CommitBatch(p)
  PROVE  [Promise!Next]_(Promise!relayVars)
<1> DEFINE done == {e \in Events : marked[p][e] = "published"}
<1>1. TypeOK /\ HeldArePending
  BY DEF SentInv, OwnInv
<1>2. \A e \in done : e \in Held(p) /\ row[e] = "pending" /\ Arrived(e)
  BY <1>1, EventsAssumption DEF Held, HeldArePending, SentInv
<1>3. /\ queue' = queue
      /\ \A e \in Events : row'[e] = IF e \in done THEN "published" ELSE row[e]
  BY DEF CommitBatch, queueVars
<1> HIDE DEF done
<1>4. Reported' = Reported /\ Confirmed' = Confirmed \cup done
  <2>1. done \subseteq Events
    BY DEF done
  <2> QED BY <1>2, <1>3, <2>1, EventsAssumption DEF Reported, Confirmed
<1>5. \A e \in done : e \in Reported \ Confirmed /\ e \in Promise!Received(Aggregate[e])
  <2>1. done \subseteq Events
    BY DEF done
  <2> QED BY <1>2, <2>1, EventsAssumption
          DEF Reported, Confirmed, Arrived, Sent, Promise!Received
<1>6. PICK some \in SUBSET Events : some = done
  BY DEF done
<1>7. Promise!Confirm(some)
  BY <1>3, <1>4, <1>5, <1>6 DEF Promise!Confirm, Reported, Confirmed
<1> QED BY <1>7 DEF Promise!Next

LEMMA StepRelays ==
  ASSUME SentInv, [Next]_vars
  PROVE  [Promise!Next]_(Promise!relayVars)
<1>1. OwnInv /\ TypeOK
  BY DEF SentInv, OwnInv
<1>2. ASSUME NEW e \in Events, Enqueue(e) PROVE [Promise!Next]_(Promise!relayVars)
  <2>1. /\ row[e] = None /\ queue' = queue
        /\ \A f \in Events : row'[f] = IF f = e THEN "pending" ELSE row[f]
    BY <1>1, <1>2 DEF Enqueue, queueVars, TypeOK
  <2>2. e \notin Reported /\ Reported' = Reported \cup {e} /\ Confirmed' = Confirmed
    BY <2>1, EventsAssumption DEF Reported, Confirmed
  <2>3. Promise!Report(e)
    BY <2>1, <2>2 DEF Promise!Report, Reported, Confirmed
  <2> QED BY <2>3 DEF Promise!Next
<1>3. ASSUME NEW e \in Events, BeginReport(e) \/ BecomeDue(e) \/ Forget(e)
      PROVE  [Promise!Next]_(Promise!relayVars)
  BY <1>3, RelayStutters DEF BeginReport, BecomeDue, Forget, tableVars, queueVars
<1>4. ASSUME NEW p \in Publishers, SelectBatch(p) \/ FailToSend(p) \/ Crash(p)
      PROVE  [Promise!Next]_(Promise!relayVars)
  BY <1>4, RelayStutters DEF SelectBatch, FailToSend, Crash, tableVars, queueVars
<1>5. ASSUME NEW p \in Publishers, Publish(p) \/ LoseAnswer(p)
      PROVE  [Promise!Next]_(Promise!relayVars)
  BY <1>1, <1>5, DeliverRelays DEF Publish, LoseAnswer, tableVars
<1>6. ASSUME NEW p \in Publishers, CommitBatch(p)
      PROVE  [Promise!Next]_(Promise!relayVars)
  BY <1>6, CommitRelays
<1>7. CASE UNCHANGED vars
  BY <1>7, RelayStutters DEF vars, tableVars, queueVars
<1> QED BY <1>2, <1>3, <1>4, <1>5, <1>6, <1>7 DEF Next, PublisherStep

\* The outbox implements Relay: an event is in the queue only if the
\* transaction that reports it is committed, confirmed only if it was sent,
\* and never sent after that, whichever publishers run, fail or crash.
THEOREM OutboxKeepsItsPromise == Spec => RelayedAsPromised
<1>1. Init => Promise!Init
  BY EventsAssumption DEF Init, Promise!Init
<1>2. Spec => []SentInv
  BY SentInit, SentNext, PTL DEF Spec
<1>3. SentInv /\ [Next]_vars => [Promise!Next]_(Promise!relayVars)
  BY StepRelays
<1> QED BY <1>1, <1>2, <1>3, PTL DEF Spec, RelayedAsPromised, Promise!Spec
====
