---- MODULE ConsumerProofs ----
(***************************************************************************)
(* For any number of messages, workers and faults, any keys and payloads:   *)
(* what is deleted from the queue was processed, an inbox row is committed  *)
(* with its effect or not at all, no message is past the claim twice, one   *)
(* dies unprocessed or is overtaken only for a reason, and the consumers    *)
(* implement Handling.                                                      *)
(***************************************************************************)
EXTENDS Consumer, FiniteSetTheorems, FunctionTheorems, SequenceTheorems, TLAPS

Payloads == {Payload[m] : m \in Messages} \cup {a[2] : a \in ApiCommands}

\* Where a worker is that has a message in hand.
Busy == {"find", "claim", "submit", "ack"}

Types ==
  /\ inbox \in [Messages -> {None, "received", "processed"}]
  /\ decided \in [Keys -> Payloads \cup {None}]
  /\ wpc \in [Workers -> Busy \cup {"poll", "idle"}]
  /\ todo \in [Workers -> Seq(Messages)]
  /\ acked \subseteq Messages
  /\ \A k \in Workers : wpc[k] \in Busy => todo[k] # <<>>

\* Whoever is about to delete a message has seen it processed or did it.
AckersSettled == \A k \in Workers : wpc[k] = "ack" => Settled(Head(todo[k]))

ConsumerInv ==
  /\ Types
  /\ InboxSettled /\ AckersSettled /\ AckedIsSettled /\ ClaimExclusive

-----------------------------------------------------------------------------
LEMMA InitConsumer == Init => ConsumerInv
<1> SUFFICES ASSUME Init PROVE ConsumerInv
  OBVIOUS
<1>1. Types
  BY DEF Init, Types, Busy
<1>2. InboxSettled /\ AckersSettled /\ AckedIsSettled /\ ClaimExclusive
  BY DEF Init, InboxSettled, AckersSettled, AckedIsSettled, ClaimExclusive
<1> QED BY <1>1, <1>2 DEF ConsumerInv

-----------------------------------------------------------------------------
(* A worker moves on: what NextMessage, EndRun and Replace have in common. *)

\* The worker k has another message in hand or none; if it has one, it is
\* about to look for its inbox row.  Nobody else moved.
Leaves(k) ==
  /\ todo' \in [Workers -> Seq(Messages)]
  /\ wpc' \in [Workers -> Busy \cup {"poll", "idle"}]
  /\ wpc'[k] \in {"find", "poll", "idle"}
  /\ wpc'[k] = "find" => todo'[k] # <<>>
  /\ \A j \in Workers \ {k} : wpc'[j] = wpc[j] /\ todo'[j] = todo[j]

LEMMA NextMessageLeaves ==
  ASSUME Types, NEW k \in Workers, wpc[k] \in Busy, NextMessage(k)
  PROVE  Leaves(k)
<1> DEFINE s == todo[k]
<1>1. s \in Seq(Messages) /\ s # <<>>
  BY DEF Types
<1>2. Tail(s) \in Seq(Messages) /\ (Len(s) > 1 => Tail(s) # <<>>)
  <2> HIDE DEF s
  <2>1. Tail(s) \in Seq(Messages) /\ Len(Tail(s)) = Len(s) - 1
    BY <1>1, HeadTailProperties
  <2>2. Len(<<>>) = 0
    OBVIOUS
  <2>3. Len(s) \in Nat
    BY <1>1
  <2> QED BY <2>1, <2>2, <2>3
<1>3. todo' = [todo EXCEPT ![k] = Tail(s)]
  BY DEF NextMessage
<1>4. wpc' = [wpc EXCEPT ![k] = IF Len(s) > 1 THEN "find" ELSE AfterRun(k)]
  BY DEF NextMessage
<1>5. AfterRun(k) \in {"poll", "idle"}
  BY DEF AfterRun
<1>6. todo'[k] = Tail(s) /\ wpc'[k] = IF Len(s) > 1 THEN "find" ELSE AfterRun(k)
  BY <1>3, <1>4 DEF Types
<1> HIDE DEF s
<1>7. todo' \in [Workers -> Seq(Messages)]
  BY <1>2, <1>3 DEF Types
<1>8. wpc' \in [Workers -> Busy \cup {"poll", "idle"}]
  BY <1>4, <1>5 DEF Types, Busy
<1>9. wpc'[k] \in {"find", "poll", "idle"} /\ (wpc'[k] = "find" => todo'[k] # <<>>)
  BY <1>2, <1>5, <1>6
<1>10. \A j \in Workers \ {k} : wpc'[j] = wpc[j] /\ todo'[j] = todo[j]
  BY <1>3, <1>4 DEF Types
<1> QED BY <1>7, <1>8, <1>9, <1>10 DEF Leaves

LEMMA EndRunLeaves ==
  ASSUME Types, NEW k \in Workers, EndRun(k)
  PROVE  Leaves(k)
<1>1. AfterRun(k) \in {"poll", "idle"}
  BY DEF AfterRun
<1> QED BY <1>1 DEF EndRun, Leaves, Types, Busy

LEMMA ReplaceLeaves ==
  ASSUME Types, NEW k \in Workers, Replace(k)
  PROVE  Leaves(k)
  BY DEF Replace, Leaves, Types, Busy

\* Leaving with the tables as they were keeps the invariant.
LEMMA LeavingKeeps ==
  ASSUME ConsumerInv, NEW k \in Workers, Leaves(k), UNCHANGED dbVars,
         acked' \subseteq Messages,
         \A m \in acked' \ acked : Settled(m)
  PROVE  ConsumerInv'
<1> USE DEF ConsumerInv
<1>1. UNCHANGED <<inbox, decided>>
  BY DEF dbVars
<1>2. \A m : Settled(m)' <=> Settled(m)
  BY <1>1 DEF Settled
<1>3. Types'
  <2>1. \A j \in Workers : wpc'[j] \in Busy => todo'[j] # <<>>
    BY DEF Leaves, Types, Busy
  <2> QED BY <1>1, <2>1 DEF Leaves, Types
<1>4. InboxSettled' /\ AckedIsSettled'
  BY <1>1, <1>2 DEF InboxSettled, AckedIsSettled
<1>5. AckersSettled'
  BY <1>2 DEF AckersSettled, Leaves
<1>6. ClaimExclusive'
  BY DEF ClaimExclusive, Leaves
<1> QED BY <1>3, <1>4, <1>5, <1>6

-----------------------------------------------------------------------------
(* The steps that keep a worker where it is in its batch                   *)

\* The worker k goes to `where` with the message it has.
Goes(k, where) ==
  /\ wpc' = [wpc EXCEPT ![k] = where]
  /\ UNCHANGED todo

\* A move to "ack" needs the message settled, one to "submit" needs that
\* nobody else is past the claim of it.
LEMMA GoingKeeps ==
  ASSUME ConsumerInv, NEW k \in Workers, NEW where \in Busy, Goes(k, where),
         todo[k] # <<>>, UNCHANGED <<dbVars, acked>>,
         where = "ack" => Settled(Head(todo[k])),
         where = "submit" =>
           \A j \in Workers \ {k} :
             wpc[j] = "submit" => Head(todo[j]) # Head(todo[k])
  PROVE  ConsumerInv'
<1> USE DEF ConsumerInv
<1>1. UNCHANGED <<inbox, decided, acked, todo>>
  BY DEF dbVars, Goes
<1>2. \A m : Settled(m)' <=> Settled(m)
  BY <1>1 DEF Settled
<1>3. wpc'[k] = where /\ \A j \in Workers \ {k} : wpc'[j] = wpc[j]
  BY DEF Goes, Types
<1>4. Types'
  <2>1. wpc' \in [Workers -> Busy \cup {"poll", "idle"}]
    BY DEF Goes, Types
  <2>2. \A j \in Workers : wpc'[j] \in Busy => todo'[j] # <<>>
    BY <1>1, <1>3 DEF Types
  <2> QED BY <1>1, <2>1, <2>2 DEF Types
<1>5. InboxSettled' /\ AckedIsSettled'
  BY <1>1, <1>2 DEF InboxSettled, AckedIsSettled
<1>6. AckersSettled'
  BY <1>1, <1>2, <1>3 DEF AckersSettled
<1>7. ClaimExclusive'
  BY <1>1, <1>3 DEF ClaimExclusive
<1> QED BY <1>4, <1>5, <1>6, <1>7

\* The loop of a run is not about to do anything with a message.
LEMMA IdlingKeeps ==
  ASSUME ConsumerInv, UNCHANGED <<dbVars, acked, todo>>,
         NEW k \in Workers, PollInVain(k)
  PROVE  ConsumerInv'
<1>1. AfterRun(k) \in {"poll", "idle"}
  BY DEF AfterRun
<1>2. Leaves(k)
  BY <1>1 DEF Leaves, PollInVain, ConsumerInv, Types, Busy
<1> QED BY <1>2, LeavingKeeps DEF ConsumerInv, Types

\* A step that touches neither a worker nor the tables.
LEMMA AsideKeeps ==
  ASSUME ConsumerInv, UNCHANGED <<dbVars, runVars, acked>>
  PROVE  ConsumerInv'
  BY DEF ConsumerInv, Types, InboxSettled, AckersSettled, AckedIsSettled,
         ClaimExclusive, Settled, dbVars, runVars

-----------------------------------------------------------------------------
(* The steps of the tables                                                 *)

\* Settled, of a message of this state, in the next one.
SettledNext(m) == inbox'[m] = "processed" /\ decided'[Key[m]] = Payload[m]

\* A key's transaction is never replaced, so what is settled stays settled.
LEMMA SettledStays ==
  ASSUME ConsumerInv, NEW n \in Messages, Accepts(n), SettledNext(n),
         decided' = [decided EXCEPT ![Key[n]] = Payload[n]],
         inbox' = [inbox EXCEPT ![n] = "processed"],
         NEW m \in Messages, Settled(m)
  PROVE  SettledNext(m)
<1>1. Key[n] \in Keys /\ Key[m] \in Keys
  BY DEF Keys
<1>2. CASE Key[m] = Key[n]
  <2>1. decided[Key[n]] = Payload[m] /\ Payload[m] # None
    BY <1>2, MessagesAssumption DEF Settled
  <2>2. Payload[m] = Payload[n]
    BY <2>1 DEF Accepts
  <2> QED BY <1>1, <1>2, <2>2 DEF Settled, SettledNext, ConsumerInv, Types
<1>3. CASE Key[m] # Key[n]
  BY <1>1, <1>3 DEF Settled, SettledNext, ConsumerInv, Types
<1> QED BY <1>2, <1>3

LEMMA ProcessKeeps ==
  ASSUME ConsumerInv, NEW k \in Workers, Process(k)
  PROVE  ConsumerInv'
<1> DEFINE n == Head(todo[k])
<1> USE DEF ConsumerInv
<1>1. todo[k] # <<>> /\ todo[k] \in Seq(Messages)
  BY DEF Process, Types, Busy
<1>2. n \in Messages
  BY <1>1
<1>3. Key[n] \in Keys /\ Payload[n] \in Payloads
  BY <1>2 DEF Keys, Payloads
<1>4. /\ inbox' = [inbox EXCEPT ![n] = "processed"]
      /\ decided' = [decided EXCEPT ![Key[n]] = Payload[n]]
      /\ wpc' = [wpc EXCEPT ![k] = "ack"]
      /\ UNCHANGED <<todo, acked>> /\ Accepts(n)
  BY DEF Process, sqsVars
<1> HIDE DEF n
<1>5. SettledNext(n)
  BY <1>2, <1>3, <1>4 DEF SettledNext, Types
<1>6. \A m \in Messages : Settled(m) => SettledNext(m)
  BY <1>2, <1>4, <1>5, SettledStays
<1>7. wpc'[k] = "ack" /\ \A j \in Workers \ {k} : wpc'[j] = wpc[j]
  BY <1>4 DEF Types
<1>8. Types'
  <2>1. inbox' \in [Messages -> {None, "received", "processed"}]
    BY <1>2, <1>4 DEF Types
  <2>2. decided' \in [Keys -> Payloads \cup {None}]
    BY <1>3, <1>4 DEF Types
  <2>3. wpc' \in [Workers -> Busy \cup {"poll", "idle"}]
    BY <1>4 DEF Types, Busy
  <2>4. \A j \in Workers : wpc'[j] \in Busy => todo'[j] # <<>>
    BY <1>1, <1>4, <1>7 DEF Types
  <2> QED BY <1>4, <2>1, <2>2, <2>3, <2>4 DEF Types
<1>9. InboxSettled'
  <2> SUFFICES ASSUME NEW m \in Messages, inbox'[m] # None PROVE SettledNext(m)
    BY DEF InboxSettled, Settled, SettledNext
  <2>1. CASE m = n
    BY <1>5, <2>1
  <2>2. CASE m # n
    BY <1>2, <1>4, <1>6, <2>2 DEF InboxSettled, Types
  <2> QED BY <2>1, <2>2
<1>10. AckedIsSettled'
  BY <1>4, <1>6 DEF AckedIsSettled, Settled, SettledNext, Types
<1>11. AckersSettled'
  <2> SUFFICES ASSUME NEW j \in Workers, wpc'[j] = "ack"
               PROVE  SettledNext(Head(todo'[j]))
    BY DEF AckersSettled, Settled, SettledNext
  <2>1. CASE j = k
    BY <1>4, <1>5, <2>1 DEF n
  <2>2. CASE j # k
    <3>1. wpc[j] = "ack" /\ todo'[j] = todo[j]
      BY <1>4, <1>7, <2>2
    <3>2. Head(todo[j]) \in Messages
      BY <3>1 DEF Types, Busy
    <3> QED BY <1>6, <3>1, <3>2 DEF AckersSettled
  <2> QED BY <2>1, <2>2
<1>12. ClaimExclusive'
  BY <1>4, <1>7 DEF ClaimExclusive
<1> QED BY <1>8, <1>9, <1>10, <1>11, <1>12

\* The API decides a key nobody has decided: no message had settled it.
LEMMA ApiKeeps ==
  ASSUME ConsumerInv, NEW a \in ApiCommands, ApiSubmit(a[1], a[2])
  PROVE  ConsumerInv'
<1> USE DEF ConsumerInv
<1>1. a[1] \in Keys /\ a[2] \in Payloads
  BY DEF Keys, Payloads
<1>2. /\ decided[a[1]] = None /\ decided' = [decided EXCEPT ![a[1]] = a[2]]
      /\ UNCHANGED <<inbox, wpc, todo, acked>>
  BY DEF ApiSubmit, sqsVars, runVars
<1>3. \A m \in Messages : Settled(m) => Settled(m)'
  BY <1>1, <1>2, MessagesAssumption DEF Settled, Keys, Types
<1>4. Types'
  BY <1>1, <1>2 DEF Types
<1>5. \A j \in Workers : wpc[j] = "ack" => Head(todo[j]) \in Messages
  BY DEF Types, Busy
<1> QED BY <1>2, <1>3, <1>4, <1>5
        DEF InboxSettled, AckersSettled, AckedIsSettled, ClaimExclusive, Types


-----------------------------------------------------------------------------
(* The steps of a worker                                                   *)

LEMMA WorkerKeeps ==
  ASSUME ConsumerInv, NEW k \in Workers, WorkerStep(k)
  PROVE  ConsumerInv'
<1> USE DEF ConsumerInv
<1>1. CASE PollInVain(k)
  BY <1>1, IdlingKeeps DEF PollInVain, sqsVars
<1>2. CASE Receive(k)
  <2>1. PICK s \in Deliveries : todo' = [todo EXCEPT ![k] = s]
    BY <1>2 DEF Receive
  <2>2. s \in Seq(Messages) /\ s # <<>>
    <3>1. PICK n \in 1 .. BatchSize : s \in [1 .. n -> Messages]
      BY <2>1 DEF Deliveries
    <3>2. n \in Nat /\ n >= 1
      BY <3>1, MessagesAssumption
    <3> QED BY <3>1, <3>2
  <2>3. Leaves(k)
    BY <1>2, <2>1, <2>2 DEF Receive, Leaves, Types, Busy
  <2> QED BY <1>2, <2>3, LeavingKeeps DEF Receive, Types
<1>3. CASE FindInbox(k)
  <2> DEFINE m == Head(todo[k])
             where == CASE inbox[m] = "processed" -> "ack"
                        [] inbox[m] = "received"  -> "submit"
                        [] OTHER                  -> "claim"
  <2>1. todo[k] # <<>> /\ m \in Messages
    BY <1>3 DEF FindInbox, Types, Busy
  <2>2. inbox[m] # None => Settled(m)
    BY <2>1 DEF InboxSettled
  <2>3. inbox[m] # "received"
    BY <2>2, MessagesAssumption DEF Settled
  <2>4. inbox[m] = "processed" => Settled(m)
    BY <2>2, MessagesAssumption
  <2>5. where \in {"ack", "claim"} /\ (where = "ack" => Settled(m))
    BY <2>3, <2>4
  <2>6. Goes(k, where) /\ UNCHANGED <<dbVars, acked>>
    BY <1>3 DEF FindInbox, Goes, sqsVars
  <2> HIDE DEF where
  <2> QED BY <2>1, <2>5, <2>6, GoingKeeps DEF Busy
<1>4. CASE Claim(k)
  <2>1. todo[k] # <<>>
    BY <1>4 DEF Claim, Types, Busy
  <2>2. \A j \in Workers \ {k} : wpc[j] = "submit" => Head(todo[j]) # Head(todo[k])
    BY <1>4 DEF Claim, ClaimWaitsFor
  <2>3. Goes(k, "submit") /\ UNCHANGED <<dbVars, acked>>
    BY <1>4 DEF Claim, Goes, sqsVars
  <2> QED BY <2>1, <2>2, <2>3, GoingKeeps DEF Busy
<1>5. CASE ClaimConflict(k)
  <2>1. Leaves(k)
    BY <1>5, NextMessageLeaves DEF ClaimConflict, Unacked, Busy
  <2> QED BY <1>5, <2>1, LeavingKeeps DEF ClaimConflict, sqsVars, Types
<1>6. CASE Process(k)
  BY <1>6, ProcessKeeps
<1>7. CASE FailToProcess(k)
  <2>1. Leaves(k)
    BY <1>7, NextMessageLeaves DEF FailToProcess, Unacked, Busy
  <2> QED BY <1>7, <2>1, LeavingKeeps DEF FailToProcess, sqsVars, Types
<1>8. CASE Ack(k)
  <2>1. Leaves(k)
    BY <1>8, NextMessageLeaves DEF Ack, Busy
  <2>2. Head(todo[k]) \in Messages /\ Settled(Head(todo[k]))
    BY <1>8 DEF Ack, Types, Busy, AckersSettled
  <2>3. acked' = acked \cup {Head(todo[k])} /\ UNCHANGED dbVars
    BY <1>8 DEF Ack
  <2> QED BY <2>1, <2>2, <2>3, LeavingKeeps DEF Types
<1>9. CASE StaleAck(k)
  <2>1. Leaves(k)
    BY <1>9, NextMessageLeaves, EndRunLeaves DEF StaleAck, Busy
  <2> QED BY <1>9, <2>1, LeavingKeeps DEF StaleAck, sqsVars, Types
<1>10. CASE FailToAck(k)
  <2>1. Leaves(k)
    BY <1>10, EndRunLeaves DEF FailToAck
  <2> QED BY <1>10, <2>1, LeavingKeeps DEF FailToAck, sqsVars, Types
<1> QED BY <1>1, <1>2, <1>3, <1>4, <1>5, <1>6, <1>7, <1>8, <1>9, <1>10
        DEF WorkerStep

LEMMA ReplaceKeeps ==
  ASSUME ConsumerInv, NEW k \in Workers, Replace(k)
  PROVE  ConsumerInv'
<1>1. Leaves(k)
  BY ReplaceLeaves DEF ConsumerInv
<1> QED BY <1>1, LeavingKeeps DEF Replace, sqsVars, ConsumerInv, Types

LEMMA ConsumerInvInductive == ConsumerInv /\ [Next]_vars => ConsumerInv'
<1> SUFFICES ASSUME ConsumerInv, [Next]_vars PROVE ConsumerInv'
  OBVIOUS
<1>1. ASSUME NEW m \in Messages, Arrive(m) \/ SqsStep(m) PROVE ConsumerInv'
  BY <1>1, AsideKeeps DEF Arrive, SqsStep, Expire, Redrive
<1>2. ASSUME NEW k \in Workers, WorkerStep(k) PROVE ConsumerInv'
  BY <1>2, WorkerKeeps
<1>3. ASSUME NEW k \in Workers, Crash(k) \/ Exit(k) PROVE ConsumerInv'
  BY <1>3, ReplaceKeeps DEF Crash, Exit
<1>4. ASSUME NEW k \in Workers, StopLoop(k) \/ CloseConnections(k) PROVE ConsumerInv'
  BY <1>4, AsideKeeps DEF StopLoop, CloseConnections, sqsVars
<1>5. ASSUME NEW a \in ApiCommands, ApiSubmit(a[1], a[2]) PROVE ConsumerInv'
  BY <1>5, ApiKeeps
<1>6. CASE UNCHANGED vars
  BY <1>6, AsideKeeps DEF vars, sqsVars
<1> QED BY <1>1, <1>2, <1>3, <1>4, <1>5, <1>6 DEF Next, Ends

LEMMA ConsumerInvHolds == Spec => []ConsumerInv
<1> QED BY InitConsumer, ConsumerInvInductive, PTL DEF Spec

-----------------------------------------------------------------------------
\* Whatever crashes, expires, is delivered again or loses its key to another
\* payload, a message deleted from the queue was processed and its key has
\* its payload (consumeOne deletes after handle() committed or after it found
\* the row processed).
THEOREM NoMessageIsLost == Spec => []AckedIsSettled
<1>1. ConsumerInv => AckedIsSettled
  BY DEF ConsumerInv
<1> QED BY <1>1, ConsumerInvHolds, PTL

\* The inbox row and the transaction of its command are committed together:
\* claim, submit and markProcessed are one database transaction, and no other
\* use of the key replaces what it decided.
THEOREM HandleIsAtomic == Spec => []InboxSettled
<1>1. ConsumerInv => InboxSettled
  BY DEF ConsumerInv
<1> QED BY <1>1, ConsumerInvHolds, PTL

\* However many workers are delivered a message, one of them at a time is
\* between its claim and its commit: the inbox's primary key makes the others
\* wait and then fail.
THEOREM OneClaimAtATime == Spec => []ClaimExclusive
<1>1. ConsumerInv => ClaimExclusive
  BY DEF ConsumerInv
<1> QED BY <1>1, ConsumerInvHolds, PTL


-----------------------------------------------------------------------------
(* Why a message dies: each delivery that did not settle it costs a fault.  *)

NoTwice(s) == \A i, j \in 1 .. Len(s) : i # j => s[i] # s[j]

FaultTypes ==
  /\ phase \in [Workers -> {"up", "stopped", "closed"}]
  /\ holder \in [Messages -> Workers \cup {None}]
  /\ receives \in [Messages -> Nat] /\ faults \in Nat
  /\ queue \in [Groups -> Seq(Messages)]
  /\ \A g \in Groups : NoTwice(queue[g])
  /\ \A k \in Workers : NoTwice(todo[k])
  /\ \A k \in Workers : wpc[k] \notin Busy => todo[k] = <<>>

LEMMA NoTwiceTail ==
  ASSUME NEW s \in Seq(Messages), s # <<>>, NoTwice(s)
  PROVE  /\ Tail(s) \in Seq(Messages) /\ NoTwice(Tail(s))
         /\ Head(s) \in In(s) /\ Head(s) \notin In(Tail(s))
         /\ In(s) = In(Tail(s)) \cup {Head(s)}
<1> DEFINE n == Len(s)
           u == Tail(s)
<1>1. n \in Nat /\ n >= 1 /\ Len(u) = n - 1 /\ Head(s) = s[1] /\ u \in Seq(Messages)
      /\ \A i \in 1 .. n - 1 : u[i] = s[i + 1]
  OBVIOUS
<1>2. \A i, j \in 1 .. n : i # j => s[i] # s[j]
  BY DEF NoTwice
<1>3. In(s) = {s[i] : i \in 1 .. n} /\ In(u) = {u[i] : i \in 1 .. n - 1}
  BY <1>1 DEF In
<1> HIDE DEF n, u
<1>4. \A i \in 1 .. n - 1 : i + 1 \in 1 .. n /\ i + 1 # 1
  BY <1>1
<1>5. \A i, j \in 1 .. n - 1 : i # j => u[i] # u[j]
  BY <1>1, <1>2, <1>4
<1>6. s[1] \notin In(u)
  BY <1>1, <1>2, <1>3, <1>4
<1>7. ASSUME NEW m \in In(s) PROVE m \in In(u) \cup {s[1]}
  <2>1. PICK i \in 1 .. n : s[i] = m
    BY <1>3
  <2>2. CASE i = 1
    BY <2>1, <2>2
  <2>3. CASE i # 1
    <3>1. i - 1 \in 1 .. n - 1 /\ (i - 1) + 1 = i
      BY <1>1, <2>3
    <3> QED BY <1>1, <1>3, <2>1, <3>1
  <2> QED BY <2>2, <2>3
<1>8. In(u) \cup {s[1]} \subseteq In(s)
  BY <1>1, <1>3, <1>4
<1> QED BY <1>1, <1>5, <1>6, <1>7, <1>8 DEF NoTwice, u

LEMMA NoTwiceRemove ==
  ASSUME NEW s \in Seq(Messages), NoTwice(s), NEW p \in 1 .. Len(s)
  PROVE  RemovePlace(s, p) \in Seq(Messages) /\ NoTwice(RemovePlace(s, p))
<1> DEFINE n == Len(s)
           u == RemovePlace(s, p)
<1>1. n \in Nat /\ p \in 1 .. n /\ \A i \in 1 .. n : s[i] \in Messages
  OBVIOUS
<1>2. \A i, j \in 1 .. n : i # j => s[i] # s[j]
  BY DEF NoTwice
<1>3. u = [i \in 1 .. n - 1 |-> IF i < p THEN s[i] ELSE s[i + 1]]
  BY DEF RemovePlace
<1> HIDE DEF n, u
<1>4. n - 1 \in Nat
  BY <1>1
<1>5. \A i \in 1 .. n - 1 : i \in 1 .. n /\ i + 1 \in 1 .. n
  BY <1>1
<1>6. u \in [1 .. n - 1 -> Messages]
  BY <1>1, <1>3, <1>5
<1>7. u \in Seq(Messages) /\ Len(u) = n - 1
  BY <1>4, <1>6
<1>8. ASSUME NEW i \in 1 .. n - 1, NEW j \in 1 .. n - 1, i # j PROVE u[i] # u[j]
  <2>1. CASE i < p /\ j < p
    BY <1>2, <1>3, <1>5, <1>8, <2>1
  <2>2. CASE i < p /\ ~(j < p)
    <3>1. i # j + 1
      BY <1>1, <1>8, <2>2
    <3> QED BY <1>2, <1>3, <1>5, <2>2, <3>1
  <2>3. CASE ~(i < p) /\ j < p
    <3>1. i + 1 # j
      BY <1>1, <1>8, <2>3
    <3> QED BY <1>2, <1>3, <1>5, <2>3, <3>1
  <2>4. CASE ~(i < p) /\ ~(j < p)
    <3>1. i + 1 # j + 1
      BY <1>8
    <3> QED BY <1>2, <1>3, <1>5, <2>4, <3>1
  <2> QED BY <2>1, <2>2, <2>3, <2>4
<1> QED BY <1>7, <1>8 DEF NoTwice, u

LEMMA NoTwiceAppend ==
  ASSUME NEW s \in Seq(Messages), NoTwice(s), NEW m \in Messages, m \notin In(s)
  PROVE  Append(s, m) \in Seq(Messages) /\ NoTwice(Append(s, m))
<1> DEFINE n == Len(s)
           u == Append(s, m)
<1>1. n \in Nat /\ Len(u) = n + 1 /\ u[n + 1] = m /\ u \in Seq(Messages)
      /\ \A i \in 1 .. n : u[i] = s[i] /\ s[i] # m
  BY DEF In
<1>2. \A i, j \in 1 .. n : i # j => s[i] # s[j]
  BY DEF NoTwice
<1> HIDE DEF n, u
<1>3. \A i \in 1 .. n + 1 : i = n + 1 \/ i \in 1 .. n
  BY <1>1
<1>4. \A i, j \in 1 .. n + 1 : i # j => u[i] # u[j]
  BY <1>1, <1>2, <1>3
<1> QED BY <1>1, <1>4 DEF NoTwice, u

\* The messages of its group that are before message i of a delivery.
SameBefore(s, i) == {j \in 1 .. i - 1 : Group[s[j]] = Group[s[i]]}
Rank(s, i) == Cardinality(SameBefore(s, i))

\* A message's rank in a delivery is its place in its group's queue, and later
\* messages of a group have a higher one.
LEMMA DeliveryRanks ==
  ASSUME FaultTypes, NEW s \in Deliveries
  PROVE  /\ s \in Seq(Messages) /\ s # <<>>
         /\ \A i \in 1 .. Len(s) :
              /\ IsFiniteSet(SameBefore(s, i)) /\ Rank(s, i) \in Nat
              /\ Group[s[i]] \in Groups /\ Free(Group[s[i]])
              /\ Rank(s, i) + 1 \in 1 .. Len(queue[Group[s[i]]])
              /\ s[i] = queue[Group[s[i]]][Rank(s, i) + 1]
         /\ \A i, j \in 1 .. Len(s) :
              i < j /\ Group[s[i]] = Group[s[j]] => Rank(s, i) < Rank(s, j)
<1>1. PICK n \in 1 .. BatchSize : s \in [1 .. n -> Messages]
  BY DEF Deliveries
<1>2. n \in Nat /\ n >= 1
  BY <1>1, MessagesAssumption
<1>3. s \in Seq(Messages) /\ s # <<>> /\ Len(s) = n
  BY <1>1, <1>2
<1>4. \A i \in 1 .. n : /\ Free(Group[s[i]]) /\ Len(queue[Group[s[i]]]) > Rank(s, i)
                        /\ s[i] = queue[Group[s[i]]][Rank(s, i) + 1]
  BY <1>3 DEF Deliveries, Rank, SameBefore
<1>5. ASSUME NEW i \in 1 .. n
      PROVE  /\ IsFiniteSet(SameBefore(s, i)) /\ Rank(s, i) \in Nat
             /\ Group[s[i]] \in Groups
             /\ Rank(s, i) + 1 \in 1 .. Len(queue[Group[s[i]]])
  <2>1. IsFiniteSet(SameBefore(s, i)) /\ Rank(s, i) \in Nat
    <3>1. IsFiniteSet(1 .. i - 1)
      BY <1>2, FS_Interval
    <3>2. SameBefore(s, i) \subseteq 1 .. i - 1
      BY DEF SameBefore
    <3> QED BY <3>1, <3>2, FS_Subset, FS_CardinalityType DEF Rank
  <2>2. Group[s[i]] \in Groups
    BY <1>1 DEF Groups
  <2>3. queue[Group[s[i]]] \in Seq(Messages)
    BY <2>2 DEF FaultTypes
  <2>4. Len(queue[Group[s[i]]]) \in Nat
    BY <2>3
  <2>5. Len(queue[Group[s[i]]]) > Rank(s, i)
    BY <1>4
  <2> QED BY <2>1, <2>2, <2>3, <2>4, <2>5
<1>6. ASSUME NEW i \in 1 .. n, NEW j \in 1 .. n, i < j, Group[s[i]] = Group[s[j]]
      PROVE  Rank(s, i) < Rank(s, j)
  <2>1. i \in SameBefore(s, j) /\ i \notin SameBefore(s, i)
        /\ SameBefore(s, i) \cup {i} \subseteq SameBefore(s, j)
    BY <1>2, <1>6 DEF SameBefore
  <2>2. /\ IsFiniteSet(SameBefore(s, i)) /\ IsFiniteSet(SameBefore(s, j))
        /\ Rank(s, i) \in Nat /\ Rank(s, j) \in Nat
    BY <1>5
  <2>3. Cardinality(SameBefore(s, i) \cup {i}) = Rank(s, i) + 1
    BY <2>1, <2>2, FS_AddElement DEF Rank
  <2>4. Cardinality(SameBefore(s, i) \cup {i}) <= Rank(s, j)
    BY <2>1, <2>2, FS_Subset DEF Rank
  <2> QED BY <2>2, <2>3, <2>4
<1> QED BY <1>3, <1>4, <1>5, <1>6

\* A delivery holds messages of free groups, none of them twice.
LEMMA DeliveryDistinct ==
  ASSUME FaultTypes, NEW s \in Deliveries
  PROVE  /\ s \in Seq(Messages) /\ s # <<>> /\ NoTwice(s)
         /\ \A m \in In(s) : /\ m \in Messages /\ holder[m] = None
                            /\ Queued(m) /\ Free(Group[m])
<1> DEFINE n == Len(s)
<1>1. /\ s \in Seq(Messages) /\ s # <<>> /\ n \in Nat
      /\ \A i \in 1 .. n : s[i] \in Messages
  BY DeliveryRanks
<1>2. \A i \in 1 .. n :
        /\ Group[s[i]] \in Groups /\ Free(Group[s[i]]) /\ Rank(s, i) \in Nat
        /\ Rank(s, i) + 1 \in 1 .. Len(queue[Group[s[i]]])
        /\ s[i] = queue[Group[s[i]]][Rank(s, i) + 1]
  BY DeliveryRanks
<1>3. \A i, j \in 1 .. n :
        i < j /\ Group[s[i]] = Group[s[j]] => Rank(s, i) < Rank(s, j)
  BY DeliveryRanks
<1> HIDE DEF n
<1>4. ASSUME NEW i \in 1 .. n, NEW j \in 1 .. n, i < j PROVE s[i] # s[j]
  <2> SUFFICES ASSUME Group[s[i]] = Group[s[j]] PROVE s[i] # s[j]
    OBVIOUS
  <2>1. Rank(s, i) + 1 # Rank(s, j) + 1
    BY <1>2, <1>3, <1>4
  <2>2. NoTwice(queue[Group[s[i]]])
    BY <1>2 DEF FaultTypes
  <2>3. /\ s[i] = queue[Group[s[i]]][Rank(s, i) + 1]
        /\ s[j] = queue[Group[s[i]]][Rank(s, j) + 1]
        /\ Rank(s, i) + 1 \in 1 .. Len(queue[Group[s[i]]])
        /\ Rank(s, j) + 1 \in 1 .. Len(queue[Group[s[i]]])
    BY <1>2
  <2> QED BY <2>1, <2>2, <2>3 DEF NoTwice
<1>5. NoTwice(s)
  <2>1. \A i, j \in 1 .. n : i # j => i < j \/ j < i
    BY <1>1
  <2> QED BY <1>4, <2>1 DEF NoTwice, n
<1>6. ASSUME NEW m \in In(s)
      PROVE  m \in Messages /\ holder[m] = None /\ Queued(m) /\ Free(Group[m])
  <2>1. PICK i \in 1 .. n : m = s[i]
    BY DEF In, n
  <2>2. m \in In(queue[Group[m]])
    BY <1>2, <2>1 DEF In
  <2>3. Free(Group[m])
    BY <1>2, <2>1
  <2> QED BY <1>1, <2>1, <2>2, <2>3 DEF Free, Queued
<1> QED BY <1>1, <1>5, <1>6

-----------------------------------------------------------------------------
(* The types of the fault model                                            *)

LEMMA InitFaultTypes == Init => FaultTypes
<1> SUFFICES ASSUME Init PROVE FaultTypes
  OBVIOUS
<1>1. Len(<<>>) = 0 /\ NoTwice(<<>>)
  BY DEF NoTwice
<1> QED BY <1>1 DEF Init, FaultTypes, Busy

\* A worker's batch only ever gets shorter, until the next one is received.
LEMMA NextMessageShortens ==
  ASSUME Types, FaultTypes, NEW k \in Workers, wpc[k] \in Busy, NextMessage(k)
  PROVE  /\ todo' = [todo EXCEPT ![k] = Tail(todo[k])]
         /\ todo'[k] = Tail(todo[k])
         /\ \A j \in Workers : NoTwice(todo'[j])
         /\ \A j \in Workers : wpc'[j] \notin Busy => todo'[j] = <<>>
         /\ wpc'[k] = "poll" => phase[k] = "up"
<1> DEFINE s == todo[k]
<1>1. s \in Seq(Messages) /\ s # <<>> /\ NoTwice(s)
  BY DEF Types, FaultTypes
<1>2. NoTwice(Tail(s))
  BY <1>1, NoTwiceTail
<1>3. todo' = [todo EXCEPT ![k] = Tail(s)] /\ todo'[k] = Tail(s)
  BY DEF NextMessage, Types
<1>4. wpc'[k] = IF Len(s) > 1 THEN "find" ELSE AfterRun(k)
  BY DEF NextMessage, Types
<1>5. \A j \in Workers \ {k} : todo'[j] = todo[j] /\ wpc'[j] = wpc[j]
  BY DEF NextMessage, Types
<1>6. ~(Len(s) > 1) => Tail(s) = <<>>
  <2>1. Len(s) \in Nat /\ Len(Tail(s)) = Len(s) - 1 /\ Len(s) # 0 /\ Tail(s) \in Seq(Messages)
    BY <1>1
  <2> HIDE DEF s
  <2> QED BY <2>1
<1> HIDE DEF s
<1>7. \A j \in Workers : wpc'[j] \notin Busy => todo'[j] = <<>>
  BY <1>3, <1>4, <1>5, <1>6 DEF FaultTypes, Busy
<1>8. wpc'[k] = "poll" => phase[k] = "up"
  BY <1>4 DEF AfterRun
<1>9. \A j \in Workers : NoTwice(todo'[j])
  BY <1>2, <1>3, <1>5 DEF FaultTypes
<1> QED BY <1>3, <1>7, <1>8, <1>9 DEF s

LEMMA EndRunShortens ==
  ASSUME Types, FaultTypes, NEW k \in Workers, EndRun(k)
  PROVE  /\ todo' = [todo EXCEPT ![k] = <<>>]
         /\ todo'[k] = <<>>
         /\ \A j \in Workers : NoTwice(todo'[j])
         /\ \A j \in Workers : wpc'[j] \notin Busy => todo'[j] = <<>>
         /\ wpc'[k] = "poll" => phase[k] = "up"
<1>1. NoTwice(<<>>)
  BY DEF NoTwice
<1>2. todo' = [todo EXCEPT ![k] = <<>>] /\ wpc' = [wpc EXCEPT ![k] = AfterRun(k)]
  BY DEF EndRun
<1>3. AfterRun(k) = "poll" => phase[k] = "up"
  BY DEF AfterRun
<1> QED BY <1>1, <1>2, <1>3 DEF Types, FaultTypes

LEMMA ReplaceShortens ==
  ASSUME Types, FaultTypes, NEW k \in Workers, Replace(k)
  PROVE  /\ \A j \in Workers : NoTwice(todo'[j])
         /\ \A j \in Workers : wpc'[j] \notin Busy => todo'[j] = <<>>
         /\ phase' \in [Workers -> {"up", "stopped", "closed"}]
<1>1. NoTwice(<<>>)
  BY DEF NoTwice
<1> QED BY <1>1 DEF Replace, Types, FaultTypes

\* What a step that is not about SQS or the workers' batches has to show.
LEMMA FaultTypesKept ==
  ASSUME FaultTypes, UNCHANGED <<holder, receives, queue>>,
         phase' \in [Workers -> {"up", "stopped", "closed"}],
         faults' = faults \/ faults' = faults + 1,
         \A j \in Workers : NoTwice(todo'[j]),
         \A j \in Workers : wpc'[j] \notin Busy => todo'[j] = <<>>
  PROVE  FaultTypes'
<1>1. faults' \in Nat
  BY DEF FaultTypes
<1>2. \A j \in Workers : NoTwice(todo[j])'
  BY DEF NoTwice
<1>3. \A g \in Groups : NoTwice(queue[g])'
  BY DEF NoTwice, FaultTypes
<1> QED BY <1>1, <1>2, <1>3 DEF FaultTypes

LEMMA WorkerFaultTypes ==
  ASSUME Types, FaultTypes, NEW k \in Workers, WorkerStep(k)
  PROVE  FaultTypes'
<1>1. \A j \in Workers : NoTwice(todo[j])
  BY DEF FaultTypes
<1>2. phase \in [Workers -> {"up", "stopped", "closed"}]
  BY DEF FaultTypes
<1>3. CASE PollInVain(k)
  <2>1. wpc' = [wpc EXCEPT ![k] = AfterRun(k)] /\ wpc[k] = "poll" /\ todo' = todo
    BY <1>3 DEF PollInVain
  <2>2. \A j \in Workers : wpc'[j] \notin Busy => todo'[j] = <<>>
    BY <2>1 DEF FaultTypes, Types, Busy
  <2>3. UNCHANGED <<holder, receives, queue, phase, faults, todo>>
    BY <1>3 DEF PollInVain, sqsVars
  <2> QED BY <1>1, <1>2, <2>2, <2>3, FaultTypesKept
<1>4. CASE Receive(k)
  <2>1. PICK s \in Deliveries :
          /\ todo' = [todo EXCEPT ![k] = s]
          /\ holder' = [m \in Messages |-> IF m \in In(s) THEN k ELSE holder[m]]
          /\ receives' = [m \in Messages |->
                            IF m \in In(s) THEN receives[m] + 1 ELSE receives[m]]
    BY <1>4 DEF Receive
  <2>2. NoTwice(s)
    BY DeliveryDistinct
  <2>3. \A j \in Workers : NoTwice(todo'[j])
    BY <1>1, <2>1, <2>2 DEF Types
  <2>4. \A j \in Workers : wpc'[j] \notin Busy => todo'[j] = <<>>
    BY <1>4, <2>1 DEF Receive, FaultTypes, Types, Busy
  <2>5. holder' \in [Messages -> Workers \cup {None}] /\ receives' \in [Messages -> Nat]
    BY <2>1 DEF FaultTypes
  <2>6. UNCHANGED <<phase, faults, queue>>
    BY <1>4 DEF Receive
  <2>7. \A j \in Workers : NoTwice(todo[j])'
    BY <2>3 DEF NoTwice
  <2>8. \A g \in Groups : NoTwice(queue[g])'
    BY <2>6 DEF NoTwice, FaultTypes
  <2> QED BY <2>4, <2>5, <2>6, <2>7, <2>8 DEF FaultTypes
<1>5. ASSUME NEW where \in Busy, Goes(k, where), wpc[k] \in Busy,
             UNCHANGED <<holder, receives, queue, phase, faults>>
      PROVE  FaultTypes'
  <2>1. \A j \in Workers : wpc'[j] \notin Busy => todo'[j] = <<>>
    BY <1>5 DEF Goes, FaultTypes, Types
  <2> QED BY <1>1, <1>2, <1>5, <2>1, FaultTypesKept DEF Goes
<1>6. CASE FindInbox(k)
  <2> DEFINE where == CASE inbox[Head(todo[k])] = "processed" -> "ack"
                        [] inbox[Head(todo[k])] = "received"  -> "submit"
                        [] OTHER                              -> "claim"
  <2>1. where \in Busy
    BY DEF Busy
  <2>2. Goes(k, where) /\ wpc[k] \in Busy
    BY <1>6 DEF FindInbox, Goes, Busy
  <2> HIDE DEF where
  <2> QED BY <1>5, <1>6, <2>1, <2>2 DEF FindInbox, sqsVars
<1>7. CASE Claim(k)
  <2>1. Goes(k, "submit") /\ wpc[k] \in Busy /\ "submit" \in Busy
    BY <1>7 DEF Claim, Goes, Busy
  <2> QED BY <1>5, <1>7, <2>1 DEF Claim, sqsVars
<1>8. CASE Process(k)
  <2>1. Goes(k, "ack") /\ wpc[k] \in Busy /\ "ack" \in Busy
    BY <1>8 DEF Process, Goes, Busy
  <2> QED BY <1>5, <1>8, <2>1 DEF Process, sqsVars
<1>9. ASSUME wpc[k] \in Busy, NextMessage(k) \/ EndRun(k),
             UNCHANGED <<holder, receives, queue, phase>>,
             faults' = faults \/ faults' = faults + 1
      PROVE  FaultTypes'
  <2>1. /\ \A j \in Workers : NoTwice(todo'[j])
        /\ \A j \in Workers : wpc'[j] \notin Busy => todo'[j] = <<>>
    BY <1>9, NextMessageShortens, EndRunShortens
  <2> QED BY <1>2, <1>9, <2>1, FaultTypesKept
<1>10. CASE ClaimConflict(k) \/ FailToProcess(k) \/ StaleAck(k) \/ FailToAck(k)
  BY <1>9, <1>10
  DEF ClaimConflict, FailToProcess, StaleAck, FailToAck, Unacked, Busy, sqsVars
<1>11. CASE Ack(k)
  <2> DEFINE m == Head(todo[k])
  <2>1. wpc[k] \in Busy /\ NextMessage(k) /\ UNCHANGED <<receives, phase, faults>>
    BY <1>11 DEF Ack, Busy
  <2>2. m \in Messages /\ Group[m] \in Groups
    BY <2>1 DEF Types, Groups
  <2>3. /\ \A j \in Workers : NoTwice(todo'[j])
        /\ \A j \in Workers : wpc'[j] \notin Busy => todo'[j] = <<>>
    BY <2>1, NextMessageShortens
  <2>4. holder' \in [Messages -> Workers \cup {None}]
    BY <1>11, <2>2 DEF Ack, FaultTypes
  <2>5. PICK i \in 1 .. Len(queue[Group[m]]) :
          queue' = [queue EXCEPT ![Group[m]] = RemovePlace(queue[Group[m]], i)]
    BY <1>11 DEF Ack
  <2>6. /\ RemovePlace(queue[Group[m]], i) \in Seq(Messages)
        /\ NoTwice(RemovePlace(queue[Group[m]], i))
    BY <2>2, NoTwiceRemove DEF FaultTypes
  <2>7. queue' \in [Groups -> Seq(Messages)] /\ \A g \in Groups : NoTwice(queue'[g])
    BY <2>2, <2>5, <2>6 DEF FaultTypes
  <2>8. \A g \in Groups : NoTwice(queue[g])'
    BY <2>7 DEF NoTwice
  <2>9. \A j \in Workers : NoTwice(todo[j])'
    BY <2>3 DEF NoTwice
  <2> QED BY <2>1, <2>3, <2>4, <2>7, <2>8, <2>9 DEF FaultTypes
<1> QED BY <1>3, <1>4, <1>6, <1>7, <1>8, <1>10, <1>11 DEF WorkerStep


LEMMA FaultTypesNext == Types /\ FaultTypes /\ [Next]_vars => FaultTypes'
<1> SUFFICES ASSUME Types, FaultTypes, [Next]_vars PROVE FaultTypes'
  OBVIOUS
<1>1. /\ \A j \in Workers : NoTwice(todo[j])
      /\ \A j \in Workers : wpc[j] \notin Busy => todo[j] = <<>>
      /\ phase \in [Workers -> {"up", "stopped", "closed"}]
  BY DEF FaultTypes
<1>2. ASSUME NEW m \in Messages, Arrive(m) PROVE FaultTypes'
  <2>1. Group[m] \in Groups
    BY DEF Groups
  <2>2. m \notin In(queue[Group[m]])
    BY <1>2 DEF Arrive, Arrived, Queued
  <2>3. Append(queue[Group[m]], m) \in Seq(Messages) /\ NoTwice(Append(queue[Group[m]], m))
    BY <2>1, <2>2, NoTwiceAppend DEF FaultTypes
  <2>4. queue' = [queue EXCEPT ![Group[m]] = Append(queue[Group[m]], m)]
    BY <1>2 DEF Arrive
  <2>5. queue' \in [Groups -> Seq(Messages)] /\ \A g \in Groups : NoTwice(queue'[g])
    BY <2>1, <2>3, <2>4 DEF FaultTypes
  <2>6. UNCHANGED <<holder, receives, phase, faults, todo, wpc>>
    BY <1>2 DEF Arrive, runVars
  <2> QED BY <2>5, <2>6 DEF FaultTypes, NoTwice
<1>3. ASSUME NEW m \in Messages, Expire(m) PROVE FaultTypes'
  <2>1. holder' \in [Messages -> Workers \cup {None}]
    BY <1>3 DEF Expire, FaultTypes
  <2>2. faults' \in Nat
    BY <1>3 DEF Expire, FaultTypes
  <2>3. UNCHANGED <<queue, receives, phase, todo, wpc>>
    BY <1>3 DEF Expire, runVars
  <2> QED BY <2>1, <2>2, <2>3 DEF FaultTypes, NoTwice
<1>4. ASSUME NEW m \in Messages, Redrive(m) PROVE FaultTypes'
  <2> DEFINE q == queue[Group[m]]
  <2>1. Group[m] \in Groups
    BY DEF Groups
  <2>2. q \in Seq(Messages) /\ NoTwice(q) /\ q # <<>>
    BY <1>4, <2>1 DEF Redrive, Queued, In, FaultTypes
  <2>3. Tail(q) \in Seq(Messages) /\ NoTwice(Tail(q))
    BY <2>2, NoTwiceTail
  <2>4. queue' = [queue EXCEPT ![Group[m]] = Tail(q)]
    BY <1>4 DEF Redrive
  <2>5. queue' \in [Groups -> Seq(Messages)] /\ \A g \in Groups : NoTwice(queue'[g])
    BY <2>1, <2>3, <2>4 DEF FaultTypes
  <2>6. UNCHANGED <<holder, receives, phase, faults, todo, wpc>>
    BY <1>4 DEF Redrive, runVars
  <2> QED BY <2>5, <2>6 DEF FaultTypes, NoTwice
<1>5. ASSUME NEW k \in Workers, WorkerStep(k) PROVE FaultTypes'
  BY <1>5, WorkerFaultTypes
<1>6. ASSUME NEW k \in Workers, Crash(k) \/ Exit(k) PROVE FaultTypes'
  <2>1. Replace(k) /\ (faults' = faults \/ faults' = faults + 1)
    BY <1>6 DEF Crash, Exit
  <2>2. UNCHANGED <<holder, receives, queue>>
    BY <2>1 DEF Replace, sqsVars
  <2> QED BY <2>1, <2>2, ReplaceShortens, FaultTypesKept
<1>7. ASSUME NEW k \in Workers, StopLoop(k) \/ CloseConnections(k) PROVE FaultTypes'
  <2>1. UNCHANGED <<holder, receives, queue, todo, wpc>>
        /\ (faults' = faults \/ faults' = faults + 1)
    BY <1>7 DEF StopLoop, CloseConnections, sqsVars, runVars
  <2>2. phase' \in [Workers -> {"up", "stopped", "closed"}]
    BY <1>1, <1>7 DEF StopLoop, CloseConnections
  <2> QED BY <1>1, <2>1, <2>2, FaultTypesKept
<1>8. ASSUME NEW a \in ApiCommands, ApiSubmit(a[1], a[2]) PROVE FaultTypes'
  BY <1>1, <1>8, FaultTypesKept DEF ApiSubmit, sqsVars, runVars
<1>9. CASE UNCHANGED vars
  BY <1>1, <1>9, FaultTypesKept DEF vars, sqsVars, runVars
<1> QED BY <1>2, <1>3, <1>4, <1>5, <1>6, <1>7, <1>8, <1>9 DEF Next, SqsStep, Ends

-----------------------------------------------------------------------------
(* The account of a message's deliveries                                   *)

Excused(m) == inbox[m] = "processed" \/ ~Accepts(m)

\* The worker k has the message m, and its receipt handle is good.
Has(k, m) == holder[m] = k /\ m \in In(todo[k])

\* A fault has happened to k that may still take m from it: its process is
\* told to end, or another message of its batch has expired.
Interrupted(k) == phase[k] # "up" \/ \E h \in In(todo[k]) : holder[h] # k
Owing(m) ==
  {k \in Workers : \/ wpc[k] = "poll" /\ phase[k] # "up"
                   \/ Has(k, m) /\ Interrupted(k)}

Current(m) == IF Handled(m) THEN 1 ELSE 0

\* The deliveries of m but the current one, and the interruptions that have
\* not cost m a delivery yet, are no more than the faults there have been.
Paid(m) == receives[m] + Cardinality(Owing(m)) <= faults + Current(m)

DebtInv == \A m \in Messages : Excused(m) \/ Paid(m)

LEMMA OwingFinite ==
  ASSUME NEW m
  PROVE  IsFiniteSet(Owing(m)) /\ Cardinality(Owing(m)) \in Nat
<1>1. Owing(m) \subseteq Workers
  BY DEF Owing
<1> QED BY <1>1, MessagesAssumption, FS_Subset, FS_CardinalityType

LEMMA SumsGrow ==
  ASSUME NEW r \in Nat, NEW c \in Nat, NEW d \in Nat, NEW f \in Nat, NEW g \in Nat,
         NEW a \in Nat, NEW b \in Nat,
         d <= c, a <= b, g >= f, r + c <= f + a
  PROVE  r + d <= g + b
  OBVIOUS

\* A step that neither takes a delivery from m nor gives it one, or takes one
\* and has a fault for it: its own, or one of an interruption.
LEMMA PaidKept ==
  ASSUME FaultTypes, FaultTypes', NEW m \in Messages, Paid(m),
         receives'[m] = receives[m], NEW k,
         \/ /\ Owing(m)' \subseteq Owing(m) /\ faults' >= faults
            /\ Handled(m) => Handled(m)'
         \/ /\ Owing(m)' \subseteq Owing(m) /\ faults' = faults + 1
         \/ /\ Owing(m)' \subseteq Owing(m) \cup {k} /\ faults' = faults + 1
            /\ Handled(m) => Handled(m)'
         \/ /\ Owing(m)' \subseteq Owing(m) \ {k} /\ k \in Owing(m)
            /\ faults' = faults
  PROVE  Paid(m)'
<1> DEFINE c == Cardinality(Owing(m))
           d == Cardinality(Owing(m)')
           r == receives[m]
           a == Current(m)
           b == Current(m)'
<1>1. r \in Nat /\ faults \in Nat /\ faults' \in Nat
  BY DEF FaultTypes
<1>2. IsFiniteSet(Owing(m)) /\ c \in Nat
  BY OwingFinite
<1>3. Owing(m)' \subseteq Workers
  BY DEF Owing
<1>4. IsFiniteSet(Owing(m)') /\ d \in Nat
  BY <1>3, MessagesAssumption, FS_Subset, FS_CardinalityType
<1>5. a \in {0, 1} /\ b \in {0, 1}
  BY DEF Current
<1>6. r + c <= faults + a
  BY DEF Paid
<1>7. SUFFICES r + d <= faults' + b
  BY DEF Paid
<1>8. Owing(m)' \subseteq Owing(m) => d <= c
  BY <1>2, FS_Subset
<1>9. (Handled(m) => Handled(m)') => a <= b
  BY DEF Current
<1>10. Owing(m)' \subseteq Owing(m) \cup {k} => d <= c + 1
  <2>1. /\ IsFiniteSet(Owing(m) \cup {k})
        /\ Cardinality(Owing(m) \cup {k}) \in {c, c + 1}
    BY <1>2, FS_AddElement
  <2> SUFFICES ASSUME Owing(m)' \subseteq Owing(m) \cup {k} PROVE d <= c + 1
    OBVIOUS
  <2>2. d <= Cardinality(Owing(m) \cup {k})
    BY <2>1, FS_Subset
  <2> HIDE DEF c, d
  <2> QED BY <1>2, <1>4, <2>1, <2>2
<1>11. Owing(m)' \subseteq Owing(m) \ {k} /\ k \in Owing(m) => d <= c - 1
  <2> SUFFICES ASSUME Owing(m)' \subseteq Owing(m) \ {k}, k \in Owing(m) PROVE d <= c - 1
    OBVIOUS
  <2>1. IsFiniteSet(Owing(m) \ {k}) /\ Cardinality(Owing(m) \ {k}) = c - 1
    BY <1>2, FS_RemoveElement
  <2>2. d <= Cardinality(Owing(m) \ {k})
    BY <2>1, FS_Subset
  <2> QED BY <2>1, <2>2
<1> HIDE DEF a, b, c, d, r
<1>12. CASE /\ Owing(m)' \subseteq Owing(m) /\ faults' >= faults
            /\ Handled(m) => Handled(m)'
  <2>1. d <= c /\ a <= b /\ faults' >= faults
    BY <1>8, <1>9, <1>12
  <2>2. a \in Nat /\ b \in Nat
    BY <1>5
  <2> QED BY <1>1, <1>2, <1>4, <1>6, <2>1, <2>2, SumsGrow
<1>13. CASE Owing(m)' \subseteq Owing(m) /\ faults' = faults + 1
  BY <1>1, <1>2, <1>4, <1>5, <1>6, <1>8, <1>13
<1>14. CASE /\ Owing(m)' \subseteq Owing(m) \cup {k} /\ faults' = faults + 1
            /\ Handled(m) => Handled(m)'
  BY <1>1, <1>2, <1>4, <1>5, <1>6, <1>9, <1>10, <1>14
<1>15. CASE /\ Owing(m)' \subseteq Owing(m) \ {k} /\ k \in Owing(m)
            /\ faults' = faults
  BY <1>1, <1>2, <1>4, <1>5, <1>6, <1>11, <1>15
<1> QED BY <1>12, <1>13, <1>14, <1>15

\* What has been processed, or lost its key, stays so.
LEMMA ExcusedStays ==
  ASSUME ConsumerInv, [Next]_vars, NEW m \in Messages, Excused(m)
  PROVE  Excused(m)'
<1>1. ASSUME UNCHANGED dbVars PROVE Excused(m)'
  BY <1>1 DEF dbVars, Excused, Accepts
<1>2. Key[m] \in Keys
  BY DEF Keys
<1>3. ASSUME NEW k \in Workers, Process(k) PROVE Excused(m)'
  <2> DEFINE n == Head(todo[k])
  <2>1. n \in Messages /\ Key[n] \in Keys
    BY <1>3 DEF Process, ConsumerInv, Types, Busy, Keys
  <2>2. /\ Accepts(n) /\ inbox' = [inbox EXCEPT ![n] = "processed"]
        /\ decided' = [decided EXCEPT ![Key[n]] = Payload[n]]
    BY <1>3 DEF Process
  <2> HIDE DEF n
  <2>3. CASE inbox[m] = "processed"
    BY <2>1, <2>2, <2>3 DEF Excused, ConsumerInv, Types
  <2>4. CASE m \in Poison
    BY <2>4 DEF Excused, Accepts
  <2>5. CASE decided[Key[m]] \notin {None, Payload[m]}
    <3>1. Key[m] = Key[n] => decided[Key[m]] = Payload[n]
      BY <2>2, <2>5 DEF Accepts
    <3>2. decided'[Key[m]] = decided[Key[m]]
      BY <1>2, <2>1, <2>2, <3>1 DEF ConsumerInv, Types
    <3> QED BY <2>5, <3>2 DEF Excused, Accepts
  <2> QED BY <2>3, <2>4, <2>5 DEF Excused, Accepts
<1>4. ASSUME NEW a \in ApiCommands, ApiSubmit(a[1], a[2]) PROVE Excused(m)'
  <2>1. UNCHANGED inbox /\ decided[a[1]] = None /\ a[1] \in Keys
        /\ decided' = [decided EXCEPT ![a[1]] = a[2]]
    BY <1>4 DEF ApiSubmit, Keys
  <2>2. decided[Key[m]] # None => decided'[Key[m]] = decided[Key[m]]
    BY <1>2, <2>1 DEF ConsumerInv, Types
  <2> QED BY <2>1, <2>2 DEF Excused, Accepts
<1>5. CASE UNCHANGED vars
  BY <1>1, <1>5 DEF vars
<1>6. ASSUME NEW n \in Messages, Arrive(n) \/ SqsStep(n) PROVE Excused(m)'
  BY <1>1, <1>6 DEF Arrive, SqsStep, Expire, Redrive
<1>7. ASSUME NEW k \in Workers, WorkerStep(k) PROVE Excused(m)'
  BY <1>1, <1>3, <1>7 DEF WorkerStep, PollInVain, Receive, FindInbox, Claim,
     ClaimConflict, FailToProcess, Ack, StaleAck, FailToAck
<1>8. ASSUME NEW k \in Workers, Crash(k) \/ StopLoop(k) \/ Ends(k) PROVE Excused(m)'
  BY <1>1, <1>8 DEF Crash, StopLoop, Ends, CloseConnections, Exit, Replace
<1> QED BY <1>4, <1>5, <1>6, <1>7, <1>8 DEF Next


-----------------------------------------------------------------------------
(* The steps on the account                                                *)

\* A step of no worker's batch, process or receipt handle.
LEMMA PaidAside ==
  ASSUME FaultTypes, FaultTypes', NEW m \in Messages, Paid(m),
         UNCHANGED <<holder, receives, phase, todo, faults>>,
         \A k \in Workers : wpc'[k] = "poll" => wpc[k] = "poll"
  PROVE  Paid(m)'
<1>1. Owing(m)' \subseteq Owing(m)
  BY DEF Owing, Has, Interrupted, In
<1>2. Handled(m) => Handled(m)'
  BY DEF Handled, In
<1>3. faults' >= faults
  BY DEF FaultTypes
<1> QED BY <1>1, <1>2, <1>3, PaidKept

\* A worker forgets messages of its batch: it owes no more than before, and
\* what it forgets it owes nothing.
LEMMA Forgets ==
  ASSUME NEW k \in Workers, NEW m \in Messages, UNCHANGED <<holder, phase>>,
         In(todo'[k]) \subseteq In(todo[k]), wpc'[k] = "poll" => phase[k] = "up",
         \A j \in Workers \ {k} : wpc'[j] = wpc[j] /\ todo'[j] = todo[j]
  PROVE  /\ Owing(m)' \subseteq Owing(m)
         /\ ~Has(k, m) \/ m \in In(todo'[k]) => (Handled(m) => Handled(m)')
         /\ m \notin In(todo'[k]) => k \notin Owing(m)'
<1>1. \A j \in Workers \ {k} : /\ Has(j, m)' <=> Has(j, m)
                               /\ Interrupted(j)' <=> Interrupted(j)
  BY DEF Has, Interrupted, In
<1>2. Has(k, m)' <=> holder[m] = k /\ m \in In(todo'[k])
  BY DEF Has, In
<1>3. Interrupted(k)' => Interrupted(k)
  <2>1. Interrupted(k)' <=> phase[k] # "up" \/ \E h \in In(todo'[k]) : holder[h] # k
    BY DEF Interrupted, In
  <2> QED BY <2>1 DEF Interrupted
<1>4. Has(k, m)' => Has(k, m)
  BY <1>2 DEF Has
<1>5. Owing(m)' \subseteq Owing(m)
  <2> SUFFICES ASSUME NEW j \in Workers, j \in Owing(m)' PROVE j \in Owing(m)
    BY DEF Owing
  <2>1. \/ wpc'[j] = "poll" /\ phase'[j] # "up"
        \/ Has(j, m)' /\ Interrupted(j)'
    BY DEF Owing, Has, Interrupted, In
  <2>2. CASE j = k
    BY <1>3, <1>4, <2>1, <2>2 DEF Owing
  <2>3. CASE j # k
    BY <1>1, <2>1, <2>3 DEF Owing
  <2> QED BY <2>2, <2>3
<1>6. Handled(m) <=> \E j \in Workers : Has(j, m)
  BY DEF Handled, Has
<1>7. Handled(m)' <=> \E j \in Workers : Has(j, m)'
  BY DEF Handled, Has, In
<1>8. ~Has(k, m) \/ m \in In(todo'[k]) => (Handled(m) => Handled(m)')
  BY <1>1, <1>2, <1>6, <1>7 DEF Has
<1>9. m \notin In(todo'[k]) => k \notin Owing(m)'
  <2>1. k \in Owing(m)' => (wpc'[k] = "poll" /\ phase[k] # "up") \/ Has(k, m)'
    BY DEF Owing
  <2> QED BY <1>2, <2>1
<1> QED BY <1>5, <1>8, <1>9

\* NextMessage and EndRun forget, and NextMessage only the head.
LEMMA NextMessageForgets ==
  ASSUME Types, FaultTypes, NEW k \in Workers, wpc[k] \in Busy, NextMessage(k)
  PROVE  /\ In(todo'[k]) \subseteq In(todo[k])
         /\ In(todo[k]) \ In(todo'[k]) = {Head(todo[k])}
         /\ Head(todo[k]) \in In(todo[k])
         /\ wpc'[k] = "poll" => phase[k] = "up"
         /\ \A j \in Workers \ {k} : wpc'[j] = wpc[j] /\ todo'[j] = todo[j]
<1>1. todo'[k] = Tail(todo[k]) /\ (wpc'[k] = "poll" => phase[k] = "up")
  BY NextMessageShortens
<1>2. todo[k] \in Seq(Messages) /\ todo[k] # <<>> /\ NoTwice(todo[k])
  BY DEF Types, FaultTypes
<1>3. /\ Head(todo[k]) \in In(todo[k]) /\ Head(todo[k]) \notin In(Tail(todo[k]))
      /\ In(todo[k]) = In(Tail(todo[k])) \cup {Head(todo[k])}
  BY <1>2, NoTwiceTail
<1>4. \A j \in Workers \ {k} : wpc'[j] = wpc[j] /\ todo'[j] = todo[j]
  BY DEF NextMessage, Types
<1> QED BY <1>1, <1>3, <1>4

LEMMA EndRunForgets ==
  ASSUME Types, FaultTypes, NEW k \in Workers, EndRun(k)
  PROVE  /\ In(todo'[k]) = {}
         /\ wpc'[k] = "poll" => phase[k] = "up"
         /\ \A j \in Workers \ {k} : wpc'[j] = wpc[j] /\ todo'[j] = todo[j]
<1>1. todo'[k] = <<>> /\ (wpc'[k] = "poll" => phase[k] = "up")
  BY EndRunShortens
<1>2. \A j \in Workers \ {k} : wpc'[j] = wpc[j] /\ todo'[j] = todo[j]
  BY DEF EndRun, Types
<1> QED BY <1>1, <1>2 DEF In

LEMMA PaidClaimConflict ==
  ASSUME ConsumerInv, FaultTypes, FaultTypes', NEW k \in Workers, ClaimConflict(k),
         NEW m \in Messages, Paid(m)
  PROVE  Excused(m) \/ Paid(m)'
<1>1. /\ wpc[k] \in Busy /\ NextMessage(k) /\ inbox[Head(todo[k])] # None
      /\ UNCHANGED <<holder, receives, phase, faults>>
  BY DEF ClaimConflict, Unacked, Busy, sqsVars
<1>2. Types
  BY DEF ConsumerInv
<1>3. CASE m = Head(todo[k])
  BY <1>1, <1>3 DEF Excused, ConsumerInv, InboxSettled, Settled
<1>4. CASE m # Head(todo[k])
  <2>1. /\ In(todo'[k]) \subseteq In(todo[k])
        /\ m \in In(todo[k]) => m \in In(todo'[k])
        /\ wpc'[k] = "poll" => phase[k] = "up"
        /\ \A j \in Workers \ {k} : wpc'[j] = wpc[j] /\ todo'[j] = todo[j]
    BY <1>1, <1>2, <1>4, NextMessageForgets
  <2>2. ~Has(k, m) \/ m \in In(todo'[k])
    BY <2>1 DEF Has
  <2>3. Owing(m)' \subseteq Owing(m) /\ (Handled(m) => Handled(m)')
    BY <1>1, <2>1, <2>2, Forgets
  <2>4. faults' >= faults
    BY <1>1 DEF FaultTypes
  <2> QED BY <1>1, <2>3, <2>4, PaidKept
<1> QED BY <1>3, <1>4

LEMMA PaidFailToProcess ==
  ASSUME ConsumerInv, FaultTypes, FaultTypes', NEW k \in Workers, FailToProcess(k),
         NEW m \in Messages, Paid(m)
  PROVE  Excused(m) \/ Paid(m)'
<1>1. /\ wpc[k] \in Busy /\ NextMessage(k) /\ UNCHANGED <<holder, receives, phase>>
  BY DEF FailToProcess, Unacked, Busy, sqsVars
<1>2. \/ phase[k] = "closed" /\ faults' = faults
      \/ ~Accepts(Head(todo[k])) /\ faults' = faults
      \/ faults' = faults + 1
  BY DEF FailToProcess
<1>3. Types
  BY DEF ConsumerInv
<1>4. /\ In(todo'[k]) \subseteq In(todo[k])
      /\ In(todo[k]) \ In(todo'[k]) = {Head(todo[k])}
      /\ wpc'[k] = "poll" => phase[k] = "up"
      /\ \A j \in Workers \ {k} : wpc'[j] = wpc[j] /\ todo'[j] = todo[j]
  BY <1>1, <1>3, NextMessageForgets
<1>5. /\ Owing(m)' \subseteq Owing(m)
      /\ ~Has(k, m) \/ m \in In(todo'[k]) => (Handled(m) => Handled(m)')
      /\ m \notin In(todo'[k]) => k \notin Owing(m)'
  BY <1>1, <1>4, Forgets
<1>6. CASE faults' = faults + 1
  BY <1>1, <1>5, <1>6, PaidKept
<1>7. CASE faults' = faults /\ (~Has(k, m) \/ m \in In(todo'[k]))
  <2>1. faults' >= faults
    BY <1>7 DEF FaultTypes
  <2> QED BY <1>1, <1>5, <1>7, <2>1, PaidKept
<1>8. CASE faults' = faults /\ Has(k, m) /\ m \notin In(todo'[k])
  <2>1. m = Head(todo[k])
    BY <1>4, <1>8 DEF Has
  <2>2. CASE ~Accepts(Head(todo[k]))
    BY <2>1, <2>2 DEF Excused
  <2>3. CASE phase[k] = "closed"
    <3>1. k \in Owing(m)
      BY <1>8, <2>3 DEF Owing, Interrupted
    <3>2. Owing(m)' \subseteq Owing(m) \ {k}
      BY <1>5, <1>8
    <3> QED BY <1>1, <1>8, <3>1, <3>2, PaidKept
  <2>4. faults \in Nat
    BY DEF FaultTypes
  <2> QED BY <1>2, <1>8, <2>2, <2>3, <2>4
<1> QED BY <1>2, <1>6, <1>7, <1>8

LEMMA PaidStaleAck ==
  ASSUME ConsumerInv, FaultTypes, FaultTypes', NEW k \in Workers, StaleAck(k),
         NEW m \in Messages, Paid(m)
  PROVE  Paid(m)'
<1>1. /\ (wpc[k] \in Busy /\ NextMessage(k)) \/ EndRun(k)
      /\ holder[Head(todo[k])] # k
      /\ UNCHANGED <<holder, receives, phase, faults>>
  BY DEF StaleAck, Busy, sqsVars
<1>2. Types
  BY DEF ConsumerInv
<1>3. faults' >= faults /\ faults' = faults
  BY <1>1 DEF FaultTypes
<1>4. Head(todo[k]) \in In(todo[k])
  <2>1. todo[k] \in Seq(Messages) /\ todo[k] # <<>> /\ NoTwice(todo[k])
    BY <1>2 DEF Types, FaultTypes, StaleAck, Busy
  <2> QED BY <2>1, NoTwiceTail
<1>5. /\ In(todo'[k]) \subseteq In(todo[k])
      /\ wpc'[k] = "poll" => phase[k] = "up"
      /\ \A j \in Workers \ {k} : wpc'[j] = wpc[j] /\ todo'[j] = todo[j]
  <2>1. wpc[k] \in Busy
    BY DEF StaleAck, Busy
  <2> QED BY <1>1, <1>2, <2>1, NextMessageForgets, EndRunForgets
<1>6. /\ Owing(m)' \subseteq Owing(m)
      /\ ~Has(k, m) \/ m \in In(todo'[k]) => (Handled(m) => Handled(m)')
      /\ m \notin In(todo'[k]) => k \notin Owing(m)'
  BY <1>1, <1>5, Forgets
<1>7. CASE ~Has(k, m) \/ m \in In(todo'[k])
  BY <1>1, <1>3, <1>6, <1>7, PaidKept
<1>8. CASE Has(k, m) /\ m \notin In(todo'[k])
  <2>1. Interrupted(k)
    BY <1>1, <1>4 DEF Interrupted
  <2>2. k \in Owing(m) /\ Owing(m)' \subseteq Owing(m) \ {k}
    BY <1>6, <1>8, <2>1 DEF Owing
  <2> QED BY <1>1, <1>3, <2>2, PaidKept
<1> QED BY <1>7, <1>8

LEMMA PaidFailToAck ==
  ASSUME ConsumerInv, FaultTypes, FaultTypes', NEW k \in Workers, FailToAck(k),
         NEW m \in Messages, Paid(m)
  PROVE  Paid(m)'
<1>1. EndRun(k) /\ UNCHANGED <<holder, receives, phase>> /\ faults' = faults + 1
  BY DEF FailToAck, sqsVars
<1>2. In(todo'[k]) \subseteq In(todo[k])
      /\ (wpc'[k] = "poll" => phase[k] = "up")
      /\ \A j \in Workers \ {k} : wpc'[j] = wpc[j] /\ todo'[j] = todo[j]
  BY <1>1, EndRunForgets DEF ConsumerInv
<1>3. Owing(m)' \subseteq Owing(m)
  BY <1>1, <1>2, Forgets
<1> QED BY <1>1, <1>3, PaidKept


LEMMA PaidAck ==
  ASSUME ConsumerInv, FaultTypes, FaultTypes', NEW k \in Workers, Ack(k),
         NEW m \in Messages, Paid(m)
  PROVE  Excused(m) \/ Paid(m)'
<1> DEFINE n == Head(todo[k])
<1>1. /\ wpc[k] = "ack" /\ wpc[k] \in Busy /\ NextMessage(k) /\ holder[n] = k
      /\ holder' = [holder EXCEPT ![n] = None]
      /\ UNCHANGED <<receives, phase, faults>>
  BY DEF Ack, Busy
<1>2. Types /\ n \in Messages
  BY <1>1 DEF ConsumerInv, Types
<1>3. /\ In(todo'[k]) \subseteq In(todo[k])
      /\ In(todo[k]) \ In(todo'[k]) = {n} /\ n \in In(todo[k])
      /\ wpc'[k] = "poll" => phase[k] = "up"
      /\ \A j \in Workers \ {k} : wpc'[j] = wpc[j] /\ todo'[j] = todo[j]
  BY <1>1, <1>2, NextMessageForgets
<1>4. CASE m = n
  BY <1>1, <1>4 DEF Excused, ConsumerInv, AckersSettled, Settled
<1>5. CASE m # n
  <2>1. holder'[n] = None /\ \A h \in Messages \ {n} : holder'[h] = holder[h]
    BY <1>1, <1>2 DEF FaultTypes
  <2>2. \A j \in Workers : In(todo[j]) \subseteq Messages /\ In(todo'[j]) \subseteq Messages
    <3>1. \A j \in Workers : In(todo[j]) \subseteq Messages
      BY <1>2 DEF Types, In
    <3> QED BY <1>3, <3>1
  <2>3. \A j \in Workers : (Has(j, m) <=> holder'[m] = j /\ m \in In(todo'[j]))
    BY <1>3, <1>5, <2>1 DEF Has
  <2>4. ASSUME NEW j \in Workers, NEW h \in In(todo'[j]), holder'[h] # j
        PROVE  \E i \in In(todo[j]) : holder[i] # j
    <3>1. h \in Messages /\ h \in In(todo[j])
      BY <1>3, <2>2
    <3>2. CASE j = k
      BY <1>3, <2>1, <2>4, <3>1, <3>2
    <3>3. CASE j # k
      BY <1>1, <2>1, <2>4, <3>1, <3>3
    <3> QED BY <3>2, <3>3
  <2>5. Owing(m)' \subseteq Owing(m)
    <3> SUFFICES ASSUME NEW j \in Workers, j \in Owing(m)' PROVE j \in Owing(m)
      BY DEF Owing
    <3>1. \/ wpc'[j] = "poll" /\ phase[j] # "up"
          \/ /\ holder'[m] = j /\ m \in In(todo'[j])
             /\ phase[j] # "up" \/ \E h \in In(todo'[j]) : holder'[h] # j
      BY <1>1 DEF Owing, Has, Interrupted, In
    <3>2. wpc'[j] = "poll" /\ phase[j] # "up" => wpc[j] = "poll"
      BY <1>3
    <3> QED BY <2>3, <2>4, <3>1, <3>2 DEF Owing, Interrupted
  <2>6. Handled(m) => Handled(m)'
    BY <2>3 DEF Handled, Has, In
  <2>7. faults' >= faults
    BY <1>1 DEF FaultTypes
  <2> QED BY <1>1, <2>5, <2>6, <2>7, PaidKept
<1> QED BY <1>4, <1>5

LEMMA PaidExpire ==
  ASSUME Types, FaultTypes, FaultTypes', NEW n \in Messages, Expire(n),
         NEW m \in Messages, Paid(m)
  PROVE  Paid(m)'
<1> DEFINE k == holder[n]
<1>1. /\ holder' = [holder EXCEPT ![n] = None] /\ k # None /\ k \in Workers
      /\ UNCHANGED <<receives, phase, todo, wpc>>
      /\ IF Handled(n) THEN faults' = faults + 1 ELSE faults' = faults
  BY DEF Expire, runVars, FaultTypes
<1>2. holder'[n] = None /\ \A h \in Messages \ {n} : holder'[h] = holder[h]
  BY <1>1 DEF FaultTypes
<1>3. \A j \in Workers : In(todo[j]) \subseteq Messages
  BY DEF Types, In
<1>4. Handled(n) <=> n \in In(todo[k])
  BY <1>1 DEF Handled
<1>5. \A j \in Workers : j \in Owing(m)' =>
        \/ wpc[j] = "poll" /\ phase[j] # "up"
        \/ /\ holder'[m] = j /\ m \in In(todo[j])
           /\ phase[j] # "up" \/ \E h \in In(todo[j]) : holder'[h] # j
  BY <1>1 DEF Owing, Has, Interrupted, In
<1>6. CASE m = n
  <2>1. Owing(m)' \subseteq Owing(m)
    BY <1>2, <1>5, <1>6, MessagesAssumption DEF Owing
  <2>2. faults' = faults + 1 \/ (faults' >= faults /\ ~Handled(m))
    BY <1>1, <1>6 DEF FaultTypes
  <2> QED BY <1>1, <2>1, <2>2, PaidKept
<1>7. CASE m # n
  <2>1. holder'[m] = holder[m]
    BY <1>2, <1>7
  <2>2. Handled(m) => Handled(m)'
    BY <1>1, <2>1 DEF Handled, In
  <2>3. ASSUME NEW j \in Workers, NEW h \in In(todo[j]), holder'[h] # j, j # k \/ h # n
        PROVE  holder[h] # j
    BY <1>2, <1>3, <2>3
  <2>4. \A j \in Workers : j \in Owing(m)' /\ j # k => j \in Owing(m)
    BY <1>5, <2>1, <2>3 DEF Owing, Has, Interrupted
  <2>5. CASE Handled(n)
    <3>1. Owing(m)' \subseteq Owing(m) \cup {k}
      BY <2>4 DEF Owing
    <3> QED BY <1>1, <2>2, <2>5, <3>1, PaidKept
  <2>6. CASE ~Handled(n)
    <3>1. \A h \in In(todo[k]) : h # n
      BY <1>4, <2>6
    <3>2. k \in Owing(m)' => k \in Owing(m)
      BY <1>1, <1>5, <2>1, <2>3, <3>1 DEF Owing, Has, Interrupted
    <3>3. Owing(m)' \subseteq Owing(m)
      BY <2>4, <3>2 DEF Owing
    <3>4. faults' >= faults
      BY <1>1, <2>6 DEF FaultTypes
    <3> QED BY <1>1, <2>2, <3>3, <3>4, PaidKept
  <2> QED BY <2>5, <2>6
<1> QED BY <1>6, <1>7

LEMMA PaidReceive ==
  ASSUME Types, FaultTypes, FaultTypes', NEW k \in Workers, Receive(k),
         NEW m \in Messages, Paid(m)
  PROVE  Paid(m)'
<1>1. PICK s \in Deliveries :
        /\ todo' = [todo EXCEPT ![k] = s]
        /\ holder' = [h \in Messages |-> IF h \in In(s) THEN k ELSE holder[h]]
        /\ receives' = [h \in Messages |->
                          IF h \in In(s) THEN receives[h] + 1 ELSE receives[h]]
  BY DEF Receive
<1>2. /\ wpc[k] = "poll" /\ wpc' = [wpc EXCEPT ![k] = "find"]
      /\ UNCHANGED <<phase, faults>>
  BY DEF Receive
<1>3. \A h \in In(s) : h \in Messages /\ holder[h] = None
  BY DeliveryDistinct
<1>4. /\ todo'[k] = s /\ wpc'[k] = "find"
      /\ \A j \in Workers \ {k} : todo'[j] = todo[j] /\ wpc'[j] = wpc[j]
  BY <1>1, <1>2 DEF Types
<1>5. \A h \in Messages : holder'[h] = IF h \in In(s) THEN k ELSE holder[h]
  BY <1>1
<1>6. \A j \in Workers : In(todo[j]) \subseteq Messages
  BY DEF Types, In
<1>7. todo[k] = <<>>
  BY <1>2 DEF FaultTypes, Busy
<1>8. \A j \in Workers : j \in Owing(m)' =>
        \/ wpc'[j] = "poll" /\ phase[j] # "up"
        \/ /\ holder'[m] = j /\ m \in In(todo'[j])
           /\ phase[j] # "up" \/ \E h \in In(todo'[j]) : holder'[h] # j
  BY <1>2 DEF Owing, Has, Interrupted, In
<1>9. Owing(m)' \subseteq Owing(m)
  <2> SUFFICES ASSUME NEW j \in Workers, j \in Owing(m)' PROVE j \in Owing(m)
    BY DEF Owing
  <2>1. CASE j = k
    <3>1. \A h \in In(todo'[k]) : holder'[h] = k
      BY <1>3, <1>4, <1>5
    <3>2. phase[k] # "up"
      BY <1>4, <1>8, <2>1, <3>1
    <3> QED BY <1>2, <2>1, <3>2 DEF Owing
  <2>2. CASE j # k
    <3>1. \A h \in In(todo[j]) : holder'[h] # j => holder[h] # j
      BY <1>3, <1>5, <1>6, MessagesAssumption
    <3>2. holder'[m] = j => holder[m] = j
      BY <1>5, <2>2
    <3> QED BY <1>4, <1>8, <2>2, <3>1, <3>2 DEF Owing, Has, Interrupted
  <2> QED BY <2>1, <2>2
<1>10. CASE m \in In(s)
  <2>1. receives'[m] = receives[m] + 1
    BY <1>1, <1>10
  <2>2. ~Handled(m)
    BY <1>3, <1>10, MessagesAssumption DEF Handled
  <2>3. Handled(m)'
    BY <1>4, <1>5, <1>10 DEF Handled, In
  <2>4. Current(m) = 0 /\ Current(m)' = 1
    BY <2>2, <2>3 DEF Current
  <2> DEFINE c == Cardinality(Owing(m))
             d == Cardinality(Owing(m)')
  <2>5. IsFiniteSet(Owing(m)) /\ c \in Nat
    BY OwingFinite
  <2>6. d \in Nat /\ d <= c
    <3>1. IsFiniteSet(Owing(m)') /\ d <= c
      BY <1>9, <2>5, FS_Subset
    <3> QED BY <3>1, FS_CardinalityType
  <2>7. receives[m] \in Nat /\ faults \in Nat
    BY DEF FaultTypes
  <2>8. receives[m] + c <= faults
    BY <2>4, <2>7 DEF Paid
  <2>9. SUFFICES receives'[m] + d <= faults' + 1
    BY <2>4 DEF Paid
  <2> HIDE DEF c, d
  <2> QED BY <1>2, <2>1, <2>5, <2>6, <2>7, <2>8
<1>11. CASE m \notin In(s)
  <2>1. receives'[m] = receives[m]
    BY <1>1, <1>11
  <2>2. holder'[m] = holder[m] /\ m \notin In(todo[k])
    BY <1>5, <1>7, <1>11 DEF In
  <2>3. Handled(m) => Handled(m)'
    BY <1>4, <2>2 DEF Handled, In
  <2>4. faults' >= faults
    BY <1>2 DEF FaultTypes
  <2> QED BY <1>9, <2>1, <2>3, <2>4, PaidKept
<1> QED BY <1>10, <1>11


\* A process is gone: what it had it loses, and pays for if it was told to end.
LEMMA PaidReplace ==
  ASSUME Types, FaultTypes, FaultTypes', NEW k \in Workers, Crash(k) \/ Exit(k),
         NEW m \in Messages, Paid(m)
  PROVE  Paid(m)'
<1>1. /\ phase' = [phase EXCEPT ![k] = "up"] /\ UNCHANGED <<holder, receives>>
      /\ todo' = [todo EXCEPT ![k] = <<>>] /\ wpc' = [wpc EXCEPT ![k] = "poll"]
  BY DEF Crash, Exit, Replace, sqsVars
<1>2. /\ phase'[k] = "up" /\ todo'[k] = <<>>
      /\ \A j \in Workers \ {k} :
           todo'[j] = todo[j] /\ wpc'[j] = wpc[j] /\ phase'[j] = phase[j]
  BY <1>1 DEF Types, FaultTypes
<1>3. \A j \in Workers : j \in Owing(m)' =>
        \/ wpc'[j] = "poll" /\ phase'[j] # "up"
        \/ /\ holder[m] = j /\ m \in In(todo'[j])
           /\ phase'[j] # "up" \/ \E h \in In(todo'[j]) : holder[h] # j
  BY <1>1 DEF Owing, Has, Interrupted, In
<1>4. In(todo'[k]) = {}
  BY <1>2 DEF In
<1>5. k \notin Owing(m)'
  BY <1>2, <1>3, <1>4
<1>6. Owing(m)' \subseteq Owing(m)
  <2> SUFFICES ASSUME NEW j \in Workers, j \in Owing(m)' PROVE j \in Owing(m)
    BY DEF Owing
  <2>1. j # k
    BY <1>5
  <2> QED BY <1>2, <1>3, <2>1 DEF Owing, Has, Interrupted
<1>7. CASE Crash(k)
  <2>1. faults' = faults + 1
    BY <1>7 DEF Crash
  <2> QED BY <1>1, <1>6, <2>1, PaidKept
<1>8. CASE Exit(k)
  <2>1. phase[k] = "closed" /\ faults' = faults /\ faults' >= faults
    BY <1>8 DEF Exit, FaultTypes
  <2>2. CASE Has(k, m)
    <3>1. k \in Owing(m)
      BY <2>1, <2>2 DEF Owing, Interrupted
    <3>2. Owing(m)' \subseteq Owing(m) \ {k}
      BY <1>5, <1>6
    <3> QED BY <1>1, <2>1, <3>1, <3>2, PaidKept
  <2>3. CASE ~Has(k, m)
    <3>1. Handled(m) => Handled(m)'
      BY <1>1, <1>2, <2>3 DEF Handled, Has, In
    <3> QED BY <1>1, <1>6, <2>1, <3>1, PaidKept
  <2> QED BY <2>2, <2>3
<1> QED BY <1>7, <1>8

LEMMA PaidShutdown ==
  ASSUME FaultTypes, FaultTypes', NEW k \in Workers,
         StopLoop(k) \/ CloseConnections(k), NEW m \in Messages, Paid(m)
  PROVE  Paid(m)'
<1>1. UNCHANGED <<holder, receives, todo, wpc>>
  BY DEF StopLoop, CloseConnections, sqsVars, runVars
<1>2. Handled(m) => Handled(m)'
  BY <1>1 DEF Handled, In
<1>3. \A j \in Workers : j \in Owing(m)' =>
        \/ wpc[j] = "poll" /\ phase'[j] # "up"
        \/ Has(j, m) /\ (phase'[j] # "up" \/ \E h \in In(todo[j]) : holder[h] # j)
  BY <1>1 DEF Owing, Has, Interrupted, In
<1>4. CASE StopLoop(k)
  <2>1. faults' = faults + 1 /\ \A j \in Workers \ {k} : phase'[j] = phase[j]
    BY <1>4 DEF StopLoop, FaultTypes
  <2>2. Owing(m)' \subseteq Owing(m) \cup {k}
    <3> SUFFICES ASSUME NEW j \in Workers, j \in Owing(m)', j # k PROVE j \in Owing(m)
      BY DEF Owing
    <3> QED BY <1>3, <2>1 DEF Owing, Interrupted
  <2> QED BY <1>1, <1>2, <2>1, <2>2, PaidKept
<1>5. CASE CloseConnections(k)
  <2>1. faults' >= faults /\ \A j \in Workers : phase'[j] # "up" => phase[j] # "up"
    BY <1>5 DEF CloseConnections, FaultTypes
  <2>2. Owing(m)' \subseteq Owing(m)
    <3> SUFFICES ASSUME NEW j \in Workers, j \in Owing(m)' PROVE j \in Owing(m)
      BY DEF Owing
    <3> QED BY <1>3, <2>1 DEF Owing, Interrupted
  <2> QED BY <1>1, <1>2, <2>1, <2>2, PaidKept
<1> QED BY <1>4, <1>5

LEMMA PaidStep ==
  ASSUME ConsumerInv, FaultTypes, FaultTypes', [Next]_vars,
         NEW m \in Messages, Paid(m)
  PROVE  Excused(m)' \/ Paid(m)'
<1> USE DEF ConsumerInv
<1>1. Excused(m) => Excused(m)'
  BY ExcusedStays
<1>2. ASSUME NEW k \in Workers, PollInVain(k) PROVE Paid(m)'
  BY <1>2, PaidAside DEF PollInVain, sqsVars, Types
<1>3. ASSUME NEW k \in Workers, NEW where \in Busy, Goes(k, where),
             UNCHANGED <<holder, receives, phase, faults>>
      PROVE  Paid(m)'
  BY <1>3, PaidAside DEF Goes, Types, Busy
<1>4. ASSUME NEW k \in Workers, FindInbox(k) PROVE Paid(m)'
  <2> DEFINE where == CASE inbox[Head(todo[k])] = "processed" -> "ack"
                        [] inbox[Head(todo[k])] = "received"  -> "submit"
                        [] OTHER                              -> "claim"
  <2>1. where \in Busy
    BY DEF Busy
  <2>2. Goes(k, where)
    BY <1>4 DEF FindInbox, Goes
  <2> HIDE DEF where
  <2> QED BY <1>3, <1>4, <2>1, <2>2 DEF FindInbox, sqsVars
<1>5. ASSUME NEW k \in Workers, Claim(k) PROVE Paid(m)'
  <2>1. Goes(k, "submit") /\ "submit" \in Busy
    BY <1>5 DEF Claim, Goes, Busy
  <2> QED BY <1>3, <1>5, <2>1 DEF Claim, sqsVars
<1>6. ASSUME NEW k \in Workers, Process(k) PROVE Paid(m)'
  <2>1. Goes(k, "ack") /\ "ack" \in Busy
    BY <1>6 DEF Process, Goes, Busy
  <2> QED BY <1>3, <1>6, <2>1 DEF Process, sqsVars
<1>7. ASSUME NEW k \in Workers, WorkerStep(k) PROVE Excused(m)' \/ Paid(m)'
  BY <1>1, <1>2, <1>4, <1>5, <1>6, <1>7, PaidReceive, PaidClaimConflict,
     PaidFailToProcess, PaidAck, PaidStaleAck, PaidFailToAck DEF WorkerStep
<1>8. ASSUME NEW n \in Messages, Arrive(n) \/ Redrive(n) PROVE Paid(m)'
  BY <1>8, PaidAside DEF Arrive, Redrive, runVars
<1>9. ASSUME NEW n \in Messages, Expire(n) PROVE Paid(m)'
  BY <1>9, PaidExpire
<1>10. ASSUME NEW k \in Workers, Crash(k) \/ StopLoop(k) \/ Ends(k) PROVE Paid(m)'
  BY <1>10, PaidReplace, PaidShutdown DEF Ends
<1>11. ASSUME NEW a \in ApiCommands, ApiSubmit(a[1], a[2]) PROVE Paid(m)'
  BY <1>11, PaidAside DEF ApiSubmit, sqsVars, runVars
<1>12. CASE UNCHANGED vars
  BY <1>12, PaidAside DEF vars, sqsVars, runVars
<1> QED BY <1>7, <1>8, <1>9, <1>10, <1>11, <1>12 DEF Next, SqsStep

-----------------------------------------------------------------------------
(* Dead for a reason                                                       *)

DeathInv ==
  /\ ConsumerInv /\ FaultTypes /\ DebtInv
  /\ dead \subseteq Messages /\ DeadForAReason

LEMMA InitDeath == Init => DeathInv
<1> SUFFICES ASSUME Init PROVE DeathInv
  OBVIOUS
<1>1. ConsumerInv /\ FaultTypes
  BY InitConsumer, InitFaultTypes
<1>2. ASSUME NEW m \in Messages PROVE Paid(m)
  <2>1. Owing(m) = {}
    BY MessagesAssumption DEF Init, Owing, Has
  <2>2. Cardinality(Owing(m)) = 0
    BY <2>1, FS_EmptySet
  <2>3. Current(m) \in {0, 1} /\ receives[m] = 0 /\ faults = 0
    BY DEF Init, Current
  <2> QED BY <2>2, <2>3 DEF Paid
<1>3. dead = {}
  BY DEF Init
<1> QED BY <1>1, <1>2, <1>3 DEF DeathInv, DebtInv, DeadForAReason

LEMMA FaultsGrow ==
  ASSUME [Next]_vars, faults \in Nat
  PROVE  faults' \in Nat /\ faults' >= faults
<1>1. faults' = faults \/ faults' = faults + 1
  BY DEF Next, Arrive, SqsStep, Expire, Redrive, WorkerStep, PollInVain, Receive,
     FindInbox, Claim, ClaimConflict, Process, FailToProcess, Ack, StaleAck,
     FailToAck, Crash, StopLoop, Ends, CloseConnections, Exit, ApiSubmit, vars
<1> QED BY <1>1

LEMMA DeathNext == DeathInv /\ [Next]_vars => DeathInv'
<1> SUFFICES ASSUME DeathInv, [Next]_vars PROVE DeathInv'
  OBVIOUS
<1> USE DEF DeathInv
<1>1. ConsumerInv' /\ FaultTypes'
  BY ConsumerInvInductive, FaultTypesNext DEF ConsumerInv
<1>2. ASSUME NEW m \in Messages PROVE Excused(m)' \/ Paid(m)'
  BY <1>1, ExcusedStays, PaidStep DEF DebtInv
<1>3. faults \in Nat /\ faults' \in Nat /\ MaxReceives \in Nat /\ faults' >= faults
  BY <1>1, FaultsGrow, MessagesAssumption DEF FaultTypes
<1>4. ASSUME NEW m \in Messages, m \in dead' \ dead PROVE Excused(m) \/ faults >= MaxReceives
  <2>1. Redrive(m)
    BY <1>4 DEF Next, Arrive, SqsStep, Expire, Redrive, WorkerStep, PollInVain,
       Receive, FindInbox, Claim, ClaimConflict, Process, FailToProcess, Ack,
       StaleAck, FailToAck, Crash, StopLoop, Ends, CloseConnections, Exit, Replace,
       ApiSubmit, vars, sqsVars
  <2>2. receives[m] = MaxReceives /\ holder[m] = None
    BY <2>1 DEF Redrive, Queued, Free
  <2>3. Current(m) = 0
    BY <2>2, MessagesAssumption DEF Current, Handled
  <2>4. Cardinality(Owing(m)) \in Nat
    BY OwingFinite
  <2>5. Paid(m) => faults >= MaxReceives
    BY <1>3, <2>2, <2>3, <2>4 DEF Paid
  <2> QED BY <2>5 DEF DebtInv
<1>5. dead' \subseteq Messages
  BY DEF Next, Arrive, SqsStep, Expire, Redrive, WorkerStep, PollInVain,
     Receive, FindInbox, Claim, ClaimConflict, Process, FailToProcess, Ack,
     StaleAck, FailToAck, Crash, StopLoop, Ends, CloseConnections, Exit, Replace,
     ApiSubmit, vars, sqsVars
<1>6. ASSUME NEW m \in dead' PROVE Excused(m)' \/ faults' >= MaxReceives
  <2>1. m \in Messages
    BY <1>5
  <2>2. Excused(m) \/ faults >= MaxReceives
    BY <1>4, <2>1 DEF DeadForAReason, Excused
  <2>3. Excused(m) => Excused(m)'
    BY <2>1, ExcusedStays
  <2> QED BY <1>3, <2>2, <2>3
<1>7. DeadForAReason'
  BY <1>6 DEF DeadForAReason, Excused, Accepts
<1> QED BY <1>1, <1>2, <1>5, <1>7 DEF DebtInv

\* A message dies unprocessed only if its command can never succeed or if there
\* have been at least as many faults as it has deliveries: no fault, of its
\* batch or of its process, takes a message more than one (run() goes on after
\* a failed message, the loop stops with its process).
THEOREM NoDeathWithoutReason == Spec => []DeadForAReason
<1>1. DeathInv => DeadForAReason
  BY DEF DeathInv
<1> QED BY <1>1, InitDeath, DeathNext, PTL DEF Spec


-----------------------------------------------------------------------------
(* What is ahead of what in a sequence                                     *)

LEMMA AheadIn ==
  ASSUME NEW s, NEW x, NEW y, Ahead(s, x, y)
  PROVE  x \in In(s) /\ y \in In(s)
BY DEF Ahead, In

LEMMA AheadTail ==
  ASSUME NEW s \in Seq(Messages), s # <<>>, NoTwice(s), NEW x, NEW y
  PROVE  /\ Ahead(Tail(s), x, y) => Ahead(s, x, y)
         /\ Ahead(s, x, y) /\ x # Head(s) => Ahead(Tail(s), x, y)
         /\ ~Ahead(s, x, Head(s))
<1> DEFINE n == Len(s)
           u == Tail(s)
<1>1. n \in Nat /\ n >= 1 /\ Len(u) = n - 1 /\ Head(s) = s[1]
      /\ \A i \in 1 .. n - 1 : u[i] = s[i + 1]
  OBVIOUS
<1>2. \A i, j \in 1 .. n : i # j => s[i] # s[j]
  BY DEF NoTwice
<1>3. /\ Ahead(s, x, y) <=> \E i, j \in 1 .. n : i < j /\ s[i] = x /\ s[j] = y
      /\ Ahead(u, x, y) <=> \E i, j \in 1 .. n - 1 : i < j /\ u[i] = x /\ u[j] = y
      /\ Ahead(s, x, Head(s)) <=> \E i, j \in 1 .. n : i < j /\ s[i] = x /\ s[j] = s[1]
  BY <1>1 DEF Ahead
<1> HIDE DEF n, u
<1>4. \A i \in 1 .. n - 1 : i + 1 \in 1 .. n
  BY <1>1
<1>5. ASSUME Ahead(u, x, y) PROVE Ahead(s, x, y)
  <2>1. PICK i \in 1 .. n - 1, j \in 1 .. n - 1 : i < j /\ u[i] = x /\ u[j] = y
    BY <1>3, <1>5
  <2>2. i + 1 \in 1 .. n /\ j + 1 \in 1 .. n /\ i + 1 < j + 1
        /\ s[i + 1] = x /\ s[j + 1] = y
    BY <1>1, <1>4, <2>1
  <2> QED BY <1>3, <2>2
<1>6. ASSUME Ahead(s, x, y), x # Head(s) PROVE Ahead(u, x, y)
  <2>1. PICK i \in 1 .. n, j \in 1 .. n : i < j /\ s[i] = x /\ s[j] = y
    BY <1>3, <1>6
  <2>2. i # 1
    BY <1>1, <1>6, <2>1
  <2>3. i - 1 \in 1 .. n - 1 /\ j - 1 \in 1 .. n - 1 /\ i - 1 < j - 1
        /\ (i - 1) + 1 = i /\ (j - 1) + 1 = j
    BY <1>1, <2>1, <2>2
  <2>4. u[i - 1] = x /\ u[j - 1] = y
    BY <1>1, <2>1, <2>3
  <2> QED BY <1>3, <2>3, <2>4
<1>7. ~Ahead(s, x, Head(s))
  <2> SUFFICES ASSUME NEW i \in 1 .. n, NEW j \in 1 .. n, i < j, s[j] = s[1]
               PROVE  FALSE
    BY <1>3
  <2>1. 1 \in 1 .. n /\ j # 1
    BY <1>1
  <2> QED BY <1>2, <2>1
<1> QED BY <1>5, <1>6, <1>7 DEF u

LEMMA AheadRemove ==
  ASSUME NEW s \in Seq(Messages), NoTwice(s), NEW p \in 1 .. Len(s)
  PROVE  /\ \A x, y : Ahead(RemovePlace(s, p), x, y) => Ahead(s, x, y)
         /\ In(RemovePlace(s, p)) = In(s) \ {s[p]}
<1> DEFINE n == Len(s)
           u == RemovePlace(s, p)
           from(i) == IF i < p THEN i ELSE i + 1
<1>1. n \in Nat /\ p \in 1 .. n
  OBVIOUS
<1>2. \A i, j \in 1 .. n : i # j => s[i] # s[j]
  BY DEF NoTwice
<1>3. u = [i \in 1 .. n - 1 |-> IF i < p THEN s[i] ELSE s[i + 1]] /\ Len(u) = n - 1
  <2>1. u = [i \in 1 .. n - 1 |-> IF i < p THEN s[i] ELSE s[i + 1]]
    BY DEF RemovePlace
  <2>2. n - 1 \in Nat /\ DOMAIN u = 1 .. n - 1
    BY <1>1, <2>1
  <2>3. u \in Seq(Messages)
    BY NoTwiceRemove
  <2> HIDE DEF u, n
  <2> QED BY <2>1, <2>2, <2>3
<1>4. In(s) = {s[i] : i \in 1 .. n} /\ In(u) = {u[i] : i \in 1 .. n - 1}
  BY <1>3 DEF In
<1> HIDE DEF n, u
<1>5. \A i \in 1 .. n - 1 : /\ from(i) \in 1 .. n /\ from(i) # p
                            /\ u[i] = s[from(i)]
  BY <1>1, <1>3
<1>6. \A i, j \in 1 .. n - 1 : i < j => from(i) < from(j)
  BY <1>1
<1>7. \A i \in 1 .. n : i # p => \E j \in 1 .. n - 1 : from(j) = i
  <2> SUFFICES ASSUME NEW i \in 1 .. n, i # p PROVE \E j \in 1 .. n - 1 : from(j) = i
    OBVIOUS
  <2>1. CASE i < p
    <3>1. i \in 1 .. n - 1 /\ from(i) = i
      BY <1>1, <2>1
    <3> QED BY <3>1
  <2>2. CASE ~(i < p)
    <3>1. i - 1 \in 1 .. n - 1 /\ from(i - 1) = i
      BY <1>1, <2>2
    <3> QED BY <3>1
  <2> QED BY <2>1, <2>2
<1> HIDE DEF from
<1>8. ASSUME NEW x, NEW y, Ahead(u, x, y) PROVE Ahead(s, x, y)
  <2>1. PICK i \in 1 .. n - 1, j \in 1 .. n - 1 : i < j /\ u[i] = x /\ u[j] = y
    BY <1>3, <1>8 DEF Ahead
  <2>2. /\ from(i) \in 1 .. n /\ from(j) \in 1 .. n /\ from(i) < from(j)
        /\ s[from(i)] = x /\ s[from(j)] = y
    BY <1>5, <1>6, <2>1
  <2> QED BY <2>2 DEF Ahead, n
<1>9. In(u) = In(s) \ {s[p]}
  <2>1. ASSUME NEW m \in In(u) PROVE m \in In(s) \ {s[p]}
    <3>1. PICK i \in 1 .. n - 1 : m = u[i]
      BY <1>4
    <3> QED BY <1>1, <1>2, <1>4, <1>5, <3>1
  <2>2. ASSUME NEW m \in In(s) \ {s[p]} PROVE m \in In(u)
    <3>1. PICK i \in 1 .. n : m = s[i]
      BY <1>4
    <3>2. PICK j \in 1 .. n - 1 : from(j) = i
      BY <1>7, <2>2, <3>1
    <3> QED BY <1>4, <1>5, <3>1, <3>2
  <2> QED BY <2>1, <2>2
<1> QED BY <1>8, <1>9 DEF u

LEMMA AheadAppend ==
  ASSUME NEW s \in Seq(Messages), NEW m \in Messages
  PROVE  /\ \A x, y : Ahead(Append(s, m), x, y) => Ahead(s, x, y) \/ y = m
         /\ In(Append(s, m)) = In(s) \cup {m}
<1> DEFINE n == Len(s)
           u == Append(s, m)
<1>1. n \in Nat /\ Len(u) = n + 1 /\ u[n + 1] = m /\ \A i \in 1 .. n : u[i] = s[i]
  OBVIOUS
<1>2. In(s) = {s[i] : i \in 1 .. n} /\ In(u) = {u[i] : i \in 1 .. n + 1}
  BY <1>1 DEF In
<1> HIDE DEF n, u
<1>3. \A i \in 1 .. n + 1 : i \in 1 .. n \/ i = n + 1
  BY <1>1
<1>4. In(u) = In(s) \cup {m}
  BY <1>1, <1>2, <1>3
<1>5. ASSUME NEW x, NEW y, Ahead(u, x, y), y # m PROVE Ahead(s, x, y)
  <2>1. PICK i \in 1 .. n + 1, j \in 1 .. n + 1 : i < j /\ u[i] = x /\ u[j] = y
    BY <1>1, <1>5 DEF Ahead
  <2>2. j # n + 1
    BY <1>1, <1>5, <2>1
  <2>3. i \in 1 .. n /\ j \in 1 .. n
    BY <1>1, <2>1, <2>2
  <2> QED BY <1>1, <2>1, <2>3 DEF Ahead, n
<1> QED BY <1>4, <1>5 DEF u

\* A delivery takes each of its groups from the front: what is ahead of a
\* message in the queue is ahead of it in the delivery.
LEMMA DeliveryInLine ==
  ASSUME FaultTypes, NEW s \in Deliveries, NEW x, NEW y \in In(s),
         Ahead(queue[Group[y]], x, y)
  PROVE  Ahead(s, x, y)
<1> DEFINE n == Len(s)
           q == queue[Group[y]]
<1>1. /\ n \in Nat
      /\ \A i \in 1 .. n : /\ IsFiniteSet(SameBefore(s, i)) /\ Rank(s, i) \in Nat
                           /\ Rank(s, i) + 1 \in 1 .. Len(queue[Group[s[i]]])
                           /\ s[i] = queue[Group[s[i]]][Rank(s, i) + 1]
      /\ \A i, j \in 1 .. n : i < j /\ Group[s[i]] = Group[s[j]] => Rank(s, i) < Rank(s, j)
  BY DeliveryRanks
<1>2. PICK b \in 1 .. n : s[b] = y
  BY DEF In
<1> DEFINE S == SameBefore(s, b)
           r == Rank(s, b)
<1>3. q \in Seq(Messages) /\ NoTwice(q)
  <2>1. Group[s[b]] \in Groups
    BY <1>2, DeliveryRanks
  <2> QED BY <1>2, <2>1 DEF FaultTypes
<1>4. PICK i \in 1 .. Len(q), c \in 1 .. Len(q) : i < c /\ q[i] = x /\ q[c] = y
  BY DEF Ahead
<1>5. IsFiniteSet(S) /\ Cardinality(S) = r /\ r \in Nat
  BY <1>1 DEF Rank
<1>6. c = r + 1
  <2>1. r + 1 \in 1 .. Len(q) /\ q[r + 1] = y
    BY <1>1, <1>2
  <2> QED BY <1>3, <1>4, <2>1 DEF NoTwice
<1>7. i \in 1 .. r
  <2>1. i \in Nat /\ i >= 1 /\ i < c
    BY <1>4
  <2> HIDE DEF r
  <2> QED BY <1>5, <1>6, <2>1
<1> DEFINE place == [j \in S |-> Rank(s, j) + 1]
<1>8. \A j \in S : j \in 1 .. n /\ j < b /\ Group[s[j]] = Group[s[b]]
  BY <1>1, <1>2 DEF SameBefore
<1>9. place \in [S -> 1 .. r]
  <2> SUFFICES ASSUME NEW j \in S PROVE Rank(s, j) + 1 \in 1 .. r
    OBVIOUS
  <2>1. Rank(s, j) < r /\ Rank(s, j) \in Nat
    BY <1>1, <1>2, <1>8
  <2> HIDE DEF r
  <2> QED BY <1>5, <2>1
<1>10. \A j, k \in S : j # k => place[j] # place[k]
  <2> SUFFICES ASSUME NEW j \in S, NEW k \in S, j # k
               PROVE  Rank(s, j) + 1 # Rank(s, k) + 1
    OBVIOUS
  <2>1. j \in 1 .. n /\ k \in 1 .. n /\ Group[s[j]] = Group[s[k]] /\ (j < k \/ k < j)
    BY <1>1, <1>8
  <2>2. Rank(s, j) \in Nat /\ Rank(s, k) \in Nat /\ Rank(s, j) # Rank(s, k)
    BY <1>1, <2>1
  <2> QED BY <2>2
<1> HIDE DEF place, S, r
<1>11. place \in Surjection(S, 1 .. r)
  <2>1. place \in Injection(S, 1 .. r)
    BY <1>9, <1>10, Fun_IsInj
  <2>2. IsFiniteSet(1 .. r) /\ Cardinality(1 .. r) = r
    BY <1>5, FS_Interval
  <2> QED BY <1>5, <2>1, <2>2, FS_Injection
<1>12. PICK j \in S : place[j] = i
  <2>1. \A k \in 1 .. r : \E j \in S : place[j] = k
    BY <1>11, Fun_SurjectionProperties
  <2> QED BY <1>7, <2>1
<1>13. j \in 1 .. n /\ j < b /\ s[j] = q[i]
  <2>1. Rank(s, j) + 1 = i /\ j \in 1 .. n /\ j < b /\ Group[s[j]] = Group[y]
    BY <1>2, <1>8, <1>12 DEF place
  <2> QED BY <1>1, <2>1
<1> QED BY <1>2, <1>4, <1>13 DEF Ahead, n

-----------------------------------------------------------------------------
(* The order of a group                                                    *)

\* What has left the queue is not in it, and a group has its own messages.
QueueInv ==
  /\ \A m \in Messages : Queued(m) => m \notin acked \cup dead
  /\ \A g \in Groups : \A m \in In(queue[g]) : Group[m] = g

Tried(m) == receives[m] > 0

\* Only what arrived is delivered, only what was delivered has an effect, and
\* a group is delivered from its front.
TriedInv ==
  /\ \A m \in Messages : Tried(m) => Arrived(m)
  /\ \A m \in Messages : inbox[m] # None => Tried(m)
  /\ \A k \in Workers : \A m \in In(todo[k]) : Tried(m)
  /\ \A g \in Groups : \A x, y \in Messages :
       Ahead(queue[g], x, y) /\ Tried(y) => Tried(x)

\* While nothing has failed: what a worker has in its batch is in flight, with
\* what is ahead of it ahead of it there too, unless it is out of the way; and
\* what is processed has overtaken nothing else.
LineInv ==
  faults = 0 =>
    /\ \A k \in Workers : phase[k] = "up"
    /\ \A k \in Workers : \A m \in In(todo[k]) : holder[m] = k /\ Queued(m)
    /\ \A k \in Workers : \A g \in Groups : \A x, y \in Messages :
         Ahead(queue[g], x, y) /\ y \in In(todo[k]) => Excused(x) \/ Ahead(todo[k], x, y)
    /\ \A g \in Groups : \A x, y \in Messages :
         Ahead(queue[g], x, y) /\ inbox[y] = "processed" => Excused(x)

OrderInv == DeathInv /\ QueueInv /\ TriedInv /\ LineInv


-----------------------------------------------------------------------------
(* What the steps do to the queue                                          *)

\* m leaves its group, and the order of the others stays.
Taken(m) ==
  /\ Queued(m)
  /\ \A g \in Groups : /\ In(queue'[g]) = In(queue[g]) \ {m}
                       /\ \A x, y : Ahead(queue'[g], x, y) => Ahead(queue[g], x, y)

LEMMA RedriveTakes ==
  ASSUME FaultTypes, QueueInv, NEW m \in Messages, Redrive(m)
  PROVE  Taken(m) /\ dead' = dead \cup {m} /\ acked' = acked
<1> DEFINE q == queue[Group[m]]
<1>1. Group[m] \in Groups
  BY DEF Groups
<1>2. q \in Seq(Messages) /\ NoTwice(q) /\ q # <<>> /\ m = Head(q) /\ Queued(m)
  BY <1>1 DEF Redrive, Queued, In, FaultTypes
<1>3. /\ queue' = [queue EXCEPT ![Group[m]] = Tail(q)]
      /\ dead' = dead \cup {m} /\ acked' = acked
  BY DEF Redrive
<1>4. \A x, y : Ahead(Tail(q), x, y) => Ahead(q, x, y)
  BY <1>2, AheadTail
<1>5. In(Tail(q)) = In(q) \ {m}
  <2>1. Head(q) \notin In(Tail(q)) /\ In(q) = In(Tail(q)) \cup {Head(q)}
    BY <1>2, NoTwiceTail
  <2> QED BY <1>2, <2>1
<1>6. ASSUME NEW g \in Groups
      PROVE  /\ In(queue'[g]) = In(queue[g]) \ {m}
             /\ \A x, y : Ahead(queue'[g], x, y) => Ahead(queue[g], x, y)
  <2>1. CASE g = Group[m]
    BY <1>1, <1>3, <1>4, <1>5, <2>1 DEF FaultTypes
  <2>2. CASE g # Group[m]
    <3>1. queue'[g] = queue[g]
      BY <1>3, <2>2 DEF FaultTypes
    <3>2. m \notin In(queue[g])
      BY <2>2 DEF QueueInv
    <3> QED BY <3>1, <3>2
  <2> QED BY <2>1, <2>2
<1> QED BY <1>2, <1>3, <1>6 DEF Taken

LEMMA AckTakes ==
  ASSUME Types, FaultTypes, QueueInv, NEW k \in Workers, Ack(k)
  PROVE  /\ Head(todo[k]) \in Messages /\ Taken(Head(todo[k]))
         /\ acked' = acked \cup {Head(todo[k])} /\ dead' = dead
<1> DEFINE m == Head(todo[k])
           q == queue[Group[m]]
<1>1. m \in Messages /\ Group[m] \in Groups
  BY DEF Types, Groups, Ack, Busy
<1>2. q \in Seq(Messages) /\ NoTwice(q)
  BY <1>1 DEF FaultTypes
<1>3. PICK i \in 1 .. Len(q) :
        q[i] = m /\ queue' = [queue EXCEPT ![Group[m]] = RemovePlace(q, i)]
  BY DEF Ack
<1>4. acked' = acked \cup {m} /\ dead' = dead
  BY DEF Ack
<1>5. Queued(m)
  BY <1>3 DEF Queued, In
<1> HIDE DEF m
<1>6. /\ \A x, y : Ahead(RemovePlace(q, i), x, y) => Ahead(q, x, y)
      /\ In(RemovePlace(q, i)) = In(q) \ {m}
  BY <1>2, <1>3, AheadRemove
<1>7. ASSUME NEW g \in Groups
      PROVE  /\ In(queue'[g]) = In(queue[g]) \ {m}
             /\ \A x, y : Ahead(queue'[g], x, y) => Ahead(queue[g], x, y)
  <2>1. CASE g = Group[m]
    BY <1>1, <1>3, <1>6, <2>1 DEF FaultTypes
  <2>2. CASE g # Group[m]
    <3>1. queue'[g] = queue[g]
      BY <1>3, <2>2 DEF FaultTypes
    <3>2. m \notin In(queue[g])
      BY <1>1, <2>2 DEF QueueInv
    <3> QED BY <3>1, <3>2
  <2> QED BY <2>1, <2>2
<1>8. m \in Messages /\ Taken(m) /\ acked' = acked \cup {m} /\ dead' = dead
  BY <1>1, <1>4, <1>5, <1>7 DEF Taken
<1> QED BY <1>8 DEF m

LEMMA ArriveGives ==
  ASSUME FaultTypes, NEW m \in Messages, Arrive(m)
  PROVE  /\ ~Arrived(m) /\ UNCHANGED <<acked, dead>>
         /\ In(queue'[Group[m]]) = In(queue[Group[m]]) \cup {m}
         /\ \A g \in Groups : g # Group[m] => queue'[g] = queue[g]
         /\ \A g \in Groups : \A x, y :
              Ahead(queue'[g], x, y) => Ahead(queue[g], x, y) \/ y = m
<1> DEFINE q == queue[Group[m]]
<1>1. Group[m] \in Groups
  BY DEF Groups
<1>2. q \in Seq(Messages)
  BY <1>1 DEF FaultTypes
<1>3. /\ ~Arrived(m) /\ UNCHANGED <<acked, dead>>
      /\ queue' = [queue EXCEPT ![Group[m]] = Append(q, m)]
  BY DEF Arrive
<1>4. /\ \A x, y : Ahead(Append(q, m), x, y) => Ahead(q, x, y) \/ y = m
      /\ In(Append(q, m)) = In(q) \cup {m}
  BY <1>2, AheadAppend
<1>5. queue'[Group[m]] = Append(q, m) /\ \A g \in Groups : g # Group[m] => queue'[g] = queue[g]
  BY <1>1, <1>3 DEF FaultTypes
<1> QED BY <1>3, <1>4, <1>5

\* Whatever else a step does, these three are all that move the queue.
LEMMA QueueSteps ==
  ASSUME [Next]_vars
  PROVE  \/ UNCHANGED <<queue, acked, dead>>
         \/ \E m \in Messages : Arrive(m) \/ Redrive(m)
         \/ \E k \in Workers : Ack(k)
BY DEF Next, SqsStep, Expire, WorkerStep, PollInVain, Receive, FindInbox, Claim,
   ClaimConflict, Process, FailToProcess, StaleAck, FailToAck, Crash, StopLoop, Ends,
   CloseConnections, Exit, Replace, ApiSubmit, vars, sqsVars

\* No step brings a message back, or changes the order of two that were there.
LEMMA QueueMoves ==
  ASSUME Types, FaultTypes, QueueInv, [Next]_vars
  PROVE  /\ \A m \in Messages : m \in In(queue'[Group[m]]) =>
              m \notin acked' \cup dead' /\ (Queued(m) \/ ~Arrived(m))
         /\ \A g \in Groups : \A m \in In(queue'[g]) : Group[m] = g
         /\ \A m \in Messages : Arrived(m) =>
              m \in In(queue'[Group[m]]) \/ m \in acked' \cup dead'
         /\ \A g \in Groups : \A x, y :
              Ahead(queue'[g], x, y) => Ahead(queue[g], x, y) \/ (y \in Messages /\ ~Arrived(y))
<1>1. ASSUME NEW m \in Messages PROVE Group[m] \in Groups
  BY DEF Groups
<1>2. CASE UNCHANGED <<queue, acked, dead>>
  BY <1>2 DEF QueueInv, Arrived, Queued
<1>3. CASE \E m \in Messages : Taken(m) /\ acked' \cup dead' = acked \cup dead \cup {m}
  <2>1. PICK m \in Messages : Taken(m) /\ acked' \cup dead' = acked \cup dead \cup {m}
    BY <1>3
  <2> QED BY <1>1, <2>1 DEF QueueInv, Taken, Arrived, Queued
<1>4. CASE \E m \in Messages : Arrive(m)
  <2>1. PICK m \in Messages : Arrive(m)
    BY <1>4
  <2>2. /\ ~Arrived(m) /\ UNCHANGED <<acked, dead>>
        /\ In(queue'[Group[m]]) = In(queue[Group[m]]) \cup {m}
        /\ \A g \in Groups : g # Group[m] => queue'[g] = queue[g]
        /\ \A g \in Groups : \A x, y :
             Ahead(queue'[g], x, y) => Ahead(queue[g], x, y) \/ y = m
    BY <2>1, ArriveGives
  <2> QED BY <1>1, <2>2 DEF QueueInv, Arrived, Queued
<1>5. ASSUME NEW m \in Messages, Redrive(m)
      PROVE  Taken(m) /\ acked' \cup dead' = acked \cup dead \cup {m}
  BY <1>5, RedriveTakes
<1>6. ASSUME NEW k \in Workers, Ack(k)
      PROVE  \E m \in Messages : Taken(m) /\ acked' \cup dead' = acked \cup dead \cup {m}
  BY <1>6, AckTakes
<1> QED BY <1>2, <1>3, <1>4, <1>5, <1>6, QueueSteps

LEMMA InitQueue == Init => QueueInv
<1>1. In(<<>>) = {}
  BY DEF In
<1> QED BY <1>1 DEF Init, QueueInv, Queued, Groups

LEMMA QueueNext == Types /\ FaultTypes /\ QueueInv /\ [Next]_vars => QueueInv'
<1> SUFFICES ASSUME Types, FaultTypes, QueueInv, [Next]_vars PROVE QueueInv'
  OBVIOUS
<1> QED BY QueueMoves DEF QueueInv, Queued, In


-----------------------------------------------------------------------------
(* What the steps do to the batches and the inbox                          *)

\* A batch is received, or each worker's stays, gets shorter or is forgotten.
LEMMA BatchSteps ==
  ASSUME Types, FaultTypes, [Next]_vars
  PROVE  \/ \E k \in Workers : Receive(k)
         \/ /\ receives' = receives
            /\ \A j \in Workers : \/ todo'[j] = todo[j] \/ todo'[j] = <<>>
                                  \/ todo[j] # <<>> /\ todo'[j] = Tail(todo[j])
<1> DEFINE Shrinks == /\ receives' = receives
                      /\ \A j \in Workers : \/ todo'[j] = todo[j] \/ todo'[j] = <<>>
                                            \/ todo[j] # <<>> /\ todo'[j] = Tail(todo[j])
<1>1. ASSUME NEW k \in Workers, wpc[k] \in Busy, NextMessage(k), receives' = receives
      PROVE  Shrinks
  BY <1>1, NextMessageShortens DEF Types
<1>2. ASSUME NEW k \in Workers, EndRun(k) \/ Replace(k), receives' = receives
      PROVE  Shrinks
  BY <1>2 DEF EndRun, Replace, Types
<1>3. ASSUME UNCHANGED <<receives, todo>> PROVE Shrinks
  BY <1>3
<1> HIDE DEF Shrinks
<1>4. ASSUME NEW k \in Workers, WorkerStep(k) PROVE Receive(k) \/ Shrinks
  <2>1. CASE PollInVain(k) \/ FindInbox(k) \/ Claim(k) \/ Process(k)
    BY <1>3, <2>1 DEF PollInVain, FindInbox, Claim, Process, sqsVars
  <2>2. CASE ClaimConflict(k) \/ FailToProcess(k) \/ Ack(k) \/ StaleAck(k) \/ FailToAck(k)
    BY <1>1, <1>2, <2>2 DEF ClaimConflict, FailToProcess, Ack, StaleAck, FailToAck,
       Unacked, Busy, sqsVars
  <2> QED BY <1>4, <2>1, <2>2 DEF WorkerStep
<1>5. ASSUME NEW k \in Workers, Crash(k) \/ StopLoop(k) \/ Ends(k) PROVE Shrinks
  BY <1>2, <1>3, <1>5 DEF Crash, StopLoop, Ends, CloseConnections, Exit, Replace,
     sqsVars, runVars
<1>6. ASSUME NEW m \in Messages, Arrive(m) \/ SqsStep(m) PROVE Shrinks
  BY <1>3, <1>6 DEF Arrive, SqsStep, Expire, Redrive, runVars
<1>7. ASSUME NEW a \in ApiCommands, ApiSubmit(a[1], a[2]) PROVE Shrinks
  BY <1>3, <1>7 DEF ApiSubmit, sqsVars, runVars
<1> USE DEF Shrinks
<1>8. CASE UNCHANGED vars
  BY <1>3, <1>8 DEF vars, sqsVars, runVars
<1>9. CASE Next
  <2>1. CASE \E m \in Messages : Arrive(m) \/ SqsStep(m)
    BY <1>6, <2>1
  <2>2. CASE \E k \in Workers : WorkerStep(k)
    BY <1>4, <2>2
  <2>3. CASE \E k \in Workers : Crash(k) \/ StopLoop(k) \/ Ends(k)
    BY <1>5, <2>3
  <2>4. CASE \E a \in ApiCommands : ApiSubmit(a[1], a[2])
    BY <1>7, <2>4
  <2> QED BY <1>9, <2>1, <2>2, <2>3, <2>4 DEF Next
<1> QED BY <1>8, <1>9

LEMMA InboxSteps ==
  ASSUME [Next]_vars
  PROVE  inbox' = inbox \/ \E k \in Workers : Process(k)
BY DEF Next, Arrive, SqsStep, Expire, Redrive, WorkerStep, PollInVain, Receive,
   FindInbox, Claim, ClaimConflict, FailToProcess, Ack, StaleAck, FailToAck, Crash,
   StopLoop, Ends, CloseConnections, Exit, Replace, ApiSubmit, vars, dbVars

LEMMA ReceiveGives ==
  ASSUME Types, FaultTypes, NEW k \in Workers, Receive(k)
  PROVE  \E s \in Deliveries :
           /\ \A j \in Workers : todo'[j] = IF j = k THEN s ELSE todo[j]
           /\ \A m \in Messages :
                /\ holder'[m] = IF m \in In(s) THEN k ELSE holder[m]
                /\ receives'[m] = IF m \in In(s) THEN receives[m] + 1 ELSE receives[m]
           /\ UNCHANGED <<queue, acked, dead, dbVars, phase, faults>>
<1>1. PICK s \in Deliveries :
        /\ todo' = [todo EXCEPT ![k] = s]
        /\ holder' = [m \in Messages |-> IF m \in In(s) THEN k ELSE holder[m]]
        /\ receives' = [m \in Messages |->
                          IF m \in In(s) THEN receives[m] + 1 ELSE receives[m]]
  BY DEF Receive
<1>2. UNCHANGED <<queue, acked, dead, dbVars, phase, faults>>
  BY DEF Receive
<1> QED BY <1>1, <1>2 DEF Types

\* Only the message at the head of a worker's batch is ever processed.
LEMMA ProcessGives ==
  ASSUME Types, NEW k \in Workers, Process(k)
  PROVE  /\ todo[k] \in Seq(Messages) /\ todo[k] # <<>> /\ Head(todo[k]) \in Messages
         /\ Head(todo[k]) \in In(todo[k])
         /\ \A m \in Messages : m # Head(todo[k]) => inbox'[m] = inbox[m]
<1>1. todo[k] \in Seq(Messages) /\ todo[k] # <<>>
  BY DEF Process, Types, Busy
<1>2. Head(todo[k]) \in Messages /\ Head(todo[k]) = todo[k][1] /\ 1 \in 1 .. Len(todo[k])
  BY <1>1
<1>3. inbox' = [inbox EXCEPT ![Head(todo[k])] = "processed"]
  BY DEF Process
<1> QED BY <1>1, <1>2, <1>3 DEF Types, In

-----------------------------------------------------------------------------
(* Nothing is tried before it arrived, or before what is ahead of it       *)

LEMMA InitTried == Init => TriedInv
<1> SUFFICES ASSUME Init PROVE TriedInv
  OBVIOUS
<1>1. In(<<>>) = {}
  BY DEF In
<1>2. \A g \in Groups : \A x, y : ~Ahead(queue[g], x, y)
  BY <1>1, AheadIn DEF Init
<1> QED BY <1>1, <1>2 DEF Init, TriedInv, Tried, Arrived

LEMMA TriedNext ==
  Types /\ FaultTypes /\ QueueInv /\ TriedInv /\ [Next]_vars => TriedInv'
<1> SUFFICES ASSUME Types, FaultTypes, QueueInv, TriedInv, [Next]_vars PROVE TriedInv'
  OBVIOUS
<1>1. /\ \A m \in Messages : Arrived(m) => Arrived(m)'
      /\ \A g \in Groups : \A x, y :
           Ahead(queue[g], x, y)' => Ahead(queue[g], x, y) \/ (y \in Messages /\ ~Arrived(y))
  BY QueueMoves DEF Arrived, Queued, Ahead, In
<1>2. ASSUME receives' = receives,
             \A j \in Workers : In(todo'[j]) \subseteq In(todo[j])
      PROVE  TriedInv'
  <2>1. \A m \in Messages : Tried(m)' <=> Tried(m)
    BY <1>2 DEF Tried
  <2>2. \A m \in Messages : inbox'[m] # None => Tried(m)
    <3>1. CASE inbox' = inbox
      BY <3>1 DEF TriedInv
    <3>2. ASSUME NEW k \in Workers, Process(k)
          PROVE  \A m \in Messages : inbox'[m] # None => Tried(m)
      BY <3>2, ProcessGives DEF TriedInv
    <3> QED BY <3>1, <3>2, InboxSteps
  <2>3. \A k \in Workers : \A m \in In(todo[k])' : Tried(m)'
    <3>1. \A k \in Workers : In(todo[k])' \subseteq In(todo[k])
      BY <1>2 DEF In
    <3>2. \A k \in Workers : In(todo[k]) \subseteq Messages
      BY DEF In, Types
    <3> QED BY <2>1, <3>1, <3>2 DEF TriedInv
  <2>4. ASSUME NEW g \in Groups, NEW x \in Messages, NEW y \in Messages,
               Ahead(queue[g], x, y)', Tried(y)
        PROVE  Tried(x)
    BY <1>1, <2>4 DEF TriedInv
  <2> QED BY <1>1, <2>1, <2>2, <2>3, <2>4 DEF TriedInv
<1>3. ASSUME NEW k \in Workers, Receive(k) PROVE TriedInv'
  <2>1. PICK s \in Deliveries :
          /\ \A j \in Workers : todo'[j] = IF j = k THEN s ELSE todo[j]
          /\ \A m \in Messages :
               receives'[m] = IF m \in In(s) THEN receives[m] + 1 ELSE receives[m]
          /\ UNCHANGED <<queue, acked, dead, inbox>>
    BY <1>3, ReceiveGives DEF dbVars
  <2>2. \A m \in In(s) : m \in Messages /\ Queued(m)
    BY DeliveryDistinct
  <2>3. \A m \in Messages : Tried(m)' <=> Tried(m) \/ m \in In(s)
    BY <2>1 DEF Tried, FaultTypes
  <2>4. \A m \in Messages : Tried(m)' => Arrived(m)'
    BY <1>1, <2>2, <2>3 DEF TriedInv, Arrived
  <2>5. \A j \in Workers : \A m \in In(todo[j])' : m \in Messages /\ Tried(m)'
    <3>1. \A j \in Workers : In(todo[j])' = IF j = k THEN In(s) ELSE In(todo[j])
      BY <2>1 DEF In
    <3>2. \A j \in Workers : In(todo[j]) \subseteq Messages
      BY DEF In, Types
    <3> QED BY <2>2, <2>3, <3>1, <3>2 DEF TriedInv
  <2>6. ASSUME NEW g \in Groups, NEW x \in Messages, NEW y \in Messages,
               Ahead(queue[g], x, y)', Tried(y)'
        PROVE  Tried(x)'
    <3>1. Ahead(queue[g], x, y)
      BY <2>1, <2>6 DEF Ahead
    <3>2. CASE Tried(y)
      BY <2>3, <3>1, <3>2 DEF TriedInv
    <3>3. CASE y \in In(s)
      <4>1. Group[y] = g
        BY <3>1, AheadIn DEF QueueInv
      <4>2. Ahead(s, x, y)
        BY <3>1, <3>3, <4>1, DeliveryInLine
      <4> QED BY <2>3, <4>2, AheadIn
    <3> QED BY <2>3, <2>6, <3>2, <3>3
  <2> QED BY <2>1, <2>3, <2>4, <2>5, <2>6 DEF TriedInv
<1>4. ASSUME receives' = receives,
             \A j \in Workers : \/ todo'[j] = todo[j] \/ todo'[j] = <<>>
                                \/ todo[j] # <<>> /\ todo'[j] = Tail(todo[j])
      PROVE  \A j \in Workers : In(todo'[j]) \subseteq In(todo[j])
  <2>1. In(<<>>) = {}
    BY DEF In
  <2>2. \A j \in Workers : todo[j] # <<>> => In(Tail(todo[j])) \subseteq In(todo[j])
    BY NoTwiceTail DEF Types, FaultTypes
  <2> QED BY <1>4, <2>1, <2>2
<1> QED BY <1>2, <1>3, <1>4, BatchSteps


-----------------------------------------------------------------------------
(* Nothing is overtaken while nothing has failed                           *)

LEMMA InitLine == Init => LineInv
<1> SUFFICES ASSUME Init PROVE LineInv
  OBVIOUS
<1>1. In(<<>>) = {}
  BY DEF In
<1>2. \A g \in Groups : \A x, y : ~Ahead(queue[g], x, y)
  BY <1>1, AheadIn DEF Init
<1> QED BY <1>1, <1>2 DEF Init, LineInv

\* A worker drops nothing from its batch but the excused, and SQS takes nothing
\* that is in one.
LEMMA LineKept ==
  ASSUME OrderInv, [Next]_vars, faults = 0,
         inbox' = inbox,
         \A k \in Workers : phase'[k] = "up",
         \A k \in Workers : \A m \in In(todo'[k]) :
           m \in In(todo[k]) /\ holder'[m] = k /\ m \in In(queue'[Group[m]]),
         \A k \in Workers : \A x, y \in Messages :
           Ahead(todo[k], x, y) /\ y \in In(todo'[k]) =>
             Ahead(todo'[k], x, y) \/ Excused(x)'
  PROVE  LineInv'
<1> USE DEF OrderInv, DeathInv, ConsumerInv
<1>1. \A m \in Messages : Excused(m) => Excused(m)'
  BY ExcusedStays
<1>2. \A g \in Groups : \A x, y :
        Ahead(queue[g], x, y)' => Ahead(queue[g], x, y) \/ (y \in Messages /\ ~Arrived(y))
  BY QueueMoves DEF Ahead
<1>3. \A y \in Messages : ~Arrived(y) => inbox[y] = None /\ \A k \in Workers : y \notin In(todo[k])
  BY DEF TriedInv
<1>4. /\ \A k \in Workers : \A g \in Groups : \A x, y \in Messages :
           Ahead(queue[g], x, y) /\ y \in In(todo[k]) => Excused(x) \/ Ahead(todo[k], x, y)
      /\ \A g \in Groups : \A x, y \in Messages :
           Ahead(queue[g], x, y) /\ inbox[y] = "processed" => Excused(x)
  BY DEF LineInv
<1>5. ASSUME NEW k \in Workers, NEW m \in In(todo[k])' PROVE (holder[m] = k)' /\ Queued(m)'
  <2>1. m \in In(todo'[k])
    BY <1>5 DEF In
  <2> QED BY <2>1 DEF Queued, In
<1>6. ASSUME NEW k \in Workers, NEW g \in Groups, NEW x \in Messages, NEW y \in Messages,
             Ahead(queue[g], x, y)', y \in In(todo[k])'
      PROVE  Excused(x)' \/ Ahead(todo[k], x, y)'
  <2>1. y \in In(todo'[k]) /\ y \in In(todo[k])
    <3>1. y \in In(todo'[k])
      BY <1>6 DEF In
    <3> QED BY <3>1
  <2>2. Ahead(queue[g], x, y)
    BY <1>2, <1>3, <1>6, <2>1
  <2>3. Excused(x) \/ Ahead(todo[k], x, y)
    BY <1>4, <2>1, <2>2
  <2>4. Ahead(todo'[k], x, y) => Ahead(todo[k], x, y)'
    BY DEF Ahead
  <2> QED BY <1>1, <2>1, <2>3, <2>4
<1>7. ASSUME NEW g \in Groups, NEW x \in Messages, NEW y \in Messages,
             Ahead(queue[g], x, y)', inbox'[y] = "processed"
      PROVE  Excused(x)'
  <2>1. inbox[y] = "processed" /\ inbox[y] # None
    BY <1>7, MessagesAssumption
  <2>2. Ahead(queue[g], x, y)
    BY <1>2, <1>3, <1>7, <2>1
  <2> QED BY <1>1, <1>4, <2>1, <2>2
<1> QED BY <1>5, <1>6, <1>7 DEF LineInv

\* The worker k is done with the head of its batch, which is excused.
LEMMA LineNextMessage ==
  ASSUME OrderInv, [Next]_vars, faults = 0, NEW k \in Workers, wpc[k] \in Busy,
         NextMessage(k), UNCHANGED <<queue, holder, phase, inbox>>,
         Excused(Head(todo[k]))
  PROVE  LineInv'
<1> USE DEF OrderInv, DeathInv, ConsumerInv
<1>1. todo[k] \in Seq(Messages) /\ todo[k] # <<>> /\ NoTwice(todo[k])
  BY DEF Types, FaultTypes
<1>2. PICK h \in Messages : h = Head(todo[k])
  BY <1>1
<1>3. \A j \in Workers : todo'[j] = IF j = k THEN Tail(todo[k]) ELSE todo[j]
  BY NextMessageShortens DEF Types
<1>4. In(Tail(todo[k])) \subseteq In(todo[k])
  BY <1>1, NoTwiceTail
<1>5. \A x, y : Ahead(todo[k], x, y) /\ x # h => Ahead(Tail(todo[k]), x, y)
  BY <1>1, <1>2, AheadTail
<1>6. Excused(h)'
  BY <1>2, ExcusedStays
<1>7. \A j \in Workers : \A m \in In(todo'[j]) :
        m \in In(todo[j]) /\ holder'[m] = j /\ m \in In(queue'[Group[m]])
  BY <1>3, <1>4 DEF LineInv, Queued
<1>8. \A j \in Workers : \A x, y \in Messages :
        Ahead(todo[j], x, y) /\ y \in In(todo'[j]) => Ahead(todo'[j], x, y) \/ Excused(x)'
  BY <1>3, <1>5, <1>6
<1>9. \A j \in Workers : phase'[j] = "up"
  BY DEF LineInv
<1> QED BY <1>7, <1>8, <1>9, LineKept

\* The worker k forgets its batch.
LEMMA LineEndRun ==
  ASSUME OrderInv, [Next]_vars, faults = 0, NEW k \in Workers,
         EndRun(k), UNCHANGED <<queue, holder, phase, inbox>>
  PROVE  LineInv'
<1> USE DEF OrderInv, DeathInv, ConsumerInv
<1>1. \A j \in Workers : todo'[j] = IF j = k THEN <<>> ELSE todo[j]
  BY DEF EndRun, Types
<1>2. In(<<>>) = {}
  BY DEF In
<1>3. \A j \in Workers : \A m \in In(todo'[j]) :
        m \in In(todo[j]) /\ holder'[m] = j /\ m \in In(queue'[Group[m]])
  BY <1>1, <1>2 DEF LineInv, Queued
<1>4. \A j \in Workers : \A x, y \in Messages :
        Ahead(todo[j], x, y) /\ y \in In(todo'[j]) => Ahead(todo'[j], x, y) \/ Excused(x)'
  BY <1>1, <1>2
<1>5. \A j \in Workers : phase'[j] = "up"
  BY DEF LineInv
<1> QED BY <1>3, <1>4, <1>5, LineKept

\* A step that concerns no batch, process or inbox row.
LEMMA LineAside ==
  ASSUME OrderInv, [Next]_vars, faults = 0, UNCHANGED <<todo, phase, inbox>>,
         \A k \in Workers : \A m \in In(todo[k]) :
           holder'[m] = k /\ m \in In(queue'[Group[m]])
  PROVE  LineInv'
<1>1. \A j \in Workers : phase'[j] = "up"
  BY DEF OrderInv, LineInv
<1> QED BY <1>1, LineKept


LEMMA LineReceive ==
  ASSUME OrderInv, [Next]_vars, faults = 0, NEW k \in Workers, Receive(k)
  PROVE  LineInv'
<1> USE DEF OrderInv, DeathInv, ConsumerInv
<1>1. PICK s \in Deliveries :
        /\ \A j \in Workers : todo'[j] = IF j = k THEN s ELSE todo[j]
        /\ \A m \in Messages : holder'[m] = IF m \in In(s) THEN k ELSE holder[m]
        /\ UNCHANGED <<queue, acked, dead, dbVars, phase, faults>>
  BY ReceiveGives
<1>2. UNCHANGED <<inbox, decided, queue>>
  BY <1>1 DEF dbVars
<1>3. \A m \in In(s) : m \in Messages /\ holder[m] = None /\ Queued(m)
  BY DeliveryDistinct
<1>4. /\ \A j \in Workers : phase[j] = "up"
      /\ \A j \in Workers : \A m \in In(todo[j]) : holder[m] = j /\ Queued(m)
      /\ \A j \in Workers : \A g \in Groups : \A x, y \in Messages :
           Ahead(queue[g], x, y) /\ y \in In(todo[j]) => Excused(x) \/ Ahead(todo[j], x, y)
      /\ \A g \in Groups : \A x, y \in Messages :
           Ahead(queue[g], x, y) /\ inbox[y] = "processed" => Excused(x)
  BY DEF LineInv
<1>5. \A j \in Workers : In(todo[j]) \subseteq Messages
  BY DEF In, Types
<1>6. \A j \in Workers : phase'[j] = "up"
  BY <1>1, <1>4
<1>7. ASSUME NEW j \in Workers, NEW m \in In(todo[j])' PROVE (holder[m] = j)' /\ Queued(m)'
  <2>1. m \in IF j = k THEN In(s) ELSE In(todo[j])
    BY <1>1, <1>7 DEF In
  <2>2. Queued(m)' <=> Queued(m)
    BY <1>2 DEF Queued, In
  <2>3. CASE m \in In(s)
    <3>1. j = k
      BY <1>3, <1>4, <2>1, <2>3, MessagesAssumption
    <3> QED BY <1>1, <1>3, <2>2, <2>3, <3>1
  <2>4. CASE m \notin In(s)
    <3>1. m \in In(todo[j]) /\ m \in Messages
      BY <1>5, <2>1, <2>4
    <3> QED BY <1>1, <1>4, <2>2, <2>4, <3>1
  <2> QED BY <2>3, <2>4
<1>8. ASSUME NEW j \in Workers, NEW g \in Groups, NEW x \in Messages, NEW y \in Messages,
             Ahead(queue[g], x, y)', y \in In(todo[j])'
      PROVE  Excused(x)' \/ Ahead(todo[j], x, y)'
  <2>1. Ahead(queue[g], x, y)
    BY <1>2, <1>8 DEF Ahead
  <2>2. Excused(x) => Excused(x)'
    BY ExcusedStays
  <2>3. CASE j = k
    <3>1. y \in In(s)
      BY <1>1, <1>8, <2>3 DEF In
    <3>2. Group[y] = g
      BY <2>1, AheadIn DEF QueueInv
    <3>3. Ahead(s, x, y)
      BY <2>1, <3>1, <3>2, DeliveryInLine
    <3> QED BY <1>1, <2>3, <3>3 DEF Ahead
  <2>4. CASE j # k
    <3>1. todo'[j] = todo[j]
      BY <1>1, <2>4
    <3>2. y \in In(todo[j])
      BY <1>8, <3>1 DEF In
    <3>3. Ahead(todo[j], x, y) => Ahead(todo[j], x, y)'
      BY <3>1 DEF Ahead
    <3> QED BY <1>4, <2>1, <2>2, <3>2, <3>3
  <2> QED BY <2>3, <2>4
<1>9. ASSUME NEW g \in Groups, NEW x \in Messages, NEW y \in Messages,
             Ahead(queue[g], x, y)', inbox'[y] = "processed"
      PROVE  Excused(x)'
  <2>1. Ahead(queue[g], x, y)
    BY <1>2, <1>9 DEF Ahead
  <2> QED BY <1>2, <1>4, <1>9, <2>1, ExcusedStays
<1> QED BY <1>6, <1>7, <1>8, <1>9 DEF LineInv

\* What is ahead of the message that is processed was ahead of it in the batch,
\* and there is nothing ahead of the head of a batch.
LEMMA LineProcess ==
  ASSUME OrderInv, [Next]_vars, faults = 0, NEW k \in Workers, Process(k)
  PROVE  LineInv'
<1> USE DEF OrderInv, DeathInv, ConsumerInv
<1>1. UNCHANGED <<queue, holder, phase, todo>>
  BY DEF Process, sqsVars
<1>2. PICK h \in Messages : h = Head(todo[k]) /\ h \in In(todo[k])
  BY ProcessGives
<1>3. \A m \in Messages : m # h => inbox'[m] = inbox[m]
  BY <1>2, ProcessGives
<1>4. \A x : ~Ahead(todo[k], x, h)
  <2>1. todo[k] \in Seq(Messages) /\ todo[k] # <<>> /\ NoTwice(todo[k])
    BY ProcessGives DEF FaultTypes
  <2> QED BY <1>2, <2>1, AheadTail
<1>5. /\ \A j \in Workers : phase[j] = "up"
      /\ \A j \in Workers : \A m \in In(todo[j]) : holder[m] = j /\ Queued(m)
      /\ \A j \in Workers : \A g \in Groups : \A x, y \in Messages :
           Ahead(queue[g], x, y) /\ y \in In(todo[j]) => Excused(x) \/ Ahead(todo[j], x, y)
      /\ \A g \in Groups : \A x, y \in Messages :
           Ahead(queue[g], x, y) /\ inbox[y] = "processed" => Excused(x)
  BY DEF LineInv
<1>6. \A m \in Messages : Excused(m) => Excused(m)'
  BY ExcusedStays
<1>7. /\ \A g : \A x, y : Ahead(queue[g], x, y)' <=> Ahead(queue[g], x, y)
      /\ \A j : \A x, y : Ahead(todo[j], x, y)' <=> Ahead(todo[j], x, y)
      /\ \A j : In(todo[j])' = In(todo[j])
      /\ \A m : Queued(m)' <=> Queued(m)
  BY <1>1 DEF Ahead, In, Queued
<1>8. ASSUME NEW g \in Groups, NEW x \in Messages, NEW y \in Messages,
             Ahead(queue[g], x, y), inbox'[y] = "processed"
      PROVE  Excused(x)
  <2>1. CASE y = h
    BY <1>2, <1>4, <1>5, <1>8, <2>1
  <2>2. CASE y # h
    BY <1>3, <1>5, <1>8, <2>2
  <2> QED BY <2>1, <2>2
<1> QED BY <1>1, <1>5, <1>6, <1>7, <1>8 DEF LineInv

LEMMA LineAck ==
  ASSUME OrderInv, [Next]_vars, faults = 0, NEW k \in Workers, Ack(k)
  PROVE  LineInv'
<1> USE DEF OrderInv, DeathInv, ConsumerInv
<1>1. NextMessage(k) /\ wpc[k] = "ack" /\ wpc[k] \in Busy /\ UNCHANGED <<phase, inbox>>
  BY DEF Ack, dbVars, Busy
<1>2. todo[k] \in Seq(Messages) /\ todo[k] # <<>> /\ NoTwice(todo[k])
  BY <1>1 DEF Types, FaultTypes
<1>3. PICK h \in Messages : h = Head(todo[k])
  BY <1>2
<1>4. \A m \in Messages : m # h => holder'[m] = holder[m]
  BY <1>3 DEF Ack, FaultTypes
<1>5. \A m \in Messages : Queued(m) /\ m # h => m \in In(queue'[Group[m]])
  <2>1. \A g \in Groups : In(queue'[g]) = In(queue[g]) \ {h}
    BY <1>3, AckTakes DEF Taken
  <2> QED BY <2>1 DEF Queued, Groups
<1>6. \A j \in Workers : todo'[j] = IF j = k THEN Tail(todo[k]) ELSE todo[j]
  BY <1>1, NextMessageShortens DEF Types
<1>7. /\ h \in In(todo[k]) /\ h \notin In(Tail(todo[k]))
      /\ In(Tail(todo[k])) \subseteq In(todo[k])
  BY <1>2, <1>3, NoTwiceTail
<1>8. \A x, y : Ahead(todo[k], x, y) /\ x # h => Ahead(Tail(todo[k]), x, y)
  BY <1>2, <1>3, AheadTail
<1>9. Excused(h)'
  <2>1. Excused(h)
    BY <1>1, <1>3 DEF AckersSettled, Settled, Excused
  <2> QED BY <2>1, ExcusedStays
<1>10. /\ \A j \in Workers : phase[j] = "up"
       /\ \A j \in Workers : \A m \in In(todo[j]) : holder[m] = j /\ Queued(m)
  BY DEF LineInv
<1>11. ASSUME NEW j \in Workers, NEW m \in In(todo'[j])
       PROVE  m \in In(todo[j]) /\ holder'[m] = j /\ m \in In(queue'[Group[m]])
  <2>1. m \in In(todo[j])
    BY <1>6, <1>7, <1>11
  <2>2. m \in Messages
    BY <2>1 DEF In, Types
  <2>3. m # h
    BY <1>6, <1>7, <1>10, <1>11, <2>1
  <2> QED BY <1>4, <1>5, <1>10, <2>1, <2>2, <2>3
<1>12. \A j \in Workers : \A x, y \in Messages :
         Ahead(todo[j], x, y) /\ y \in In(todo'[j]) => Ahead(todo'[j], x, y) \/ Excused(x)'
  BY <1>6, <1>8, <1>9
<1>13. \A j \in Workers : phase'[j] = "up"
  BY <1>1, <1>10
<1> QED BY <1>1, <1>11, <1>12, <1>13, LineKept

LEMMA LineNext == OrderInv /\ [Next]_vars => LineInv'
<1> SUFFICES ASSUME OrderInv, [Next]_vars, faults' = 0 PROVE LineInv'
  BY DEF LineInv
<1> USE DEF OrderInv, DeathInv, ConsumerInv
<1>1. faults \in Nat /\ faults = 0 /\ faults' = faults
  <2>1. faults \in Nat /\ faults' \in Nat /\ faults' >= faults
    BY FaultsGrow DEF FaultTypes
  <2> QED BY <2>1
<1>2. /\ \A k \in Workers : phase[k] = "up"
      /\ \A k \in Workers : \A m \in In(todo[k]) : holder[m] = k /\ Queued(m)
  BY <1>1 DEF LineInv
<1>3. \A k \in Workers : In(todo[k]) \subseteq Messages
  BY DEF In, Types
<1>4. ASSUME UNCHANGED <<todo, phase, inbox, holder, queue>> PROVE LineInv'
  BY <1>1, <1>2, <1>4, LineAside DEF Queued
<1>5. ASSUME NEW m \in Messages, Arrive(m) PROVE LineInv'
  <2>1. \A n \in Messages : Queued(n) => n \in In(queue'[Group[n]])
    BY <1>5, ArriveGives DEF Queued, Groups
  <2>2. UNCHANGED <<todo, phase, inbox, holder>>
    BY <1>5 DEF Arrive, runVars, dbVars
  <2> QED BY <1>1, <1>2, <1>3, <2>1, <2>2, LineAside
<1>6. ASSUME NEW m \in Messages, Redrive(m) PROVE LineInv'
  <2>1. holder[m] = None
    BY <1>6 DEF Redrive, Queued, Free
  <2>2. \A k \in Workers : m \notin In(todo[k])
    BY <1>2, <2>1, MessagesAssumption
  <2>3. \A n \in Messages : Queued(n) /\ n # m => n \in In(queue'[Group[n]])
    BY <1>6, RedriveTakes DEF Taken, Queued, Groups
  <2>4. UNCHANGED <<todo, phase, inbox, holder>>
    BY <1>6 DEF Redrive, runVars, dbVars
  <2> QED BY <1>1, <1>2, <1>3, <2>2, <2>3, <2>4, LineAside
<1>7. ASSUME NEW m \in Messages, Expire(m) PROVE LineInv'
  <2>1. ~Handled(m)
    BY <1>1, <1>7 DEF Expire
  <2>2. \A k \in Workers : m \notin In(todo[k])
    BY <1>2, <2>1 DEF Handled
  <2>3. UNCHANGED <<todo, phase, inbox, queue>> /\ \A n \in Messages : n # m => holder'[n] = holder[n]
    BY <1>7 DEF Expire, runVars, dbVars, FaultTypes
  <2> QED BY <1>1, <1>2, <1>3, <2>2, <2>3, LineAside DEF Queued
<1>8. ASSUME NEW k \in Workers, PollInVain(k) \/ FindInbox(k) \/ Claim(k) PROVE LineInv'
  BY <1>4, <1>8 DEF PollInVain, FindInbox, Claim, sqsVars, dbVars
<1>9. ASSUME NEW k \in Workers,
             ClaimConflict(k) \/ FailToProcess(k) \/ (StaleAck(k) /\ NextMessage(k))
      PROVE  LineInv'
  <2>1. wpc[k] \in Busy /\ NextMessage(k) /\ UNCHANGED <<queue, holder, phase, inbox>>
    BY <1>9 DEF ClaimConflict, FailToProcess, StaleAck, Unacked, Busy, sqsVars, dbVars
  <2>2. Head(todo[k]) \in Messages
    BY <2>1 DEF Types
  <2>3. Excused(Head(todo[k]))
    <3>1. CASE ClaimConflict(k)
      BY <2>2, <3>1 DEF ClaimConflict, InboxSettled, Settled, Excused
    <3>2. CASE FailToProcess(k)
      BY <1>1, <1>2, <3>2 DEF FailToProcess, Excused
    <3>3. CASE StaleAck(k)
      BY <3>3 DEF StaleAck, AckersSettled, Settled, Excused
    <3> QED BY <1>9, <3>1, <3>2, <3>3
  <2> QED BY <1>1, <2>1, <2>3, LineNextMessage
<1>10. ASSUME NEW k \in Workers, StaleAck(k), EndRun(k) PROVE LineInv'
  BY <1>1, <1>10, LineEndRun DEF StaleAck, sqsVars, dbVars
<1>11. ASSUME NEW k \in Workers, WorkerStep(k) PROVE LineInv'
  <2>1. ~FailToAck(k)
    BY <1>1 DEF FailToAck
  <2>2. StaleAck(k) => NextMessage(k) \/ EndRun(k)
    BY DEF StaleAck
  <2> QED BY <1>1, <1>8, <1>9, <1>10, <1>11, <2>1, <2>2, LineReceive, LineProcess, LineAck
          DEF WorkerStep
<1>12. ASSUME NEW k \in Workers, Crash(k) \/ StopLoop(k) \/ Ends(k) PROVE FALSE
  BY <1>1, <1>2, <1>12 DEF Crash, StopLoop, Ends, CloseConnections, Exit
<1>13. ASSUME NEW a \in ApiCommands, ApiSubmit(a[1], a[2]) PROVE LineInv'
  BY <1>4, <1>13 DEF ApiSubmit, sqsVars, runVars
<1>14. CASE UNCHANGED vars
  BY <1>4, <1>14 DEF vars, sqsVars, dbVars, runVars
<1> QED BY <1>5, <1>6, <1>7, <1>11, <1>12, <1>13, <1>14 DEF Next, SqsStep

LEMMA OrderInvHolds == Spec => []OrderInv
<1>1. Init => OrderInv
  BY InitDeath, InitQueue, InitTried, InitLine DEF OrderInv
<1>2. OrderInv /\ [Next]_vars => OrderInv'
  BY DeathNext, QueueNext, TriedNext, LineNext DEF OrderInv, DeathInv, ConsumerInv
<1> QED BY <1>1, <1>2, PTL DEF Spec

\* A later message of a group takes effect before an earlier one only if the
\* earlier one can never succeed, or has been delivered and there has been some
\* fault, its own or another message's: run() goes on with the batch after a
\* failed message, and neither a batch of several groups nor a second worker
\* changes the order of a group without a fault.
THEOREM NoOvertakingWithoutReason == Spec => []OvertakenForAReason
<1>1. OrderInv => OvertakenForAReason
  <2> SUFFICES ASSUME OrderInv, NEW g \in Groups,
                      NEW x \in In(queue[g]), NEW y \in In(queue[g]),
                      Ahead(queue[g], x, y), inbox[y] = "processed",
                      ~(inbox[x] = "processed" \/ ~Accepts(x))
               PROVE  receives[x] > 0 /\ faults > 0
    BY DEF OvertakenForAReason
  <2> USE DEF OrderInv, DeathInv
  <2>1. x \in Messages /\ y \in Messages
    BY DEF In, FaultTypes
  <2>2. faults # 0
    BY <2>1 DEF LineInv, Excused
  <2>3. faults > 0
    BY <2>2 DEF FaultTypes
  <2>4. Tried(y)
    BY <2>1, MessagesAssumption DEF TriedInv
  <2>5. Tried(x)
    BY <2>1, <2>4 DEF TriedInv
  <2> QED BY <2>3, <2>5 DEF Tried
<1> QED BY <1>1, OrderInvHolds, PTL


-----------------------------------------------------------------------------
(* The consumers keep their promise                                        *)

\* The state of Handling does not move.
Unseen == UNCHANGED <<inbox, decided, acked, dead>>

LEMMA InitPromise == Init => Promise!Init
<1> SUFFICES ASSUME Init PROVE Promise!Init
  OBVIOUS
<1>1. {m \in Messages : inbox[m] # None} = {}
  BY DEF Init
<1> QED BY <1>1 DEF Init, Promise!Init

LEMMA UnseenStutters == Unseen => UNCHANGED Promise!handlingVars
BY DEF Unseen, Promise!handlingVars

\* A message handled a second time finds its own inbox row and its own
\* decision, and changes nothing.
LEMMA ProcessHandles ==
  ASSUME ConsumerInv, NEW k \in Workers, Process(k)
  PROVE  Unseen \/ \E m \in Messages : Promise!Handle(m)
<1>1. PICK h \in Messages : h = Head(todo[k])
  BY ProcessGives DEF ConsumerInv
<1>2. /\ Accepts(h) /\ inbox' = [inbox EXCEPT ![h] = "processed"]
      /\ decided' = [decided EXCEPT ![Key[h]] = Payload[h]]
      /\ UNCHANGED <<acked, dead>>
  BY <1>1 DEF Process, sqsVars
<1>3. Key[h] \in Keys /\ "processed" # None
  BY MessagesAssumption DEF Keys
<1>4. inbox \in [Messages -> {None, "received", "processed"}]
      /\ decided \in [Keys -> Payloads \cup {None}]
  BY DEF ConsumerInv, Types
<1>5. CASE inbox[h] = None
  <2>1. {m \in Messages : inbox'[m] # None} = {m \in Messages : inbox[m] # None} \cup {h}
    BY <1>2, <1>3, <1>4
  <2>2. h \notin {m \in Messages : inbox[m] # None}
    BY <1>5
  <2>3. decided[Key[h]] \in {None, Payload[h]}
    BY <1>2 DEF Accepts
  <2> QED BY <1>2, <2>1, <2>2, <2>3 DEF Promise!Handle, Promise!Decide
<1>6. CASE inbox[h] # None
  <2>1. inbox[h] = "processed" /\ decided[Key[h]] = Payload[h]
    BY <1>6 DEF ConsumerInv, InboxSettled, Settled
  <2>2. inbox' = inbox /\ decided' = decided
    BY <1>2, <1>3, <1>4, <2>1
  <2> QED BY <1>2, <2>2 DEF Unseen
<1> QED BY <1>5, <1>6

\* What is deleted was handled, and was still in the queue.
LEMMA AckDeletes ==
  ASSUME ConsumerInv, FaultTypes, QueueInv, NEW k \in Workers, Ack(k)
  PROVE  \E m \in Messages : Promise!Delete(m)
<1>1. PICK h \in Messages : h = Head(todo[k])
  BY AckTakes DEF ConsumerInv
<1>2. Queued(h) /\ acked' = acked \cup {h} /\ dead' = dead
  BY <1>1, AckTakes DEF ConsumerInv, Taken
<1>3. h \notin acked \cup dead
  BY <1>2 DEF QueueInv
<1>4. inbox[h] # None
  BY <1>1, MessagesAssumption DEF Ack, ConsumerInv, AckersSettled, Settled
<1>5. UNCHANGED <<inbox, decided>>
  BY DEF Ack, dbVars
<1> QED BY <1>2, <1>3, <1>4, <1>5 DEF Promise!Delete

LEMMA RedriveBuries ==
  ASSUME FaultTypes, QueueInv, NEW m \in Messages, Redrive(m)
  PROVE  Promise!Bury(m)
<1>1. Queued(m) /\ dead' = dead \cup {m} /\ acked' = acked
  BY RedriveTakes DEF Taken
<1>2. m \notin acked \cup dead
  BY <1>1 DEF QueueInv
<1>3. UNCHANGED <<inbox, decided>>
  BY DEF Redrive, dbVars
<1> QED BY <1>1, <1>2, <1>3 DEF Promise!Bury

LEMMA ApiRequests ==
  ASSUME NEW a \in ApiCommands, ApiSubmit(a[1], a[2])
  PROVE  Promise!Request(a)
BY DEF ApiSubmit, Promise!Request, Promise!Decide, sqsVars

LEMMA StepKeepsPromise ==
  ConsumerInv /\ FaultTypes /\ QueueInv /\ [Next]_vars =>
    [Promise!Next]_(Promise!handlingVars)
<1> SUFFICES ASSUME ConsumerInv, FaultTypes, QueueInv, [Next]_vars
             PROVE  Unseen \/ Promise!Next
  BY UnseenStutters
<1>1. ASSUME NEW k \in Workers, WorkerStep(k) PROVE Unseen \/ Promise!Next
  <2>1. CASE Process(k)
    BY <2>1, ProcessHandles DEF Promise!Next
  <2>2. CASE Ack(k)
    BY <2>2, AckDeletes DEF Promise!Next
  <2>3. CASE PollInVain(k) \/ Receive(k) \/ FindInbox(k) \/ Claim(k) \/ ClaimConflict(k)
             \/ FailToProcess(k) \/ StaleAck(k) \/ FailToAck(k)
    BY <2>3 DEF PollInVain, Receive, FindInbox, Claim, ClaimConflict, FailToProcess,
       StaleAck, FailToAck, Unseen, sqsVars, dbVars
  <2> QED BY <1>1, <2>1, <2>2, <2>3 DEF WorkerStep
<1>2. ASSUME NEW k \in Workers, Crash(k) \/ StopLoop(k) \/ Ends(k) PROVE Unseen
  BY <1>2 DEF Crash, StopLoop, Ends, CloseConnections, Exit, Replace, Unseen,
     sqsVars, dbVars
<1>3. ASSUME NEW m \in Messages, Redrive(m) PROVE Promise!Next
  BY <1>3, RedriveBuries DEF Promise!Next
<1>4. ASSUME NEW m \in Messages, Arrive(m) \/ Expire(m) PROVE Unseen
  BY <1>4 DEF Arrive, Expire, Unseen, dbVars
<1>5. ASSUME NEW a \in ApiCommands, ApiSubmit(a[1], a[2]) PROVE Promise!Next
  BY <1>5, ApiRequests DEF Promise!Next
<1>6. CASE UNCHANGED vars
  BY <1>6 DEF vars, sqsVars, dbVars, Unseen
<1> QED BY <1>1, <1>2, <1>3, <1>4, <1>5, <1>6 DEF Next, SqsStep

\* Seen from the inbox, the transactions and the queue alone, the consumers
\* handle each message whole and at most once, decide a key once and for good,
\* and delete nothing unhandled, whatever their batches, processes, receipt
\* handles and redeliveries go through.
THEOREM ConsumersKeepTheirPromise == Spec => HandledAsPromised
<1>1. OrderInv /\ [Next]_vars => [Promise!Next]_(Promise!handlingVars)
  BY StepKeepsPromise DEF OrderInv, DeathInv
<1> QED BY <1>1, InitPromise, OrderInvHolds, PTL DEF Spec, HandledAsPromised, Promise!Spec
====
