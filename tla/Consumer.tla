---- MODULE Consumer ----
(***************************************************************************)
(* The consumers of wager-transactions: ConsumeWagerTransactionBatch run by *)
(* several worker processes against an SQS FIFO queue with a dead letter    *)
(* queue, the inbox table that deduplicates messages, and the submit use    *)
(* case, of which only the outcome matters here: a key is decided once, for *)
(* one payload, by a message or by a request to the API.                    *)
(*                                                                         *)
(* A worker process that is told to end stops its loop and closes its       *)
(* connections while a run may be anywhere in its batch; another process    *)
(* then takes its place.                                                    *)
(*                                                                         *)
(* handle() is one database transaction: the inbox row, the submit (nested) *)
(* and the mark are committed together or not at all.  SQS: a group with a  *)
(* message in flight delivers nothing; a message that is not deleted before *)
(* its visibility timeout is delivered again, MaxReceives times at most.    *)
(***************************************************************************)
EXTENDS Integers, Sequences, FiniteSets

CONSTANTS Messages, Workers,
          Group,        \* [Messages -> message groups]
          Key, Payload, \* [Messages -> idempotency keys, payloads of their
                        \* commands]
          ApiCommands,  \* pairs of a key and a payload the API may be sent
          Poison,       \* messages that never succeed: malformed, or refused
                        \* by submit whenever it is asked
          BatchSize,    \* maxMessages
          MaxReceives,  \* maxReceiveCount of the queue
          MaxFaults,    \* bound on crashes, shutdowns, failed submits, late or
                        \* failed acks
          None

Groups == {Group[m] : m \in Messages}
Keys == {Key[m] : m \in Messages} \cup {a[1] : a \in ApiCommands}

ASSUME MessagesAssumption ==
  /\ DOMAIN Group = Messages /\ DOMAIN Key = Messages
  /\ DOMAIN Payload = Messages /\ \A m \in Messages : Payload[m] # None
  /\ \A a \in ApiCommands : a = <<a[1], a[2]>> /\ a[2] # None
  /\ Poison \subseteq Messages
  /\ None \notin Workers /\ IsFiniteSet(Workers)
  /\ None \notin {"received", "processed"}
  /\ BatchSize \in Nat \ {0} /\ MaxReceives \in Nat \ {0} /\ MaxFaults \in Nat

VARIABLES
  queue,     \* each group's messages, in order
  holder,    \* whose receipt handle a message in flight carries, or None
  receives,  \* how often a message has been delivered
  acked,     \* messages deleted from the queue
  dead,      \* messages moved to the dead letter queue
  inbox,     \* inbox_messages: None, "received" or "processed"
  decided,   \* [Keys -> the payload of its committed transaction, or None]
  phase,     \* each worker process: "up", "stopped" or "closed"
  wpc,       \* where each worker is with the head of its batch
  todo,      \* messages of its batch it has still to deal with
  faults

sqsVars == <<queue, holder, receives, acked, dead>>
dbVars == <<inbox, decided>>
runVars == <<wpc, todo>>
vars == <<sqsVars, dbVars, phase, runVars, faults>>

Init ==
  /\ queue = [g \in Groups |-> <<>>]
  /\ holder = [m \in Messages |-> None]
  /\ receives = [m \in Messages |-> 0]
  /\ acked = {} /\ dead = {}
  /\ inbox = [m \in Messages |-> None] /\ decided = [k \in Keys |-> None]
  /\ phase = [k \in Workers |-> "up"]
  /\ wpc = [k \in Workers |-> "poll"] /\ todo = [k \in Workers |-> <<>>]
  /\ faults = 0

-----------------------------------------------------------------------------
(* SQS                                                                     *)

In(s) == {s[i] : i \in 1 .. Len(s)}
Queued(m) == m \in In(queue[Group[m]])
Arrived(m) == Queued(m) \/ m \in acked \cup dead
RemovePlace(s, i) == [j \in 1 .. Len(s) - 1 |-> IF j < i THEN s[j] ELSE s[j + 1]]

Arrive(m) ==
  /\ ~Arrived(m)
  /\ queue' = [queue EXCEPT ![Group[m]] = Append(@, m)]
  /\ UNCHANGED <<holder, receives, acked, dead, dbVars, phase, runVars, faults>>

Handled(m) == \E k \in Workers : holder[m] = k /\ m \in In(todo[k])

\* The visibility timeout of a message ends.  That is a fault if the worker
\* has it still in its batch; if not, it is how SQS retries.
Expire(m) ==
  /\ holder[m] # None
  /\ IF Handled(m) THEN faults < MaxFaults /\ faults' = faults + 1
                   ELSE UNCHANGED faults
  /\ holder' = [holder EXCEPT ![m] = None]
  /\ UNCHANGED <<queue, receives, acked, dead, dbVars, phase, runVars>>

Free(g) == \A m \in In(queue[g]) : holder[m] = None

\* A message that was delivered often enough goes to the dead letter queue.
Redrive(m) ==
  /\ Queued(m) /\ Free(Group[m]) /\ m = Head(queue[Group[m]])
  /\ receives[m] = MaxReceives
  /\ queue' = [queue EXCEPT ![Group[m]] = Tail(@)]
  /\ dead' = dead \cup {m}
  /\ UNCHANGED <<holder, receives, acked, dbVars, phase, runVars, faults>>

\* A delivery: messages from the front of free groups, each group in order.
Deliveries ==
  {s \in UNION {[1 .. n -> Messages] : n \in 1 .. BatchSize} :
     \A i \in 1 .. Len(s) :
       LET g == Group[s[i]]
           before == Cardinality({j \in 1 .. i - 1 : Group[s[j]] = g})
       IN /\ Free(g) /\ Len(queue[g]) > before
          /\ s[i] = queue[g][before + 1]
          /\ receives[s[i]] < MaxReceives}

-----------------------------------------------------------------------------
(* ConsumeWagerTransactionBatchUseCase.run                                 *)

\* Mutant: the repeating task does not set its next timer.
RunsOnce(k) == "idle"

\* What follows a run: the repeating task starts the next one, which begins
\* with a long poll, unless its loop is stopped.
AfterRun(k) == IF phase[k] = "up" THEN "poll" ELSE "idle"

\* A shutdown does not interrupt a long poll, which may still deliver; but
\* when it ends without a message there is no next one.
PollInVain(k) ==
  /\ wpc[k] = "poll" /\ phase[k] # "up" /\ Deliveries = {}
  /\ wpc' = [wpc EXCEPT ![k] = AfterRun(k)]
  /\ UNCHANGED <<sqsVars, dbVars, phase, todo, faults>>

\* Mutant: run() takes the messages it received from the last to the first.
ReceiveReversed(k) ==
  /\ wpc[k] = "poll"
  /\ \E s \in Deliveries :
       /\ todo' = [todo EXCEPT ![k] = [i \in 1 .. Len(s) |-> s[Len(s) + 1 - i]]]
       /\ holder' = [m \in Messages |-> IF m \in In(s) THEN k ELSE holder[m]]
       /\ receives' = [m \in Messages |->
                         IF m \in In(s) THEN receives[m] + 1 ELSE receives[m]]
  /\ wpc' = [wpc EXCEPT ![k] = "find"]
  /\ UNCHANGED <<queue, acked, dead, dbVars, phase, faults>>

Receive(k) ==
  /\ wpc[k] = "poll"
  /\ \E s \in Deliveries :
       /\ todo' = [todo EXCEPT ![k] = s]
       /\ holder' = [m \in Messages |-> IF m \in In(s) THEN k ELSE holder[m]]
       /\ receives' = [m \in Messages |->
                         IF m \in In(s) THEN receives[m] + 1 ELSE receives[m]]
  /\ wpc' = [wpc EXCEPT ![k] = "find"]
  /\ UNCHANGED <<queue, acked, dead, dbVars, phase, faults>>

\* consumeOne is over: the next message, or the next run.
NextMessage(k) ==
  /\ todo' = [todo EXCEPT ![k] = Tail(@)]
  /\ wpc' = [wpc EXCEPT ![k] = IF Len(todo[k]) > 1 THEN "find" ELSE AfterRun(k)]

\* run() throws: the rest of the batch is forgotten.
EndRun(k) ==
  /\ todo' = [todo EXCEPT ![k] = <<>>]
  /\ wpc' = [wpc EXCEPT ![k] = AfterRun(k)]

\* findByConsumerAndMessageId reads committed rows.
FindInbox(k) ==
  LET m == Head(todo[k]) IN
  /\ wpc[k] = "find" /\ phase[k] # "closed"
  /\ wpc' = [wpc EXCEPT ![k] = CASE inbox[m] = "processed" -> "ack"
                                 [] inbox[m] = "received"  -> "submit"
                                 [] OTHER                  -> "claim"]
  /\ UNCHANGED <<sqsVars, dbVars, phase, todo, faults>>

\* Mutant: an inbox without its primary key.
ClaimWaitsForNobody(k) == {}

\* The INSERT waits for a worker that has the same row uncommitted.
ClaimWaitsFor(k) ==
  {j \in Workers \ {k} : wpc[j] = "submit" /\ Head(todo[j]) = Head(todo[k])}

\* Mutant: the claim is committed in a transaction of its own.
ClaimCommitted(k) ==
  LET m == Head(todo[k]) IN
  /\ wpc[k] = "claim" /\ ClaimWaitsFor(k) = {} /\ inbox[m] = None
  /\ inbox' = [inbox EXCEPT ![m] = "received"]
  /\ wpc' = [wpc EXCEPT ![k] = "submit"]
  /\ UNCHANGED <<sqsVars, decided, phase, todo, faults>>

Claim(k) ==
  /\ wpc[k] = "claim" /\ ClaimWaitsFor(k) = {} /\ inbox[Head(todo[k])] = None
  /\ wpc' = [wpc EXCEPT ![k] = "submit"]
  /\ UNCHANGED <<sqsVars, dbVars, phase, todo, faults>>

\* Mutant: consumeOne acknowledges whatever handle() answered.
AckAnyway(k) ==
  /\ wpc' = [wpc EXCEPT ![k] = "ack"]
  /\ UNCHANGED todo

\* Mutant: handle() lets the exception out of run().
AbandonBatch(k) == EndRun(k)

\* handle() catches the error: the transaction rolls back, no ack, and the
\* batch goes on.
Unacked(k) == NextMessage(k)

\* The insert meets a row committed since it was looked for.
ClaimConflict(k) ==
  /\ wpc[k] = "claim" /\ ClaimWaitsFor(k) = {} /\ inbox[Head(todo[k])] # None
  /\ Unacked(k)
  /\ UNCHANGED <<sqsVars, dbVars, phase, faults>>

\* Mutant: the repeated command is not compared with the first one.
AcceptsAnyPayload(m) == m \notin Poison

\* submit answers: with a new transaction, or with the one its key has for
\* the same payload.  For another payload it throws IdempotencyConflictError.
Accepts(m) == m \notin Poison /\ decided[Key[m]] \in {None, Payload[m]}

\* parse, submit, markProcessed, commit.  A transaction that was open when the
\* connections began to close may still end.
Process(k) ==
  LET m == Head(todo[k]) IN
  /\ wpc[k] = "submit" /\ Accepts(m)
  /\ inbox' = [inbox EXCEPT ![m] = "processed"]
  /\ decided' = [decided EXCEPT ![Key[m]] = Payload[m]]
  /\ wpc' = [wpc EXCEPT ![k] = "ack"]
  /\ UNCHANGED <<sqsVars, phase, todo, faults>>

\* The message does not parse, submit throws, or the database fails, as it
\* does once the connections are closed.
FailToProcess(k) ==
  /\ \/ wpc[k] = "submit"
     \/ wpc[k] \in {"find", "claim"} /\ phase[k] = "closed"
  /\ IF phase[k] = "closed" \/ (wpc[k] = "submit" /\ ~Accepts(Head(todo[k])))
       THEN UNCHANGED faults
       ELSE faults < MaxFaults /\ faults' = faults + 1
  /\ Unacked(k)
  /\ UNCHANGED <<sqsVars, dbVars, phase>>

\* sqs.delete with a receipt handle that is still good.
Ack(k) ==
  LET m == Head(todo[k]) IN
  /\ wpc[k] = "ack" /\ holder[m] = k
  /\ \E i \in 1 .. Len(queue[Group[m]]) :
       /\ queue[Group[m]][i] = m
       /\ queue' = [queue EXCEPT ![Group[m]] = RemovePlace(@, i)]
  /\ holder' = [holder EXCEPT ![m] = None]
  /\ acked' = acked \cup {m}
  /\ NextMessage(k)
  /\ UNCHANGED <<receives, dead, dbVars, phase, faults>>

\* A stale handle deletes nothing; SQS may refuse it, and then run() throws.
StaleAck(k) ==
  /\ wpc[k] = "ack" /\ holder[Head(todo[k])] # k
  /\ NextMessage(k) \/ EndRun(k)
  /\ UNCHANGED <<sqsVars, dbVars, phase, faults>>

\* The delete fails: nothing catches it, the rest of the batch is abandoned.
FailToAck(k) ==
  /\ wpc[k] = "ack" /\ faults < MaxFaults
  /\ faults' = faults + 1
  /\ EndRun(k)
  /\ UNCHANGED <<sqsVars, dbVars, phase>>

\* A process is gone, and its open transaction with it; another one starts.
Replace(k) ==
  /\ phase' = [phase EXCEPT ![k] = "up"]
  /\ todo' = [todo EXCEPT ![k] = <<>>] /\ wpc' = [wpc EXCEPT ![k] = "poll"]
  /\ UNCHANGED <<sqsVars, dbVars>>

Crash(k) ==
  /\ todo[k] # <<>> /\ faults < MaxFaults
  /\ faults' = faults + 1
  /\ Replace(k)

-----------------------------------------------------------------------------
(* The end of a worker process: WorkerSchedulerService.onApplicationShutdown, *)
(* then CoreModule's, then the process, whatever its run is doing.           *)

\* SIGTERM: the timer is cleared and the loop will not set another.
StopLoop(k) ==
  /\ phase[k] = "up" /\ faults < MaxFaults
  /\ faults' = faults + 1
  /\ phase' = [phase EXCEPT ![k] = "stopped"]
  /\ UNCHANGED <<sqsVars, dbVars, runVars>>

\* orm.close()
CloseConnections(k) ==
  /\ phase[k] = "stopped"
  /\ phase' = [phase EXCEPT ![k] = "closed"]
  /\ UNCHANGED <<sqsVars, dbVars, runVars, faults>>

Exit(k) ==
  /\ phase[k] = "closed"
  /\ Replace(k) /\ UNCHANGED faults

-----------------------------------------------------------------------------
\* Another client has the API decide a key.
ApiSubmit(key, payload) ==
  /\ decided[key] = None
  /\ decided' = [decided EXCEPT ![key] = payload]
  /\ UNCHANGED <<sqsVars, inbox, phase, runVars, faults>>

WorkerStep(k) ==
  \/ PollInVain(k) \/ Receive(k) \/ FindInbox(k) \/ Claim(k)
  \/ ClaimConflict(k) \/ Process(k) \/ FailToProcess(k) \/ Ack(k) \/ StaleAck(k)
  \/ FailToAck(k)

Ends(k) == CloseConnections(k) \/ Exit(k)

SqsStep(m) == Expire(m) \/ Redrive(m)

Next ==
  \/ \E m \in Messages : Arrive(m) \/ SqsStep(m)
  \/ \E k \in Workers : WorkerStep(k) \/ Crash(k) \/ StopLoop(k) \/ Ends(k)
  \/ \E a \in ApiCommands : ApiSubmit(a[1], a[2])

Spec == Init /\ [][Next]_vars

\* The repeating task keeps the consumers running, a process that is told to
\* end does and is replaced, visibility timeouts end and SQS moves exhausted
\* messages.
Fairness ==
  /\ \A k \in Workers : WF_vars(WorkerStep(k)) /\ WF_vars(Ends(k))
  /\ \A m \in Messages : WF_vars(SqsStep(m))

FairSpec == Spec /\ Fairness

-----------------------------------------------------------------------------
(* Properties                                                              *)

Settled(m) == inbox[m] = "processed" /\ decided[Key[m]] = Payload[m]

\* No message is lost: one that was deleted from the queue left its inbox
\* row in the database and the transaction of exactly its command, whichever
\* of its deliveries was the one that deleted it and whoever else used its
\* key.
AckedIsSettled == \A m \in acked : Settled(m)

\* No half of handle() is ever committed: an inbox row is there exactly with
\* its effect.  (So the recovery of an unprocessed row never has to run.)
InboxSettled == \A m \in Messages : inbox[m] # None => Settled(m)

\* Two deliveries of one message are never past the claim at the same time,
\* although the second one found no row: markProcessed and the submit run
\* once per message.
ClaimExclusive ==
  \A j, k \in Workers :
    (wpc[j] = "submit" /\ wpc[k] = "submit" /\ j # k) =>
      Head(todo[j]) # Head(todo[k])

\* A message ends in the dead letter queue unprocessed only if its command can
\* never succeed (it is poison, or its key went to another payload) or there
\* have been at least as many faults, whichever message they hit, as it has
\* deliveries: fewer never use them up, neither through messages of its batch
\* or its group that fail or wait nor through a shutdown in the batch.
DeadForAReason ==
  \A m \in dead : inbox[m] = "processed" \/ ~Accepts(m) \/ faults >= MaxReceives

\* x is somewhere before y in s.
Ahead(s, x, y) == \E i, j \in 1 .. Len(s) : i < j /\ s[i] = x /\ s[j] = y

\* A later message of a group takes effect before an earlier one only if the
\* earlier one can never succeed, or has been delivered and there has been
\* some fault, its own or another message's.  Without faults nothing changes
\* the order of a group, neither batches of several groups nor a second
\* worker, and with them nothing overtakes a message never delivered.
OvertakenForAReason ==
  \A g \in Groups : \A x, y \in In(queue[g]) :
    (Ahead(queue[g], x, y) /\ inbox[y] = "processed") =>
      \/ inbox[x] = "processed" \/ ~Accepts(x)
      \/ receives[x] > 0 /\ faults > 0

\* Every message leaves the queue for good: acknowledged or, in the end, dead.
\* A poison message holds up its group only until then, and a shutdown in the
\* middle of a batch or of a long poll loses nothing.
MessagesLeave == <>[](\A m \in Messages : ~Queued(m))

Promise == INSTANCE Handling WITH
  handled <- {m \in Messages : inbox[m] # None}, decisions <- decided,
  deleted <- acked, buried <- dead

\* Whatever the workers, SQS and the API do, the tables and the queue go
\* through the steps of Handling: a message is handled whole and once, no
\* decision of a key is ever replaced, and nothing is deleted unhandled or
\* leaves the queue twice.
HandledAsPromised == Promise!Spec
====
