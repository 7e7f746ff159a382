---------------------------- MODULE OutboundQueue ----------------------------
(***************************************************************************)
(* The outbound path of the bridge.  HTTP handlers and the task scheduler  *)
(* insert a row in "messages" (status 'queued') and then, in a second      *)
(* step, put its id on SerialWorker._send_queue.  The worker thread drains *)
(* the queue a few messages per poll cycle: pop, UPDATE 'sending', send_sms*)
(* on the modem, UPDATE 'sent' / 'failed', report the outcome through      *)
(* on_send_result.  The queue lives in memory, the rows in SQLite.         *)
(*                                                                         *)
(* The device may disconnect between any two steps (reader error,          *)
(* POST /api/device/reconnect), a database call may raise, and the process *)
(* may be restarted; Faults says which of these a configuration allows.    *)
(***************************************************************************)
EXTENDS Naturals, Sequences

CONSTANTS MaxId,        \* bound on the rows ever inserted
          MaxPerCycle,  \* _process_send_queue(max_per_cycle)
          Faults        \* subset of {"disconnect", "db", "crash"}

ASSUME MaxIdAssumption == MaxId \in Nat
ASSUME MaxPerCycleAssumption == MaxPerCycle \in Nat

Ids == 1 .. MaxId
NoId == 0

VARIABLES
  status,     \* messages.status of each row, "none" before the INSERT
  lastId,     \* AUTOINCREMENT counter of "messages"
  inserted,   \* rows whose creator has not reached worker.send yet
  queue,      \* _send_queue (the ids of its entries)
  pc,         \* where the worker thread stands
  cur,        \* mid, the entry the worker popped (NoId: none)
  ok,         \* the verdict on cur once send_sms ended
  drained,    \* entries handled in the running _process_send_queue
  connected,  \* self.dev.connected
  airs,       \* how often the modem took each message
  emitted     \* outcomes given to on_send_result: <<id, ok>>

rows == <<status, lastId>>
worker == <<pc, cur, ok, drained>>
vars == <<status, lastId, inserted, queue, pc, cur, ok, drained, connected, airs, emitted>>

-----------------------------------------------------------------------------
Init ==
  /\ status = [m \in Ids |-> "none"]
  /\ lastId = 0
  /\ inserted = {}
  /\ queue = <<>>
  /\ pc = "offline"
  /\ cur = NoId
  /\ ok = FALSE
  /\ drained = 0
  /\ connected = FALSE
  /\ airs = [m \in Ids |-> 0]
  /\ emitted = {}

(***************************************************************************)
(* Producers: POST /api/messages/send and SchedulerService.execute.        *)
(***************************************************************************)
\* db.execute("INSERT INTO messages ... 'queued'"): the database hands out the
\* next id.
Insert(m) ==
  /\ m = lastId + 1
  /\ lastId' = m
  /\ status' = [status EXCEPT ![m] = "queued"]
  /\ inserted' = inserted \cup {m}
  /\ UNCHANGED <<queue, worker, connected, airs, emitted>>

\* worker.send(mid, ...), called by the thread that inserted the row: two
\* handlers may get here in the opposite order of their INSERTs.
Enqueue(m) ==
  /\ m \in inserted
  /\ inserted' = inserted \ {m}
  /\ queue' = Append(queue, m)
  /\ UNCHANGED <<rows, worker, connected, airs, emitted>>

\* The creator raises between the two: SchedulerService.execute has one more
\* UPDATE there.  The row stays behind and nobody will enqueue it.
CreatorFails(m) ==
  /\ "db" \in Faults
  /\ m \in inserted
  /\ inserted' = inserted \ {m}
  /\ UNCHANGED <<rows, queue, worker, connected, airs, emitted>>

(***************************************************************************)
(* The worker's connection.                                                *)
(***************************************************************************)
\* run: connect_and_init succeeded.
Connect ==
  /\ pc = "offline"
  /\ pc' = "idle"
  /\ connected' = TRUE
  /\ UNCHANGED <<rows, inserted, queue, cur, ok, drained, airs, emitted>>

\* The reader thread met a serial error, or an HTTP handler closed the device.
Disconnect ==
  /\ "disconnect" \in Faults
  /\ connected
  /\ connected' = FALSE
  /\ UNCHANGED <<rows, inserted, queue, worker, airs, emitted>>

\* _poll_forever: the loop condition holds, and _poll_incoming (SmsReceive) has
\* returned; when it raises, this cycle has no drain.
BeginCycle ==
  /\ pc = "idle"
  /\ connected
  /\ pc' = "drain"
  /\ drained' = 0
  /\ UNCHANGED <<rows, inserted, queue, cur, ok, connected, airs, emitted>>

\* Variant: the loop goes on without a device.
LeaveLoopStays ==
  /\ pc = "idle"
  /\ ~connected
  /\ UNCHANGED vars

\* _poll_forever: the loop condition fails, back to connect_and_init.
LeaveLoop ==
  /\ pc = "idle"
  /\ ~connected
  /\ pc' = "offline"
  /\ UNCHANGED <<rows, inserted, queue, cur, ok, drained, connected, airs, emitted>>

(***************************************************************************)
(* _process_send_queue.                                                    *)
(***************************************************************************)
\* Variant: the entry is looked at, not taken.
PopKeepsEntry ==
  /\ pc = "drain"
  /\ drained < MaxPerCycle
  /\ queue # <<>>
  /\ cur' = Head(queue)
  /\ pc' = "popped"
  /\ UNCHANGED <<rows, inserted, queue, ok, drained, connected, airs, emitted>>

\* get_nowait.
Pop ==
  /\ pc = "drain"
  /\ drained < MaxPerCycle
  /\ queue # <<>>
  /\ cur' = Head(queue)
  /\ queue' = Tail(queue)
  /\ pc' = "popped"
  /\ UNCHANGED <<rows, inserted, ok, drained, connected, airs, emitted>>

\* queue.Empty, or the for loop is exhausted.
EndDrain ==
  /\ pc = "drain"
  /\ queue = <<>> \/ drained = MaxPerCycle
  /\ pc' = "idle"
  /\ UNCHANGED <<rows, inserted, queue, cur, ok, drained, connected, airs, emitted>>

\* The worker returns from _process_send_queue in the middle of an entry: the
\* entry was taken off the queue and is nowhere any more.
Abandon ==
  /\ pc' = "idle"
  /\ cur' = NoId
  /\ UNCHANGED <<rows, inserted, queue, ok, drained, connected, airs, emitted>>

\* "if not (self.dev and self.dev.connected): return", after get_nowait.
DropDisconnected == pc = "popped" /\ ~connected /\ Abandon

\* Variant: the row is not marked before the modem gets the message.
MarkSkipped ==
  /\ pc = "popped"
  /\ connected
  /\ pc' = "sending"
  /\ UNCHANGED <<rows, inserted, queue, cur, ok, drained, connected, airs, emitted>>

\* UPDATE messages SET status = 'sending'.
MarkSending ==
  /\ pc = "popped"
  /\ connected
  /\ status' = [status EXCEPT ![cur] = "sending"]
  /\ pc' = "sending"
  /\ UNCHANGED <<lastId, inserted, queue, cur, ok, drained, connected, airs, emitted>>

\* The UPDATE 'sending' raises: the exception reaches _poll_forever.
MarkFault == pc = "popped" /\ connected /\ "db" \in Faults /\ Abandon

\* send_sms takes the command lock and finds the device connected ...
BeginSend ==
  /\ pc = "sending"
  /\ connected
  /\ pc' = "exchange"
  /\ UNCHANGED <<rows, inserted, queue, cur, ok, drained, connected, airs, emitted>>

\* ... or raises CommandError("Device not connected").
SendRefused ==
  /\ pc = "sending"
  /\ ~connected
  /\ ok' = FALSE
  /\ pc' = "except"
  /\ UNCHANGED <<rows, inserted, queue, cur, drained, connected, airs, emitted>>

\* send_sms returns and every segment was answered OK.
SendOk ==
  /\ pc = "exchange"
  /\ airs' = [airs EXCEPT ![cur] = @ + 1]
  /\ ok' = TRUE
  /\ pc' = "record"
  /\ UNCHANGED <<rows, inserted, queue, cur, drained, connected, emitted>>

\* send_sms returns with an ERROR or a timeout ("record"), or raises ("except":
\* empty number, mode switch refused, write on a closed port).  Either way the
\* modem may already have taken the message.
SendNotOk ==
  /\ pc = "exchange"
  /\ airs' \in {airs, [airs EXCEPT ![cur] = @ + 1]}
  /\ ok' = FALSE
  /\ pc' \in {"record", "except"}
  /\ UNCHANGED <<rows, inserted, queue, cur, drained, connected, emitted>>

\* UPDATE messages SET status = 'sent' or 'failed'.
Record ==
  /\ pc = "record"
  /\ status' = [status EXCEPT ![cur] = IF ok THEN "sent" ELSE "failed"]
  /\ pc' = "emit"
  /\ UNCHANGED <<lastId, inserted, queue, cur, ok, drained, connected, airs, emitted>>

\* Variant: the outcome reported stays the modem's.
RecordFaultKeepsVerdict ==
  /\ pc = "record"
  /\ "db" \in Faults
  /\ pc' = "except"
  /\ UNCHANGED <<rows, inserted, queue, cur, ok, drained, connected, airs, emitted>>

\* That UPDATE raises inside the try block: a message the modem took is now
\* treated as one that failed.
RecordFault ==
  /\ pc = "record"
  /\ "db" \in Faults
  /\ ok' = FALSE
  /\ pc' = "except"
  /\ UNCHANGED <<rows, inserted, queue, cur, drained, connected, airs, emitted>>

\* Variant: the message is queued again after an exception.
RecordExceptionRequeues ==
  /\ pc = "except"
  /\ status' = [status EXCEPT ![cur] = "queued"]
  /\ queue' = Append(queue, cur)
  /\ pc' = "emit"
  /\ UNCHANGED <<lastId, inserted, cur, ok, drained, connected, airs, emitted>>

\* The except branch: UPDATE messages SET status = 'failed'.
RecordException ==
  /\ pc = "except"
  /\ status' = [status EXCEPT ![cur] = "failed"]
  /\ pc' = "emit"
  /\ UNCHANGED <<lastId, inserted, queue, cur, ok, drained, connected, airs, emitted>>

\* The UPDATE of the except branch raises as well and leaves the function.
ExceptionFault == pc = "except" /\ "db" \in Faults /\ Abandon

\* Variant: the worker still holds the entry when it looks for the next.
EmitKeepsEntry ==
  /\ pc = "emit"
  /\ emitted' = emitted \cup {<<cur, ok>>}
  /\ drained' = drained + 1
  /\ pc' = "drain"
  /\ UNCHANGED <<rows, inserted, queue, cur, ok, connected, airs>>

\* _emit_send_result; the callback's own exceptions are swallowed.
Emit ==
  /\ pc = "emit"
  /\ emitted' = emitted \cup {<<cur, ok>>}
  /\ cur' = NoId
  /\ drained' = drained + 1
  /\ pc' = "drain"
  /\ UNCHANGED <<rows, inserted, queue, ok, connected, airs>>

(***************************************************************************)
(* The process is killed or stopped and started again: SQLite survives, the*)
(* queue, the half-done HTTP requests and the worker's position do not.    *)
(***************************************************************************)
Crash ==
  /\ "crash" \in Faults
  /\ inserted' = {}
  /\ queue' = <<>>
  /\ pc' = "offline"
  /\ cur' = NoId
  /\ ok' = FALSE
  /\ drained' = 0
  /\ connected' = FALSE
  /\ UNCHANGED <<rows, airs, emitted>>

-----------------------------------------------------------------------------
Produce == \E m \in Ids : Insert(m) \/ Enqueue(m) \/ CreatorFails(m)

\* The worker's steps between two of its own callbacks: everything but Emit.
Drain ==
  \/ Pop \/ EndDrain \/ DropDisconnected \/ MarkSending \/ MarkFault
  \/ BeginSend \/ SendRefused \/ SendOk \/ SendNotOk
  \/ Record \/ RecordFault \/ RecordException \/ ExceptionFault

Next == Produce \/ Connect \/ Disconnect \/ BeginCycle \/ LeaveLoop \/ Drain \/ Emit \/ Crash

Spec == Init /\ [][Next]_vars

\* The worker thread keeps running, the modem answers or the wait times out,
\* the device comes back, and now and then a poll cycle reaches the drain: the
\* device stays that long and _poll_incoming before it does not raise.
WorkerFairness ==
  /\ WF_vars(Connect)
  /\ WF_vars(LeaveLoop)
  /\ SF_vars(BeginCycle)
  /\ WF_vars(Drain)
  /\ WF_vars(Emit)

\* A handler that inserted its row goes on to enqueue it.
ProducerFairness == \A m \in Ids : WF_vars(Enqueue(m))

FairSpec == Spec /\ WorkerFairness /\ ProducerFairness

-----------------------------------------------------------------------------
Statuses == {"none", "queued", "sending", "sent", "failed"}
Places == {"offline", "idle", "drain", "popped", "sending", "exchange", "record", "except", "emit"}

\* Every variable keeps its type; the worker holds an entry exactly while it is
\* between get_nowait and the end of that entry's handling.
TypeOK ==
  /\ status \in [Ids -> Statuses]
  /\ lastId \in 0 .. MaxId
  /\ inserted \subseteq Ids
  /\ queue \in Seq(Ids)
  /\ pc \in Places
  /\ cur \in Ids \cup {NoId}
  /\ cur = NoId <=> pc \in {"offline", "idle", "drain"}
  /\ ok \in BOOLEAN
  /\ drained \in 0 .. MaxPerCycle
  /\ connected \in BOOLEAN
  /\ airs \in [Ids -> Nat]
  /\ emitted \subseteq Ids \X BOOLEAN

\* A message is never put on the air twice, whatever fails and however often the
\* process restarts (the worker takes an entry off the queue before sending and
\* never puts one back).
AtMostOnce == \A m \in Ids : airs[m] <= 1

\* What the status column says of the radio: a row shown as 'queued' was never
\* given to the modem (sending it again by hand cannot duplicate it) and a row
\* shown as 'sent' was.
StatusTellsAir ==
  \A m \in Ids : /\ status[m] \in {"none", "queued"} => airs[m] = 0
                 /\ status[m] = "sent" => airs[m] = 1

\* The outcome given to on_send_result is the one the row ends with, also when
\* recording a success raised and was turned into a failure; no message is
\* reported with two outcomes.
EmittedMatchesRow ==
  \A m \in Ids, b \in BOOLEAN :
    <<m, b>> \in emitted => status[m] = IF b THEN "sent" ELSE "failed"

\* Where a row is: waiting for its creator to enqueue it, in the queue (once), in
\* the worker's hands, or in none of these; the first two hold only rows that
\* still read 'queued'.  The ids in the table are 1 .. lastId.
Placement ==
  /\ \A m \in Ids : status[m] = "none" <=> m > lastId
  /\ \A m \in inserted : status[m] = "queued"
  /\ \A i \in DOMAIN queue : status[queue[i]] = "queued" /\ queue[i] \notin inserted
  /\ \A i, j \in DOMAIN queue : queue[i] = queue[j] => i = j
  /\ cur \notin inserted
  /\ \A i \in DOMAIN queue : queue[i] # cur

\* What the worker's position says of the row it works on.
WorkerRow ==
  /\ pc = "popped" => status[cur] = "queued"
  /\ pc \in {"sending", "exchange", "record", "except"} => status[cur] = "sending"
  /\ pc = "emit" => status[cur] = IF ok THEN "sent" ELSE "failed"
  /\ pc \in {"sending", "exchange"} => airs[cur] = 0
  /\ pc = "record" /\ ok => airs[cur] = 1
  /\ pc = "except" => ~ok
  /\ cur # NoId => drained < MaxPerCycle

\* The inductive invariant: what the theorems of OutboundQueueProofs rest on.
IInv ==
  /\ TypeOK
  /\ Placement
  /\ WorkerRow
  /\ AtMostOnce
  /\ StatusTellsAir
  /\ EmittedMatchesRow

\* Every step of the queue is a step of the life cycle the API documents.
Lifecycle == INSTANCE MessageLifecycle WITH Ids <- Ids, status <- status, airs <- airs
ImplementsLifecycle == Lifecycle!LifecycleSpec

\* The worker does not wedge: an entry does not stay in the queue for ever, as
\* long as the device comes back now and then.
QueueDrains ==
  \A m \in Ids : (\E i \in DOMAIN queue : queue[i] = m) ~> ~(\E i \in DOMAIN queue : queue[i] = m)

\* README, "the status later becomes sent / failed": an accepted message is
\* resolved.  The run outbound_lost_on_disconnect shows what a disconnect does
\* to it.
QueuedIsResolved ==
  \A m \in Ids : status[m] = "queued" ~> status[m] \in {"sent", "failed"}
=============================================================================
