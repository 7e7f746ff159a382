# air780e-bridge in TLA+

air780e-bridge connects an Air780E LTE module on a serial port to HTTP clients:
it sends SMS from a queue, polls and stores the SMS it receives, runs scheduled
SMS tasks, notes incoming calls, forwards all of this to notification services
and shows it in a web console. One Python process holds several threads, one
SQLite file, one serial line and one SIM whose storage survives everything.
This directory holds TLA+ models of that program, TLC configurations that check
them on small instances, and proofs that TLAPS checks.

Contents: [system](#the-system) · [plan](#plan) · [modules](#modules-and-the-code)
· [runs](#runs) · [bounds](#bounds) · [fairness](#fairness) · [proofs](#proofs)
· [disagreements](#where-code-and-documents-disagree) · [left out](#not-modelled)

## The system

| component | code | state | operations |
|---|---|---|---|
| outbound queue and send worker | `worker.py` 427-560, 802-846; `api/messages.py` 164-180 | `messages` rows with direction `out`; `_send_queue` in memory; `dev.connected` | `POST /api/messages/send`, `connect_and_init`, poll loop, `_process_send_queue`, `POST /api/device/reconnect` |
| task scheduler | `scheduler.py`, `api/tasks.py` | `scheduled_tasks` rows; the copy of the rows a scan works on | scan, `_due`, `execute`, `trigger`, `on_send_result`, reset at start-up, CRUD |
| inbound poll | `worker.py` 299-379, 643-800 | SIM slots; `messages` rows with direction `in`; `_incomplete` | list, group, de-duplicate, store, notify, delete, track, purge |
| AT command layer | `atdevice.py` 296-557, `worker.py` 427-495 | the device objects, each with command lock, reader thread, `_current`; the lines each `CommandResult` collected; the serial buffers | `open`, `close`, `command`, `send_sms`, reader thread, `connect_and_init`, reconnect |
| incoming calls | `worker.py` 497-528, `atdevice.py` 397-422 | last caller and time | +CLIP handling with de-duplication |
| notification forwarding | `worker.py` 530-545, `forwarder.py`, `api/notify.py` | single-thread executor, `notify_configs`, `forward_logs`, Apprise cache | dispatch, forward to every config that matches, config CRUD, test |
| storage | `database.py` | one connection per thread, one write lock | execute, commit, rollback |
| setup, login, sessions | `auth.py`, `api/auth.py`, `main.py` | admin row, setup lock, failed-login counters, tokens | setup, login, change password |
| SMS codecs | `atdevice.py` 1-295, `worker.py` 90-379 | the counter of references | choose the mode, split, encode; parse, group, join |
| web console | `static/app.js` | open conversation, loaded pages | load, refresh timer, load older, send |
| queries, contacts, keys, notify configs, CLI | `api/*.py`, `cli.py` | rows | single-statement CRUD |

**Threads.** The worker thread owns the serial device: it connects, polls the
SIM, drains the send queue. A reader thread hands each serial line to the
command in progress. HTTP handlers run on threads of a pool: they insert rows,
enqueue messages, trigger tasks, ask the device questions, and close it to force
a reconnect. The scheduler thread scans tasks every half minute. One more
thread forwards notifications.

**Where they meet.** HTTP handlers and the scheduler give messages to the worker
in two steps (INSERT a row, then put its id on the queue). The worker gives
outcomes to the scheduler by the callback `on_send_result`. The worker, the
reader and HTTP handlers share the serial line under one command lock, and share
`dev.connected` under none. All of them share SQLite, one statement at a time,
with no transaction around several statements. A restart keeps SQLite and the
SIM and forgets the queue, every thread's position and `_incomplete`.

**What is hard.** The interleaving of producers, worker and scheduler between two
statements; a disconnect between a test of `dev.connected` and its use; database
errors that are caught in one place and fall through in another; a restart
between "transmitted" and "recorded"; SIM records that are met again because
their deletion failed; segments that arrive between the two listings of one
poll; answers of the module that arrive after the command gave up; a device that is
closed, lost or replaced while a thread waits inside an exchange; requests that
pass a check together before the first of them writes.
`PROJECT.json` lists each of these under "hazards", at its line.

**What makes each part correct.**

- Outbound: a message goes on the air at most once, whatever fails; `status`
  tells the truth about that; the outcome reported is the row's; entries leave
  the queue.
- Scheduler: a task's status is the outcome of its last message; outcomes are not
  reported before the task expects them; scans run due tasks only; a running
  task is settled.
- Inbound: nothing leaves the SIM before it is stored (or is given up as stale);
  rows are whole messages, in order, once; a notification is for a row, once;
  slots are freed.
- AT layer: an answer belongs to its command; OK means transmitted; no exchange
  holds the lock for ever; one thread reads the line; a lost port is noticed.
- Calls and forwarding: each target gets its notifications in order and once;
  `forward_logs` tells which were delivered; no job waits for ever.
- Storage: an `execute` takes effect at once or not at all, and a failed one leaves
  nothing for the connection's next commit.
- Setup and login: one admin under concurrent setups; tokens for committed admins
  only; the limiter refuses who failed, nobody else, and not for ever.
- Codecs: what one bridge sends, another one assembles, character for character;
  every segment fits.
- Console (not modelled): the page shows the conversation that is open, without
  gaps.

## Plan

In order. Points 1 to 11 are done; what is left is 12.

1. `MessageLifecycle`, the abstract life of one outbound message, and
   `OutboundQueue`, which implements it; `OutboundQueueProofs`.
2. `TaskScheduler`, composed with `OutboundQueue` by extension;
   `TaskSchedulerProofs`: every step of the composition is a step of
   `OutboundQueue`, so its theorems carry over.
3. `SmsReceive`: the inbound poll with the SIM and the network as environment.
4. `ATChannel`: the exchange `OutboundQueue` takes as one step.
5. `Notify`: call de-duplication, the executor, `forward` over the configs; it
   starts where `SmsReceive` ends.
6. `ATChannel` extended by several devices: open, close, the loss of the port,
   the worker's initialisation and retry; `ATChannelProofs`.
7. `NotifyProofs`.
8. `AtomicStore`, what the callers of `Database.execute` rely on, and `Storage`,
   which implements it step by step.
9. `AdminAccess`: the handlers of setup, login and change of password, over
   `Storage`; `AdminAccessProofs`, with the refinement of `AtomicStore`.
10. `PduCodec`, the pure part of the codecs, and `LongSms`, a text's way from one
    bridge to another; `PduCodecProofs` (the split, the layout of a PDU, what the
    decoders return) and `LongSmsProofs` (every PDU fits, and is read as it was sent;
    the texts arrive, as long as references are not reused under way).
11. `SmsReceiveProofs`: the safety of the inbound poll. Its properties together say
    what an abstract inbox would, so there is no module for one.
12. `ConversationView`: the console's loading of pages while the user switches
    conversations.

## Modules and the code

| module | models | state ↔ code |
|---|---|---|
| `MessageLifecycle` | what the API promises of one message | `status`, number of transmissions |
| `OutboundQueue` | producers, worker, connection, restart | `status`, `lastId`: table `messages`; `inserted`: handlers between INSERT and `worker.send`; `queue`: `_send_queue`; `pc`, `cur`, `ok`, `drained`: the worker's position and locals; `connected`: `dev.connected`; `emitted`: calls of `on_send_result` |
| `TaskScheduler` | `scheduler.py` and the task endpoints on top of it | `task`, `lastTask`: table `scheduled_tasks`; `sched`, `snapshot`: scheduler thread; `job`: `execute` in each thread; `day`: the clock |
| `SmsReceive` | `_poll_incoming` and everything it calls | `sim`: SIM slots; `archive`: `in` rows by text; `pushed`: jobs given to the executor; `pc`, `todo`, `cur`, `incomplete`, `stale`, `fresh`: locals of the poll; `tracker`: `_incomplete` |
| `ATChannel` | `ATDevice` and the worker's use of it | `ser`, `running`, `reader`, `lock`, `current`: fields of each `ATDevice`; `gone`: its port has vanished; `cmd`, `on`, `pc`: each caller; `dev`, `phase`: `worker.dev` and where `run` stands; `closing`: the reconnect endpoint in `close`; `lines`: `CommandResult.lines`; `wire`, `toModem`: serial buffers; `inHand`: the line a reader holds; `modem`: the module |
| `Notify` | `_on_incoming_call`, `_dispatch_notify`, `_run_notify_job`, `Forwarder.forward`, the config endpoints | `config`: table `notify_configs` (its filter, or off); `lastCall`: `_last_call`; `pending`: the executor's queue; `pc`, `job`, `hits`: the notification thread in `forward`; `received`: what each target was given; `logged`: table `forward_logs` |
| `AtomicStore` | what a caller of `execute` relies on | the tables; each thread's call |
| `Storage` | `Database.execute`, `row`, `rows` | `db`: the committed file; `wlock`: `_write_lock`; `tx`: each connection's open transaction; `step`, `stmt`: each thread in `execute` |
| `AdminAccess` | `api/auth.py`, the limiter, `auth.py`'s use of the table `admins` | `db`: table `admins`; `setupLock`: `_setup_lock`; `attempts`: `_LOGIN_ATTEMPTS`; `pc`, `req`: each handler; `tokens`: names a token was signed for |
| `PduCodec` | alphabets, septets, UTF-16, splitting, PDU fields, the parser | none |
| `LongSms` | `send_sms` over segments, the network, the poll's parsing, `group_pdu_parts` | `ref`: `_ref_counter`; `sending`: the loop over segments; `air`: segments in transit; `sim`: the SIM's slots; `sent`, `received`: whole texts; `redrawn`, `reused`: for the properties |
| `OutboundQueueProofs`, `TaskSchedulerProofs`, `SmsReceiveProofs`, `NotifyProofs`, `ATChannelProofs`, `AdminAccessProofs`, `PduCodecProofs`, `LongSmsProofs` | theorems | |
| `MCOutboundQueue`, `MCTaskScheduler`, `MCSmsReceive`, `MCATChannel`, `MCNotify`, `MCAdminAccess`, `MCLongSms` | instances | |

**OutboundQueue.** Each database call, the test of `dev.connected`, `send_sms`
and the callback are steps of their own, because a disconnect, another thread or
a restart can come between any two. The error paths are all there: the UPDATE
`sending` raises and the exception reaches `_poll_forever` (`MarkFault`); the
UPDATE `sent` raises inside the try block and the message counts as failed
(`RecordFault`); the UPDATE of the except branch raises too (`ExceptionFault`).
`SendNotOk` lets the module have transmitted the message although no OK came
back. One step stands for the whole of `send_sms`; that an OK belongs to this
message is what `ATChannel` examines, and there it holds up to the first timeout.
Segments of one long message are one transmission here; `LongSms` has them one by one.

**TaskScheduler** EXTENDS `OutboundQueue`. `execute()` uses its actions: its
INSERT is `Insert`, its `worker.send` is `Enqueue`, and the UPDATE between the two
is what `CreatorFails` is for. The worker's `Emit` becomes `Settle`, which updates
the task. Restart is `Crash` plus the scheduler's own loss of state. The tasks'
number, text and name have no influence and are left out; time is a count of
days. The field `seen` of an execution is what a scan's copy said of the row; only
the properties read it.

**SmsReceive.** `List` is the first CMGL with parsing and grouping. Each message
is then stored, announced and deleted slot by slot; segments may arrive at any
step. The model takes the module at the code's word: a plain CMGL lists unread
records without marking them, CMGD=1,2 removes those that are read or sent. The
order in which the messages of one listing are stored is left open. Text is an
opaque value per message, with one piece per segment, so order and mixing of
segments are visible and characters are not. Ages saturate one above the
threshold they are compared with.

**ATChannel.** The line carries what it carries: nothing in a line tells which
command it answers (the field `from` is for the properties only, no action reads
it). `Send` flushes the input buffer as `_write` does. The worker opens a device,
initialises it and polls; HTTP threads call `worker.dev`, whatever it is by then,
and close it without the lock; all devices that are open share the module's one
line. The commands of an initialisation and the CMGF switches around a PDU are
one command each. The module is external; it answers in order, may answer ERROR,
and the host may time out before it does.

**Notify.** A job is what `_dispatch_notify` submits: an SMS or a call with its
sender. `BeginJob` reads the configs once, as `forward` does, so an edit made
during a job counts from the next job on. The attempt at a target and its log row
are two steps; an exception in the second ends the job (`JobRaises`). A config
that is disabled or deleted matches nothing (`Off`); of its filters the model
keeps the set of numbers it lets pass and whether it lets every text pass, since
the text filter is ignored for calls. What a target answers is not modelled: a
refusal and a timeout are logged and not retried, like a success.

**AdminAccess.** `Storage` is instantiated with the table `admins` and the two
statements the handlers issue; a handler runs one statement at a time through it,
so whatever can happen inside `execute` (a wait for the lock, a statement or a
commit that raises, a restart) happens between the handlers' own steps. The test
of the limiter, the reading of the row, the counting of a failure and the writes
are steps of their own. A password stands for its hash.

**PduCodec, LongSms.** A character is a name; the alphabet has one for each case the
code tells apart: one septet, two septets, not in the GSM table, one and two UTF-16
units, in ASCII or not, the escape itself. The two splits are one operator over the
size of a character, as the functions differ in that only. Packing, fill bits, semi-octets, lengths
and headers are computed octet by octet, because the properties are about exactly
that. The parser is what `parse_sms_pdu` does: it tries both layouts and decides by
plausibility. Parsing is pure, so the model parses a record when it arrives. Both
decoders are functions of the position reached, over one step (`NextSeptet`,
`NextUnit`) each, and a segment takes a slot of the SIM it keeps until the poll
deletes it: this is what the proofs speak of. What
the module makes of a text it is given in TEXT mode is external.

`_ref_counter` belongs to the `ATDevice`, and `connect_and_init` makes a new one at every
connection. So `Reconnect` may draw `ref` anew between any two sends: after one that the
loss of the port has cut short (`SegmentFails`), after a restart, or after any other reconnect. Two variables that no action reads tell what that does:
`redrawn` after the first new draw, and `reused` once a message has the number, reference
and total of segments that are still on the air or in the SIM, so that `group_pdu_parts`
would put them into one bucket. The properties are stated with these.

Definitions named with a comment "Variant:" change one action or operator in the
way a plausible bug would. Nothing uses them; they show, when put in place of
the definition after them, that a property notices the bug.

## Runs

| run | shows |
|---|---|
| `outbound` | With disconnects, database errors and restarts at every step: no message is transmitted twice (`AtMostOnce`); `queued` rows were never given to the modem and `sent` rows were, once (`StatusTellsAir`); what `on_send_result` hears is the row's final status (`EmittedMatchesRow`); the abstract life cycle is implemented (`ImplementsLifecycle`); no entry stays in the queue for ever (`QueueDrains`) |
| `outbound_lost_on_disconnect` | violation of `QueuedIsResolved`: see below |
| `task_safety` | Scan, trigger, edit, delete, ordinary messages, every fault: a task shows the outcome of its last message even when executions overlap (`SettledAgreesWithMessage`); the worker is never faster than the UPDATE that makes the task expect the outcome (`MarkedBeforeReported`); a scan runs what is due when it runs it, not only when it copied the rows, unless the task is triggered by hand or gets a new interval meanwhile (`ScanRunsOnlyDueTasks`) |
| `task_settles` | No faults: a running task is settled, with overlapping executions, edits and deletion (`RunningIsSettled`) |
| `receive_once` | A two-segment SMS, a short one, one that does not parse, a leftover entry, duplicate segments and every fault, within the ten-minute window: nothing leaves the SIM before it is stored or stale (`StoredBeforeRemoved`), notifications are for rows, once (`PushedOncePerRow`), rows are whole messages in order (`OnlyWholeMessages`), once each (`StoredOnce`), and what is complete on the SIM is stored (`CompleteIsStored`) |
| `receive_frees` | Partial groups, duplicates and a leftover on a SIM of two slots, with the clock: every slot is freed (`SlotsAreFreed`) |
| `receive_drops_completed` | violation of `DroppedOnlyWhenPartial` |
| `notify` | SMS and calls of two numbers, two configs edited meanwhile, database errors, restarts: each target gets its notifications in the order of arrival and none twice (`DeliveredInOrder`); within a job no delivery follows one that has no row in `forward_logs` (`OnlyLastIsUnlogged`); no job waits for ever (`JobsAreServed`) |
| `at_line` | Two threads, two devices, errors, timeouts, an unsolicited line, a close or a loss of the port: every exchange ends (`ExchangesEnd`); a worker that polls a vanished port goes back to connecting (`LossIsNoticed`); unless an initialisation left a device open, one thread reads the line (`SingleReaderWhileInitSucceeds`), and, until the first exchange is given up, answers reach their command (`AnswersMatchUntilTimeout`) and OK means transmitted (`OkMeansAired`) |
| `at_two_readers` | violation of `SingleReader` |
| `admin` | Setups, logins and changes of password on two threads, failing statements and commits, restarts, time: one admin (`OneAdmin`), tokens for committed admins (`TokensAreForAdmins`), at most one guess per thread beyond the cap (`GuessesBounded`), only a client that failed is refused (`LockoutIsOwn`), and not for ever (`LockoutEnds`); `execute` implements the atomic store (`ImplementsAtomicStore`) |
| `long_sms` | Some 650 texts, delivered in any order and layout, from this build and from older ones, sends that stop half-way, a new device between two sends: unless a message reuses the reference of segments under way, exactly the texts that were sent as a whole are assembled (`TextsArriveWhole`); one device never reuses one (`OneDeviceNeverReuses`); every PDU fits (`SegmentsFit`) |

Each module's type invariant is checked in one run of it (the codecs keep no
state worth one). Deadlock is checked except in `notify`, the AT runs and
`long_sms`: with all `MaxJob` jobs served, all `MaxCmd` exchanges done and the line
quiet, or all messages assembled, nothing may be left to do there.

## Bounds

| bound | value | why it is enough |
|---|---|---|
| `MaxId` | 3 (2 with tasks) | order of enqueuing, one message in hand, one waiting, one not yet enqueued; with tasks, two overlapping executions |
| `MaxPerCycle` | 2 (1 with tasks) | smaller than, equal to and larger than the queue's length, so a burst takes several cycles; in the code 3 |
| `MaxTask` | 1 | tasks meet only through the id in `last_msg_id`; two executions of one task are the hard case |
| `MaxDay`, `Intervals` | 2, {1, 2} | an interval that ends on day 2 and one that is longer than the retry day: running, failed and successful tasks differ on day 2, and an edit changes what is due |
| `Slots` | 3 (2 for `receive_frees`) | leftover plus a two-segment group, or a group and a short one; with two slots the SIM is full |
| `Window`, `TTL` | 1 | ages 0, at the limit, and past it |
| `MaxCount` | 2 | "once" and "more than once" |
| `MaxCfg`, `MaxJob`, `Dedup` | 2, 3, 1 | a target before and one after the one where a job breaks off; a running job and two that wait; one repetition inside the window |
| `MaxDev`, `MaxCmd`, `MaxUpset` | 2, 2, 1 | a device and the one that replaces it; an exchange that is given up or cut off and the next one, of the same thread or the other; one unsolicited line, close or loss at any moment |
| `Threads`, `Names`, `Passwords`, `Keys` | 2 each | two setups, or a login beside a change of password; the right and a wrong password; a client and somebody else. Locks exclude any third thread as they exclude the second; the theorems are for any number |
| `MaxFails`, `Window` | 2, 1 | below, at and above the cap; inside and past the window |
| `GsmSingle`, `GsmCap`, `Ucs2Cap`, `MaxSegments`, `Octets` | 16, 9, 4, 3, 14 | in the code 160, 153, 67, 255, 140. Each fills its octets as there: 16 septets, or a header, a fill bit and 9 septets, or a header and 4 units are 14 octets exactly; so texts around each limit are short |
| `FirstRefs` | {64254} | the counter goes 254, 255 and wraps to 0 in the header. A new draw gives the same value again, the one that can repeat a reference: of the counter's values only their equality matters |

## Fairness

- Worker (`WorkerFairness`, `TaskFairness`): weak fairness for its steps. The
  thread runs until the process ends; `send_sms` and every other wait has a
  timeout. `BeginCycle` is strongly fair: now and then the device stays connected
  until the loop condition is looked at, and `_poll_incoming`, which comes before
  the queue in each cycle, does not raise every time. Nothing is assumed about how
  long the device stays connected after that.
- Producers: a handler that inserted a row reaches `worker.send` or raises.
- Scheduler: weak fairness for the thread and for a thread inside `execute`.
- Inbound poll: weak fairness for the poll and the clock; strong fairness for
  storing a given text, that is, the database does not raise every time for ever.
  Deletion errors, reconnects and restarts have no bound in `receive_once`;
  `receive_frees` has neither, because with endless reconnects `_incomplete` is
  emptied again and again and slots of partial groups are indeed kept.
- Notification thread: it runs; each delivery has a timeout.
- AT layer: the threads run, and the module answers or the wait times out. The
  worker opens the next device after the last reader has stopped: `retry_interval`
  (three seconds) is longer than a reader's read timeout (one second). One HTTP
  thread at a time is closing. Nothing makes callers start an exchange, or take the
  lock before another one does.
- Setup and login: time passes (`Tick`); that is all `LockoutEnds` needs.
- `long_sms` has no liveness property and no fairness.

## Proofs

`OutboundQueueProofs` holds, for every `MaxId` and `MaxPerCycle` in Nat and every
set `Faults` (the two assumptions of `OutboundQueue` are all that is used):

- `Invariant`: Spec => []IInv
- `TypeCorrect`, `TransmittedAtMostOnce`, `StatusIsTruthful`, `OutcomeMatchesRow`:
  the invariants of the run `outbound`
- `Refinement`: Spec => ImplementsLifecycle

None of the three safety properties is inductive. That a message is not
transmitted twice rests on where its id is: the id of a `queued` row is in one
place only, waiting for its creator, in the queue (once), or in the worker's hands
(`Placement`), and what the worker has done with the message in its hands follows
from its position (`WorkerRow`): while it has not finished the exchange the row
reads `sending` and the message has not been transmitted. `IInv` is `TypeOK`,
`Placement`, `WorkerRow` and the three properties. The lemmas follow that
division: `TypePreserved`, `PlacementPreserved` (with `PlacementFrame` for the
steps that leave queue and rows alone) and `RowsPreserved`, each with one step per
action. `StepRefines` maps every step to one of the life cycle's or to a stutter;
most of its content is that `Start` begins from `queued`, that `Air` finds the
message untransmitted, and that the two endings begin from `sending`, which is
what `IInv` knows.

`TaskSchedulerProofs` does the same for the composition, for every set of tasks,
intervals, days and calls:

- `TaskInvariant`: TaskSpec => []TInv
- `SchedulerImplementsQueue`: TaskSpec => Spec, so whatever is proved of the queue
  holds of the composition
- `TaskTypeCorrect`, `TaskShowsItsMessage`, `NoOutcomeBeforeMark`, and the action
  property `ScansRunDueTasks`: what the run `task_safety` checks

`StepOfQueue` maps each step to one of the queue's. `TInv` adds to `IInv` who owns a
message (`Ownership`: a thread inside `execute` owns the row it inserted, nobody
else enqueues it, so its outcome cannot come before the task is marked), who names
it (`Naming`: a message that is still to be written into its task is named by no
task and no copy of one, so marking makes every older copy differ from the row),
and what copies are worth (`CopiesAgree`, `ScannedIsDue`: until the task is executed
again, the row a scan read and the row in the table agree on what makes it due).
`RowEvolves` is the lemma on which the last two rest: a step keeps a row's message,
day and failure, or it is an `ExecMark` of that task.

`AdminAccessProofs` proves, for any number of threads, names, passwords and
clients, any cap and window: the invariants of the run `admin`
(`AdminTypesAndLocks`, `OneAdminAlways`, `TokensAlwaysForAdmins`,
`GuessesAlwaysBounded`, `LockoutAlwaysOwn`) and `StorageIsAtomic`, the refinement of
`AtomicStore`. `AdminInv` says, besides the
types: who holds each of the two locks, and that no transaction is open outside the
write lock (part of `AdminTypeOK`); a handler in `execute` is there with its own
statement, and its transaction holds the committed rows plus that statement and
nothing older (`CallsMatch`); a setup whose statement has not been committed is
alone and there is no admin yet (`SetupIsFirst`); the limiter counts no more than
the wrong passwords of its client since the last success (`CountsOwnFailures`), and
the count and the logins that are past its test are bounded together
(`CountsInFlight`), which is what makes `GuessesBounded` inductive.

`SmsReceiveProofs` proves, for any messages, lengths, SIM, faults and limits, what
`receive_once` checks except `CompleteIsStored`, which is liveness:

- `SmsTypeCorrect`, `NotificationsHaveRows`, and the action property
  `NothingLostUnstored`, from the assumptions of `SmsReceive` alone: the SIM has
  finitely many slots, ages and counts have bounds
- `RowsAreWholeMessages`, if no two messages share a reference (`KeysAreUnique`):
  the code joins what has the same key
- `OneRowInWindow`, if the clock stands ("tick" is not in `Events`), that is, within
  the window of `_already_stored`

`SmsInv` adds to the types that a message still to be stored or deleted has its own
segments in its slots, and no other listed message has one of them (`SlotsHeld`):
only the poll empties slots, arrivals take free ones. This is why a deletion removes
what was stored. `RowsAhead` says that a row whose notification is about to be
queued has one to its credit. That sorting a group gives the text in its order
needs no induction: a complete group has as many records as numbers and every
number occurs, so each occurs once and the order by number is the only one
(`SortedInOrder`, `JoinedInOrder`).

`NotifyProofs` proves the invariants of the run `notify` for any number of jobs and
configs. `NotifyInv` adds to them the order in which jobs wait and are taken
(`InOrderOfArrival`: what a target got is not newer than the job in work, and what
waits is newer) and what the position in `forward` says of the job in work
(`ServedInOrder`: the targets it has passed come before those it has still to
serve, and have their rows).

`ATChannelProofs` proves `ATTypeCorrect` and `OneReaderUnlessLeaked` for any number of
callers, devices and exchanges. `ATInv` adds `DevicesInTurn`: devices are opened
one after the other, callers are on the latest or an older one, and unless one was
left open a thread reads the latest only, and not after the worker has given it
up. `Exclusive` and `Holder` say what holding a lock gives; `LeavesLock` and
`StaysInside` are the two ways the steps of an exchange treat it.

On `ATInv` rests `LineInv` (`LineInvariant`), and on it the two invariants of `at_line`
about answers, `AnswersReachTheirCommand` and `AcceptedMeansAired`. An answer passes
four places, the input buffer of the module, its work, the host's input buffer and
the reader's hands, and nothing in it says whose it is. So the invariant says whose it
can be: while no exchange has gone astray (`NoneStray`: each one has its final line or
is on a device that a thread reads), everything in the four places belongs to an
awaited command (`AllAwaited`); a command is in one place only, and its final line is
the last of its lines (`OnePlace`); nothing has ended before it was written
(`Unwritten`). Then who is about to write has the line for itself (`NothingAhead`), and
who gets a line is whom it answers (`InHandFacts`). `NothingGivenUp`, the condition in
the properties, is not what the induction can use: a close that is under way breaks it
while the answers still come, and the device that is opened next could make it true
again. `NoneStray` is weaker and, once false, stays false (`StrayStays`); TLC checked
both, and `LineInv`, before they were proved. `Truthful` says that the module's OK to a
message comes after the message, so OK means transmitted where answers match.

`PduCodecProofs` is about the pure operators, for texts of any length over the
characters above, any limits above 1 and any reference, segment number and destination:

- `SplitGsm7Fits`, `SplitUcs2Fits`: the pieces of a split, joined, are the text; there
  is at least one; and none is longer than the limit once it is encoded, in septets or
  UTF-16 units. As a piece is a text of whole characters, an escape stays with the code
  behind it and a surrogate pair stays whole.
- `PackedIsUnpacked`, `Gsm7IsDecoded`, `Utf16IsDecoded`, `DigitsReadBack`: what was
  packed, encoded in either alphabet or written as semi-octets comes back.

The first two are one lemma, `SplitFits`, about any code whose characters count as many as they
become when encoded: that the two functions count what the encoders write is
`GsmSized` and `Ucs2Sized`, and it is the content: count one for an escaped character
(the variant `OneEach`) and the lemma fails. What holds after n characters is that the
pieces joined are the first n, that the closed pieces are within the limit and that
`used` is the size of the piece being filled. The induction theorems of the library
take an operator as a parameter, which no prover here can instantiate, so they are
used in the form of a set: `Induction` says that a set with 0 and the successor of each
of its numbers has all of Nat, and `Recursion` that a function defined from its value
at n - 1 exists. Joining the pieces (`FlattenSeq`, a fold) needs no more than
`FlattenAppend`, by the same two.

Septets and octets overlap by one to seven bits, and the prover knows neither shifts nor
that powers of two divide each other. So an octet is described by what it takes from two
neighbouring septets, the low bits of one and the high bits of the one before it
(`PackedAt`), for each of the seven widths (`Shifts`, `Widths`), and a septet by what it
takes from two octets (`UnpackedAt`, `IsRead`); the identities of div and mod are lemmas
about four or five numbers each. The decoders keep what they have read up to a place
and whether the element there is taken already; at the end of each character that is
the text so far (`Decoded`), which needs that no code of one septet is the escape and no
single unit is half of a pair. The rest of the module is types, lengths and places: what packing
and the semi-octets of a number return (`UnpackType`, `PackType`, `SemiOctetsType`),
where the fields of a PDU are (`LayoutOf`), that the parser finds them there once the
network has put in a time (`IsDeliver`, `Reading`), and that it finds header and text
with fill bits between them, and in what older builds packed without (`OldSegment`).

`LongSmsProofs` proves

- `FittingPdus`: Spec => []SendingInv
- `EveryPduFits`: Spec => []SegmentsFit
- `ReadAsSent`: the parser reads a PDU as it was meant, with or without the message
  centre in front; `MessageConveyed`: all segments of a message are such PDUs
- `TextsDelivered`: Readable => (Spec => []TextsArriveWhole)
- `CounterSeparates`: Readable /\ Separated => (Spec => []OneDeviceNeverReuses)

and so the three invariants of the run `long_sms`. `SegmentsFit` says nothing of the
segments that wait for their turn, so `SendingInv` does: they fit too, whichever of the modes of `send_sms` they were made in, and a send
that goes on has one left (otherwise the next step would put nothing on the air). A
text that `ascii_text_eligible` accepts is one that GSM-7 can express (`Eligible`),
which is why the septets are defined where they are used. Two assumptions are made.
`SizesAssumption` is the arithmetic the limits were chosen by (a full message, or a
header and a full segment, fit the user data; counts fit an octet): it holds for the
160, 153, 67 and 140 of the code as for the smaller sizes of the run.
`OffersAssumption` gives a number at most 255 digits, as the length of an address is one
octet (`SendIn`, in `api/messages.py`, takes 40 characters), and lets older builds send
only what GSM-7 has.

That whole texts arrive, and nothing else, is a statement about where each segment is.
As long as nothing is `reused`, `DeliveryInv` says that there is, for the messages taken
up and not refused (`Taken`, their offers and references), a count of the segments of each that went out, a message
and a segment for each slot of the SIM, and a set of assembled messages, such that: what
is still to be submitted is the rest of the last message (`Progress`); a slot holds what
its segment is parsed to, no two the same segment (`Stored`); a segment that went out is
on the air or in a slot, never both, or its message was assembled (`Airborne`); the
assembled messages went out as a whole and are what was received (`Assembled`); once
the SIM was listed each other message lacks a segment (`Lacking`); and no message is like
an earlier one that is still under way (`Unmixed`: two are `Alike` with the same number,
reference and total). All of it is needed
for one conclusion, `PollDoes`: a bucket with as many records as its header says, and with
all the places, is a whole message, because no place of one can be there twice and
nobody else's record can be in the bucket. The witnesses are no variables of the model,
so TLC cannot evaluate `DeliveryInv` and checks only what it implies; each action has
a lemma that names the next ones (`SendSmsDelivers`, `SubmitDelivers`, `ArriveDelivers`,
`PollDelivers`).

`Unmixed` is where `~reused` comes in: a new message is unlike everything that is on the
air or in a slot, by the guard of `Reuses`, and every earlier message that went out and was
not assembled has a segment in one of these places (`StartedApart`). The theorem does
not ask where references come from: it bounds neither the messages nor the times the
counter is drawn again. It is no promise that references differ.

That is `CounterSeparates`. While there was no new draw the counter grows by one at most
for each message and is never set back, so it is at most 255 steps past the reference of any
earlier one, from any start and over the wrap (`Counted`, kept by `CountedOne`); no two
messages are then alike (`Apart`), and a message that is not like an earlier one
reuses nothing. After a new draw nothing of the kind holds, nor is it true of the code.

What the messages must be like is the hypotheses' business. The run's are as they ask
(`OffersAreReadable` in `MCLongSms`, which TLC evaluates). `Readable` is about each by
itself:

- An older build's text has at most 127 segments, which a septet can count.
- A message without a header has no second reading (`Unmistakable`). Listed without the
  message centre, its first octet is 0, and `parse_sms_pdu` first tries what follows as
  if 0 were the length of an absent centre. The number of digits is then read as the
  type of message, so it is not one unless that is a multiple of 4
  (`UnmistakableDigits`); if it is, the octets of the text decide, which must not have
  something like a time where one would be. With a header the first octet is 64 and the
  question does not arise.

`Separated`, which only `CounterSeparates` needs, is about all of them:

- There are at most 256. A reference is an octet and the model forgets nothing: the
  257th long message to one number may have the reference of a segment that has been
  under way since the first.
- An older build counts by itself, in a septet: it has another number than any other
  message.

Every safety and action property that a passing run checks is the statement of a theorem.
Only model-checked is liveness (`QueueDrains`, `RunningIsSettled`, `CompleteIsStored`,
`SlotsAreFreed`, `ExchangesEnd`, `LossIsNoticed`, `JobsAreServed`, `LockoutEnds`), which
is beyond the prover.

## Where code and documents disagree

With a run:

- **A popped message is lost at a disconnect** (`outbound_lost_on_disconnect`).
  `_process_send_queue` takes the entry, then tests the connection and returns.
  The row stays `queued` and nobody sends it, though the repository's README says
  the status later becomes sent or failed.
- **A completed group is dropped** (`receive_drops_completed`). A segment that
  arrives between the listing that finds its group stale and the second listing
  does not save the group: the other segments are deleted.
- **Two threads read the line** (`at_two_readers`). `connect_and_init` raises when the
  module refuses a command and `run` retries without closing the device: its reader
  goes on, beside the reader of the next device. `atdevice.py:4` speaks of a single
  reader thread.

Met while modelling, visible in the models, without a run of their own:

- The late answer of a command that was given up, or whose device was closed, is
  taken for the answer of the next (`atdevice.py:6`: "responses never interleave");
  `AnswersMatchUntilTimeout` says that this is the only way.
- A task left running is not due after a restart: the reset writes `never` into
  `last_status`, and `_due` looks at `last_run_at` first (`scheduler.py:35` says it
  will be).
- A database error in that reset ends the scheduler thread (`BootFault`).
- A locked-out client waits until the ten-minute window that began with its first
  failure has passed; `docs/API.md:165` and `_LOGIN_BLOCK`, which nothing reads, say
  two minutes.
- The limiter is passed by every login that was tested before the failure that
  closes it is counted: one more guess per thread (`GuessesBounded`).
- `_GSM7_BASIC` has "é" at 5 and again at 30, where GSM 03.38 has "ß". "é" is
  encoded as 30 there, but a text with "é" never goes out in GSM-7.
- `pdu_address` drops `*` and `#` from a number.
- A PDU listed without its message centre, from a number whose count of digits is a
  multiple of 4, may be read in the wrong layout if its text has something like a time
  at the right place (`Unmistakable` excepts it).
- Sixteen-bit references (a header of length 6) are not recognised, and a UCS2
  header is always taken to be six octets.
- A text of 68 to 70 UTF-16 units, which would fit one message, is sent as two.
- A sender that is not a number becomes the empty string.
- Links that reconnect once a day never purge partial groups: `_incomplete` is
  emptied at each reconnect.
- A task triggered by hand after a scan copied its row is run again by that scan
  (`ScanRunsOnlyDueTasks` has to except it).
- A second copy of one segment makes a complete group count as incomplete until it
  is dropped (`CompleteIsStored` has to except it).
- A record whose deletion keeps failing for more than ten minutes is stored and
  announced again (`StoredOnce` is checked within the window).
- Segments of two messages with the same sender, reference and length may be
  joined. The reference has eight bits and its counter starts anywhere at each
  connection: when a long message breaks off with the port, the next one to the same
  number may get its reference. Without the exception in `TextsArriveWhole` TLC finds a
  text received that is half of each, after a `Reconnect`. (The instances of
  `SmsReceive` give each message a reference of its own.)
- A record that does not parse is never deleted (`SlotsAreFreed` is checked without
  one), and while it is there CMGD=1,2 is not issued.
- The 24 hours of a partial group run from its first sighting, although a segment
  may have arrived since; the comment says "unchanged".
- Calls of two numbers that alternate are all announced: `_last_call` holds one
  number, while the README speaks of each caller.
- `calls_total` counts the rows of `forward_logs` whose channel is `call`; `forward`
  writes the type of the config there, which is never `call`.
- An unsolicited line between the final OK and the end of the exchange makes the
  command look failed, since `CommandResult.ok` looks at the last line.

## Not modelled

- The web console (`static/app.js`): a browser's answers out of order; planned as
  `ConversationView`.
- The CRUD endpoints, queries and statistics, API keys: single statements on tables
  nothing else reacts to. What an edit of a task or a config does to the threads
  that use them is in `TaskScheduler` and `Notify`.
- Of forwarding: the URLs of the targets, the cache of Apprise objects, the test
  endpoint's log row, the 180-day pruning.
- Of the AT layer: echo lines, the probing of several ports, the signal and network
  queries, whose answers nothing reacts to.
- Of storage: the schema script, and a `rollback` that raises itself (the code
  swallows it).
- Of login: hashing, signing and the expiry of a token, the form of a name.
- Of the codecs: alphanumeric senders, 8-bit data, the text of a time stamp, the
  framing of a CMGL listing, the letters of the GSM table beyond one for each case.
- Configuration, CLI, schemas and translations have no behaviour over time; Apprise,
  SQLite, the signing and hashing libraries are external.

`OutboundQueue`, `TaskScheduler`, `SmsReceive` and `Notify` take one `execute` as one
atomic step that happens or raises: `ImplementsAtomicStore` is what allows that.
Switching between text and PDU mode (`AT+CMGF`) has no effect in the models other
than being one more command that may fail.
