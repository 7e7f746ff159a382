---------------------------- MODULE TaskScheduler ----------------------------
(***************************************************************************)
(* Scheduled SMS tasks on top of the outbound queue.  The scheduler thread *)
(* scans the enabled tasks and executes the due ones; POST .../trigger     *)
(* executes a task on an HTTP thread, at the same time if it likes.        *)
(* execute() is three separate calls: INSERT the message, UPDATE the task  *)
(* to 'running' with last_msg_id, worker.send.  The worker's on_send_result*)
(* settles the task whose last_msg_id is the message that ended.           *)
(*                                                                         *)
(* Time is a day counter: every duration in the code that matters here is  *)
(* a whole number of days.                                                 *)
(***************************************************************************)
EXTENDS OutboundQueue

CONSTANTS MaxTask,      \* bound on the tasks ever created
          Intervals,    \* values of interval_days that occur
          MaxDay,       \* bound on the days that pass
          Calls         \* requests that occur: subset of {"create", "edit", "trigger", "send"}

ASSUME MaxTaskAssumption == MaxTask \in Nat
ASSUME MaxDayAssumption == MaxDay \in Nat \ {0}
ASSUME IntervalsAssumption == Intervals \subseteq Nat \ {0}

TaskIds == 1 .. MaxTask
Never == 0              \* last_run_at IS NULL; days count from 1
Scanner == "scanner"
Threads == {Scanner, "http"}

VARIABLES
  day,        \* the clock
  task,       \* scheduled_tasks: the rows by id
  lastTask,   \* AUTOINCREMENT counter of scheduled_tasks
  sched,      \* scheduler thread: "boot", "wait", "scan", or "dead"
  snapshot,   \* ids and rows of _scan's result still to be looked at
  job         \* execute() in each thread: step, task and message

taskVars == <<day, task, lastTask, sched, snapshot, job>>
allVars == <<vars, taskVars>>

Row == [enabled : {0, 1}, interval : Intervals, lastRun : 0 .. MaxDay,
        lastStatus : {"never", "running", "success", "failed"}, lastMsg : Ids \cup {NoId}]
Unseen == [lastMsg |-> NoId, interval |-> 0]
Idle == [step |-> "idle", task |-> 0, seen |-> Unseen, mid |-> NoId]
\* execute(task).  Until the task is marked, seen keeps what a scan's copy said, for
\* the properties to compare.
Start(t, seen) == [step |-> "insert", task |-> t, seen |-> seen, mid |-> NoId]
Seen(row) == [lastMsg |-> row.lastMsg, interval |-> row.interval]
Exists(t) == t \in DOMAIN task

\* Rows whose creator is a thread inside execute().
Held == {job[th].mid : th \in Threads}

-----------------------------------------------------------------------------
TaskInit ==
  /\ Init
  /\ day = 1
  /\ task = <<>>
  /\ lastTask = 0
  /\ sched = "boot"
  /\ snapshot = {}
  /\ job = [th \in Threads |-> Idle]

\* Variant: whatever is not a success is retried after a day.
DueUnlessSuccess(row) ==
  \/ row.lastRun = Never
  \/ day - row.lastRun >= IF row.lastStatus # "success" THEN 1 ELSE row.interval

\* _due.  last_run_at is looked at first, whatever last_status is.
Due(row) ==
  \/ row.lastRun = Never
  \/ day - row.lastRun >= IF row.lastStatus = "failed" THEN 1 ELSE row.interval

(***************************************************************************)
(* The task endpoints.                                                     *)
(***************************************************************************)
CreateTask ==
  /\ "create" \in Calls
  /\ lastTask < MaxTask
  /\ lastTask' = lastTask + 1
  /\ \E e \in {0, 1}, i \in Intervals :
       task' = [t \in DOMAIN task \cup {lastTask + 1} |->
                  IF Exists(t) THEN task[t]
                  ELSE [enabled |-> e, interval |-> i, lastRun |-> Never,
                        lastStatus |-> "never", lastMsg |-> NoId]]
  /\ UNCHANGED <<vars, day, sched, snapshot, job>>

UpdateTask(t) ==
  /\ "edit" \in Calls
  /\ Exists(t)
  /\ \E e \in {0, 1}, i \in Intervals :
       task' = [task EXCEPT ![t].enabled = e, ![t].interval = i]
  /\ UNCHANGED <<vars, day, lastTask, sched, snapshot, job>>

DeleteTask(t) ==
  /\ "edit" \in Calls
  /\ Exists(t)
  /\ task' = [u \in DOMAIN task \ {t} |-> task[u]]
  /\ UNCHANGED <<vars, day, lastTask, sched, snapshot, job>>

\* trigger(): the row is read, then executed, whatever its state.
Trigger(t) ==
  /\ "trigger" \in Calls
  /\ Exists(t)
  /\ job["http"] = Idle
  /\ job' = [job EXCEPT !["http"] = Start(t, Unseen)]
  /\ UNCHANGED <<vars, day, task, lastTask, sched, snapshot>>

(***************************************************************************)
(* The scheduler thread.                                                   *)
(***************************************************************************)
\* run: tasks left 'running' by a previous incarnation become 'never'.
ResetRunning ==
  /\ sched = "boot"
  /\ sched' = "wait"
  /\ task' = [t \in DOMAIN task |->
                IF task[t].lastStatus = "running"
                  THEN [task[t] EXCEPT !.lastStatus = "never"] ELSE task[t]]
  /\ UNCHANGED <<vars, day, lastTask, snapshot, job>>

\* That UPDATE stands outside any try block: if it raises, the thread ends.
BootFault ==
  /\ sched = "boot"
  /\ "db" \in Faults
  /\ sched' = "dead"
  /\ UNCHANGED <<vars, day, task, lastTask, snapshot, job>>

\* _scan: SELECT * FROM scheduled_tasks WHERE enabled = 1 ORDER BY id.
BeginScan ==
  /\ sched = "wait"
  /\ sched' = "scan"
  /\ snapshot' = {[id |-> t, row |-> task[t]] : t \in {u \in DOMAIN task : task[u].enabled = 1}}
  /\ UNCHANGED <<vars, day, task, lastTask, job>>

\* The next row of the snapshot: executed when due, judged by the copy.
ScanRow ==
  /\ sched = "scan"
  /\ job[Scanner] = Idle
  /\ \E e \in snapshot :
       /\ \A x \in snapshot : e.id <= x.id
       /\ snapshot' = snapshot \ {e}
       /\ job' = IF Due(e.row) THEN [job EXCEPT ![Scanner] = Start(e.id, Seen(e.row))] ELSE job
  /\ UNCHANGED <<vars, day, task, lastTask, sched>>

EndScan ==
  /\ sched = "scan"
  /\ job[Scanner] = Idle
  /\ snapshot = {}
  /\ sched' = "wait"
  /\ UNCHANGED <<vars, day, task, lastTask, snapshot, job>>

(***************************************************************************)
(* execute(), on either thread.                                            *)
(***************************************************************************)
\* Variant: the message is queued before the task is marked.
ExecInsertSends(th) ==
  /\ job[th].step = "insert"
  /\ lastId < MaxId
  /\ lastId' = lastId + 1
  /\ status' = [status EXCEPT ![lastId'] = "queued"]
  /\ queue' = Append(queue, lastId')
  /\ job' = [job EXCEPT ![th].step = "mark", ![th].mid = lastId']
  /\ UNCHANGED <<inserted, worker, connected, airs, emitted, day, task, lastTask, sched, snapshot>>

\* db.execute("INSERT INTO messages ..."), as in the API handler.
ExecInsert(th) ==
  /\ job[th].step = "insert"
  /\ \E m \in Ids : Insert(m) /\ job' = [job EXCEPT ![th].step = "mark", ![th].mid = m]
  /\ UNCHANGED <<day, task, lastTask, sched, snapshot>>

\* Variant: last_msg_id is not updated.
ExecMarkForgetsMessage(th) ==
  LET t == job[th].task IN
  /\ job[th].step = "mark"
  /\ task' = IF Exists(t)
               THEN [task EXCEPT ![t].lastRun = day, ![t].lastStatus = "running"]
               ELSE task
  /\ job' = [job EXCEPT ![th].step = "send", ![th].seen = Unseen]
  /\ UNCHANGED <<vars, day, lastTask, sched, snapshot>>

\* UPDATE scheduled_tasks SET last_run_at, 'running', last_msg_id: no row is
\* touched when the task was deleted meanwhile.
ExecMark(th) ==
  LET t == job[th].task IN
  /\ job[th].step = "mark"
  /\ task' = IF Exists(t)
               THEN [task EXCEPT ![t].lastRun = day, ![t].lastStatus = "running", ![t].lastMsg = job[th].mid]
               ELSE task
  /\ job' = [job EXCEPT ![th].step = "send", ![th].seen = Unseen]
  /\ UNCHANGED <<vars, day, lastTask, sched, snapshot>>

ExecSend(th) ==
  /\ job[th].step = "send"
  /\ Enqueue(job[th].mid)
  /\ job' = [job EXCEPT ![th] = Idle]
  /\ UNCHANGED <<day, task, lastTask, sched, snapshot>>

\* INSERT or UPDATE raises.  On the scheduler thread the exception ends the
\* whole scan; a message already inserted is left behind.
ExecFault(th) ==
  /\ \/ "db" \in Faults /\ job[th].step = "insert" /\ UNCHANGED vars
     \/ job[th].step = "mark" /\ CreatorFails(job[th].mid)
  /\ job' = [job EXCEPT ![th] = Idle]
  /\ IF th = Scanner THEN sched' = "wait" /\ snapshot' = {} ELSE UNCHANGED <<sched, snapshot>>
  /\ UNCHANGED <<day, task, lastTask>>

(***************************************************************************)
(* The worker reports a message: on_send_result.                           *)
(***************************************************************************)
\* Variant: every running task is settled, whichever message ended.
SettledByStatus ==
  [t \in DOMAIN task |->
     IF task[t].lastStatus = "running"
       THEN [task[t] EXCEPT !.lastStatus = IF ok THEN "success" ELSE "failed"] ELSE task[t]]

\* Variant: the task is given the status of the message.
SettledAsMessage ==
  [t \in DOMAIN task |->
     IF task[t].lastMsg = cur
       THEN [task[t] EXCEPT !.lastStatus = status[cur]] ELSE task[t]]

\* UPDATE scheduled_tasks SET last_status WHERE last_msg_id = the message.
Settled ==
  [t \in DOMAIN task |->
     IF task[t].lastMsg = cur
       THEN [task[t] EXCEPT !.lastStatus = IF ok THEN "success" ELSE "failed"] ELSE task[t]]

\* The callback's UPDATE may raise; the worker swallows that.
Settle ==
  /\ Emit
  /\ task' = Settled \/ ("db" \in Faults /\ UNCHANGED task)
  /\ UNCHANGED <<day, lastTask, sched, snapshot, job>>

-----------------------------------------------------------------------------
\* The steps of the outbound path that do not concern tasks: POST
\* /api/messages/send and the worker.
SendRequest ==
  /\ "send" \in Calls
  /\ \E m \in Ids : Insert(m) \/ (m \notin Held /\ Enqueue(m))

WorkerStep == Connect \/ Disconnect \/ BeginCycle \/ LeaveLoop \/ Drain
OutboundStep == (SendRequest \/ WorkerStep) /\ UNCHANGED taskVars

\* The whole process restarts; the tables survive.
Restart ==
  /\ Crash
  /\ sched' = "boot"
  /\ snapshot' = {}
  /\ job' = [th \in Threads |-> Idle]
  /\ UNCHANGED <<day, task, lastTask>>

Tick ==
  /\ day < MaxDay
  /\ day' = day + 1
  /\ UNCHANGED <<vars, task, lastTask, sched, snapshot, job>>

SchedulerStep == ResetRunning \/ BeginScan \/ ScanRow \/ EndScan
ExecStep(th) == ExecInsert(th) \/ ExecMark(th) \/ ExecSend(th)

TaskNext ==
  \/ CreateTask \/ \E t \in TaskIds : UpdateTask(t) \/ DeleteTask(t) \/ Trigger(t)
  \/ SchedulerStep \/ BootFault
  \/ \E th \in Threads : ExecStep(th) \/ ExecFault(th)
  \/ OutboundStep \/ Settle \/ Restart \/ Tick

TaskSpec == TaskInit /\ [][TaskNext]_allVars

\* The worker as in OutboundQueue; the scheduler thread and a thread inside
\* execute() keep running, except that a scan that would insert more rows than
\* MaxId allows stops there (a bound of the model, not of the code).
TaskFairness ==
  /\ WF_allVars(Connect /\ UNCHANGED taskVars)
  /\ WF_allVars(LeaveLoop /\ UNCHANGED taskVars)
  /\ SF_allVars(BeginCycle /\ UNCHANGED taskVars)
  /\ WF_allVars(Drain /\ UNCHANGED taskVars)
  /\ WF_allVars(Settle)
  /\ WF_allVars(SchedulerStep)
  /\ \A th \in Threads : WF_allVars(ExecStep(th))
  /\ \A m \in Ids : WF_allVars(m \notin Held /\ Enqueue(m) /\ UNCHANGED taskVars)

FairTaskSpec == TaskSpec /\ TaskFairness

-----------------------------------------------------------------------------
TaskTypeOK ==
  /\ TypeOK
  /\ day \in 1 .. MaxDay
  /\ DOMAIN task \subseteq TaskIds
  /\ task \in [DOMAIN task -> Row]
  /\ lastTask \in 0 .. MaxTask
  /\ sched \in {"boot", "wait", "scan", "dead"}
  /\ snapshot \subseteq [id : TaskIds, row : Row]
  /\ job \in [Threads -> [step : {"idle", "insert", "mark", "send"},
                          task : TaskIds \cup {0}, mid : Ids \cup {NoId},
                          seen : [lastMsg : Ids \cup {NoId}, interval : Intervals \cup {0}]]]

\* The status a task shows is the one of the message it sent last, also when
\* two executions of the same task overlap: their outcomes do not mix.
SettledAgreesWithMessage ==
  \A t \in DOMAIN task :
    /\ task[t].lastStatus = "success" => status[task[t].lastMsg] = "sent"
    /\ task[t].lastStatus = "failed"  => status[task[t].lastMsg] = "failed"

\* The outcome of a message is not reported before the UPDATE that installs it
\* as last_msg_id: the worker can never be faster than execute(), or the task
\* would stay 'running' until the next restart.
MarkedBeforeReported ==
  \A th \in Threads, b \in BOOLEAN :
    job[th].step = "mark" => <<job[th].mid, b>> \notin emitted

\* The due rule of the module's docstring (scheduler.py, lines 3-6).
DocumentedDue(row) ==
  \/ row.lastRun = Never
  \/ day - row.lastRun >= row.interval
  \/ row.lastStatus = "failed" /\ day - row.lastRun >= 1

\* A scan runs a task only when the rule says so of the row as it is when the
\* scan marks it, not only of the copy it took: no task runs twice in its
\* interval, and no outcome that arrives in between makes the copy wrong.  Only
\* another execution since the copy, by POST .../trigger, or a new interval can.
ScanRunsOnlyDueTasks ==
  [][LET j == job[Scanner] IN
     /\ j.step = "mark" /\ job'[Scanner].step = "send"
     /\ Exists(j.task) /\ Seen(task[j.task]) = j.seen
     => DocumentedDue(task[j.task])]_allVars

(***************************************************************************)
(* The inductive invariant: what the theorems of TaskSchedulerProofs rest  *)
(* on, besides IInv of the outbound queue.                                 *)
(***************************************************************************)
Inside(th) == job[th].step \in {"mark", "send"}

\* The row a thread inserted inside execute() is its own until it enqueues it.
Ownership ==
  /\ \A th \in Threads : Inside(th) => job[th].mid \in inserted
  /\ \A th, u \in Threads : Inside(th) /\ Inside(u) /\ th # u => job[th].mid # job[u].mid

\* A message that a task, or a copy of one, names was inserted; one that is still
\* to be written into its task is not named.
Named(m) ==
  \/ \E t \in DOMAIN task : task[t].lastMsg = m
  \/ \E e \in snapshot : e.row.lastMsg = m
  \/ \E th \in Threads : job[th].seen.lastMsg = m

Naming ==
  /\ \A m \in Ids : Named(m) => status[m] # "none"
  /\ \A th \in Threads : job[th].step = "mark" => ~Named(job[th].mid)

\* A settled task names a message.
SettledIsNamed ==
  \A t \in DOMAIN task : task[t].lastStatus \in {"success", "failed"} => task[t].lastMsg \in Ids

\* Ids of tasks are not used twice.
TaskIdsInUse ==
  /\ DOMAIN task \subseteq 1 .. lastTask
  /\ \A e \in snapshot : e.id \in 1 .. lastTask
  /\ \A th \in Threads : job[th].task \in 0 .. lastTask

\* A copy is as good as the row until the task is executed again.
CopiesAgree ==
  \A e \in snapshot :
    Exists(e.id) /\ task[e.id].lastMsg = e.row.lastMsg =>
      /\ task[e.id].lastRun = e.row.lastRun
      /\ e.row.lastStatus = "failed" => task[e.id].lastStatus = "failed"

\* What a scan is about to mark is due, by the interval the scan read.
ScannedIsDue ==
  LET j == job[Scanner] IN
  j.step \in {"insert", "mark"} /\ Exists(j.task) /\ task[j.task].lastMsg = j.seen.lastMsg =>
    DocumentedDue([task[j.task] EXCEPT !.interval = j.seen.interval])

TInv ==
  /\ IInv
  /\ TaskTypeOK
  /\ Ownership
  /\ Naming
  /\ SettledAgreesWithMessage /\ SettledIsNamed
  /\ TaskIdsInUse
  /\ CopiesAgree
  /\ ScannedIsDue

\* A task that runs is settled: the outcome of its message arrives.
RunningIsSettled ==
  \A t \in TaskIds :
    (Exists(t) /\ task[t].lastStatus = "running")
      ~> (~Exists(t) \/ task[t].lastStatus \in {"success", "failed"})
=============================================================================
