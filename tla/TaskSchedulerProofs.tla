------------------------- MODULE TaskSchedulerProofs -------------------------
(***************************************************************************)
(* Theorems of TaskScheduler, for every number of messages, tasks and days *)
(* and every set of intervals, faults and calls.  Each step of the         *)
(* composition is a step of the outbound queue, so what is proved of the   *)
(* queue holds here too; TInv adds what the scheduler contributes.         *)
(***************************************************************************)
EXTENDS TaskScheduler, OutboundQueueProofs

-----------------------------------------------------------------------------
(***************************************************************************)
(* The composition implements the queue.                                   *)
(***************************************************************************)
LEMMA QueueInvariantStep == IInv /\ [Next]_vars => IInv'
  BY TypePreserved, PlacementPreserved, RowsPreserved DEF IInv

\* What the scheduler and the task endpoints do is, for the queue, a step of a
\* producer, the worker's Emit, a crash, or nothing.
LEMMA StepOfQueue == IInv /\ TaskTypeOK /\ [TaskNext]_allVars => [Next]_vars
  <1>. SUFFICES ASSUME IInv, TaskTypeOK, [TaskNext]_allVars PROVE [Next]_vars
    OBVIOUS
  <1>1. CASE \/ CreateTask \/ \E t \in TaskIds : UpdateTask(t) \/ DeleteTask(t) \/ Trigger(t)
             \/ SchedulerStep \/ BootFault \/ Tick
    BY <1>1 DEF CreateTask, UpdateTask, DeleteTask, Trigger, SchedulerStep, ResetRunning, BeginScan,
                ScanRow, EndScan, BootFault, Tick
  <1>2. ASSUME NEW th \in Threads, ExecInsert(th) PROVE [Next]_vars
    BY <1>2 DEF ExecInsert, Next, Produce
  <1>3. ASSUME NEW th \in Threads, ExecMark(th) PROVE UNCHANGED vars
    BY <1>3 DEF ExecMark
  <1>4. ASSUME NEW th \in Threads, ExecSend(th) PROVE [Next]_vars
    <2>1. Enqueue(job[th].mid) /\ job[th].mid \in Ids
      BY <1>4 DEF ExecSend, Enqueue, IInv, TypeOK
    <2>. QED
      BY <2>1 DEF Next, Produce
  <1>5. ASSUME NEW th \in Threads, ExecFault(th) PROVE [Next]_vars
    <2>1. UNCHANGED vars \/ (CreatorFails(job[th].mid) /\ job[th].mid \in Ids)
      BY <1>5 DEF ExecFault, CreatorFails, IInv, TypeOK
    <2>. QED
      BY <2>1 DEF Next, Produce
  <1>6. CASE OutboundStep
    BY <1>6 DEF OutboundStep, SendRequest, WorkerStep, Next, Produce
  <1>7. CASE Settle \/ Restart
    BY <1>7 DEF Settle, Restart, Next
  <1>8. CASE UNCHANGED allVars
    BY <1>8 DEF allVars
  <1>. QED
    BY <1>1, <1>2, <1>3, <1>4, <1>5, <1>6, <1>7, <1>8 DEF TaskNext, ExecStep

\* A row once inserted stays in the table, and a final status stays.
LEMMA StatusIsStable ==
  ASSUME IInv, [Next]_vars, NEW m \in Ids
  PROVE  /\ status[m] # "none" => status'[m] # "none"
         /\ status[m] \in {"sent", "failed"} => status'[m] = status[m]
  <1>. USE DEF IInv, TypeOK, rows, worker
  <1>1. ASSUME NEW n \in Ids, Insert(n) PROVE status[n] = "none" /\ status' = [status EXCEPT ![n] = "queued"]
    BY <1>1 DEF Insert, Placement, Ids
  <1>2. CASE MarkSending \/ Record \/ RecordException
    <2>1. cur \in Ids /\ status[cur] \in {"queued", "sending"}
      BY <1>2 DEF MarkSending, Record, RecordException, WorkerRow
    <2>2. \E s \in {"sending", "sent", "failed"} : status' = [status EXCEPT ![cur] = s]
      BY <1>2 DEF MarkSending, Record, RecordException
    <2>. QED
      BY <2>1, <2>2
  <1>3. ASSUME NEW n \in Ids, Enqueue(n) \/ CreatorFails(n) PROVE UNCHANGED status
    BY <1>3 DEF Enqueue, CreatorFails
  <1>4. CASE Connect \/ Disconnect \/ BeginCycle \/ LeaveLoop \/ Pop \/ EndDrain \/ Emit \/ Crash
    BY <1>4 DEF Connect, Disconnect, BeginCycle, LeaveLoop, Pop, EndDrain, Emit, Crash
  <1>5. CASE \/ DropDisconnected \/ MarkFault \/ ExceptionFault \/ BeginSend \/ SendRefused
             \/ SendOk \/ SendNotOk \/ RecordFault
    BY <1>5 DEF DropDisconnected, MarkFault, ExceptionFault, Abandon, BeginSend, SendRefused,
                SendOk, SendNotOk, RecordFault
  <1>6. CASE UNCHANGED vars
    BY <1>6 DEF vars
  <1>. QED
    BY <1>1, <1>2, <1>3, <1>4, <1>5, <1>6 DEF Next, Produce, Drain

-----------------------------------------------------------------------------
(***************************************************************************)
(* Types.                                                                  *)
(***************************************************************************)
TaskTypes ==
  /\ day \in 1 .. MaxDay
  /\ DOMAIN task \subseteq TaskIds
  /\ task \in [DOMAIN task -> Row]
  /\ lastTask \in 0 .. MaxTask
  /\ sched \in {"boot", "wait", "scan", "dead"}
  /\ snapshot \subseteq [id : TaskIds, row : Row]

JobType == [step : {"idle", "insert", "mark", "send"}, task : TaskIds \cup {0}, mid : Ids \cup {NoId},
            seen : [lastMsg : Ids \cup {NoId}, interval : Intervals \cup {0}]]

LEMMA IdleIsAJob == Idle \in JobType /\ Unseen \in [lastMsg : Ids \cup {NoId}, interval : Intervals \cup {0}]
  BY DEF Idle, Unseen, JobType

\* The UPDATEs of a task's row keep its type.
LEMMA RowEdited ==
  ASSUME NEW r \in Row, NEW e \in {0, 1}, NEW i \in Intervals
  PROVE  [r EXCEPT !.enabled = e, !.interval = i] \in Row
  BY DEF Row

LEMMA RowMarked ==
  ASSUME NEW r \in Row, NEW d \in 0 .. MaxDay, NEW m \in Ids \cup {NoId}
  PROVE  [r EXCEPT !.lastRun = d, !.lastStatus = "running", !.lastMsg = m] \in Row
  BY DEF Row

LEMMA RowSettled ==
  ASSUME NEW r \in Row, NEW st \in {"never", "success", "failed"}
  PROVE  [r EXCEPT !.lastStatus = st] \in Row
  BY DEF Row

LEMMA TaskTypesPreserved == TaskTypeOK /\ IInv /\ [TaskNext]_allVars => TaskTypes'
  <1>. SUFFICES ASSUME TaskTypeOK, IInv, [TaskNext]_allVars PROVE TaskTypes'
    OBVIOUS
  <1>. USE MaxTaskAssumption, MaxDayAssumption, IntervalsAssumption DEF TaskTypeOK, TaskTypes, Exists, TaskIds, taskVars
  <1>1. CASE CreateTask
    <2>1. PICK e \in {0, 1}, i \in Intervals :
            task' = [t \in DOMAIN task \cup {lastTask + 1} |->
                       IF Exists(t) THEN task[t]
                       ELSE [enabled |-> e, interval |-> i, lastRun |-> Never,
                             lastStatus |-> "never", lastMsg |-> NoId]]
      BY <1>1 DEF CreateTask
    <2>2. [enabled |-> e, interval |-> i, lastRun |-> Never, lastStatus |-> "never", lastMsg |-> NoId] \in Row
      BY DEF Row, Never
    <2>3. task' \in [DOMAIN task' -> Row]
      BY <2>1, <2>2
    <2>4. DOMAIN task' \subseteq TaskIds /\ lastTask' \in 0 .. MaxTask
      BY <1>1, <2>1 DEF CreateTask
    <2>. QED
      BY <1>1, <2>3, <2>4 DEF CreateTask
  <1>2. ASSUME NEW t \in TaskIds, UpdateTask(t) PROVE TaskTypes'
    <2>1. PICK e \in {0, 1}, i \in Intervals : task' = [task EXCEPT ![t].enabled = e, ![t].interval = i]
      BY <1>2 DEF UpdateTask
    <2>2. task' = [task EXCEPT ![t] = [task[t] EXCEPT !.enabled = e, !.interval = i]]
      BY <2>1
    <2>3. [task[t] EXCEPT !.enabled = e, !.interval = i] \in Row
      BY <1>2, RowEdited DEF UpdateTask
    <2>4. task' \in [DOMAIN task' -> Row] /\ DOMAIN task' = DOMAIN task
      BY <2>2, <2>3
    <2>. QED
      BY <1>2, <2>4 DEF UpdateTask
  <1>3. ASSUME NEW t \in TaskIds, DeleteTask(t) PROVE TaskTypes'
    BY <1>3 DEF DeleteTask
  <1>4. ASSUME NEW t \in TaskIds, Trigger(t) PROVE TaskTypes'
    BY <1>4 DEF Trigger
  <1>5. CASE ResetRunning
    <2>1. \A t \in DOMAIN task : [task[t] EXCEPT !.lastStatus = "never"] \in Row
      BY RowSettled
    <2>. QED
      BY <1>5, <2>1 DEF ResetRunning
  <1>6. CASE BootFault
    BY <1>6 DEF BootFault
  <1>7. CASE BeginScan
    BY <1>7 DEF BeginScan
  <1>8. CASE ScanRow
    BY <1>8 DEF ScanRow
  <1>9. CASE EndScan
    BY <1>9 DEF EndScan
  <1>10. ASSUME NEW th \in Threads, ExecInsert(th) PROVE TaskTypes'
    BY <1>10 DEF ExecInsert
  <1>11. ASSUME NEW th \in Threads, ExecMark(th) PROVE TaskTypes'
    <2>. DEFINE t == job[th].task
                marked == [task[t] EXCEPT !.lastRun = day, !.lastStatus = "running", !.lastMsg = job[th].mid]
    <2>1. task' = IF Exists(t) THEN [task EXCEPT ![t] = marked] ELSE task
      BY <1>11 DEF ExecMark
    <2>2. Exists(t) => marked \in Row
      <3>1. day \in 0 .. MaxDay /\ job[th].mid \in Ids \cup {NoId}
        OBVIOUS
      <3>. QED
        BY <3>1, RowMarked
    <2>3. task' \in [DOMAIN task' -> Row] /\ DOMAIN task' = DOMAIN task
      BY <2>1, <2>2
    <2>. QED
      BY <1>11, <2>3 DEF ExecMark
  <1>12. ASSUME NEW th \in Threads, ExecSend(th) PROVE TaskTypes'
    BY <1>12 DEF ExecSend
  <1>13. ASSUME NEW th \in Threads, ExecFault(th) PROVE TaskTypes'
    BY <1>13 DEF ExecFault
  <1>14. CASE OutboundStep \/ UNCHANGED allVars
    BY <1>14 DEF OutboundStep, allVars
  <1>15. CASE Settle
    <2>1. \A t \in DOMAIN task, st \in {"success", "failed"} : [task[t] EXCEPT !.lastStatus = st] \in Row
      BY RowSettled
    <2>2. (IF ok THEN "success" ELSE "failed") \in {"success", "failed"}
      OBVIOUS
    <2>3. Settled \in [DOMAIN task -> Row]
      BY <2>1, <2>2 DEF Settled
    <2>4. task' \in [DOMAIN task' -> Row] /\ DOMAIN task' = DOMAIN task
      BY <1>15, <2>3 DEF Settle
    <2>. QED
      BY <1>15, <2>4 DEF Settle
  <1>16. CASE Restart
    BY <1>16 DEF Restart
  <1>17. CASE Tick
    BY <1>17 DEF Tick
  <1>. QED
    BY <1>1, <1>2, <1>3, <1>4, <1>5, <1>6, <1>7, <1>8, <1>9, <1>10, <1>11, <1>12, <1>13,
       <1>14, <1>15, <1>16, <1>17 DEF TaskNext, SchedulerStep, ExecStep

LEMMA JobsPreserved == TaskTypeOK /\ IInv /\ [TaskNext]_allVars => (job \in [Threads -> JobType])'
  <1>. SUFFICES ASSUME TaskTypeOK, IInv, [TaskNext]_allVars PROVE job' \in [Threads -> JobType]
    OBVIOUS
  <1>0. job \in [Threads -> JobType]
    BY DEF TaskTypeOK, JobType
  <1>. USE <1>0, IdleIsAJob
  <1>1. CASE UNCHANGED job
    BY <1>1
  <1>2. ASSUME NEW t \in TaskIds, Trigger(t) PROVE job' \in [Threads -> JobType]
    <2>1. Start(t, Unseen) \in JobType
      BY DEF Start, JobType
    <2>. QED
      BY <1>2, <2>1 DEF Trigger
  <1>3. CASE ScanRow
    <2>1. PICK e \in snapshot :
            job' = IF Due(e.row) THEN [job EXCEPT ![Scanner] = Start(e.id, Seen(e.row))] ELSE job
      BY <1>3 DEF ScanRow
    <2>2. e.id \in TaskIds /\ e.row \in Row
      BY DEF TaskTypeOK
    <2>3. Start(e.id, Seen(e.row)) \in JobType
      BY <2>2 DEF Start, Seen, JobType, Row
    <2>. QED
      BY <2>1, <2>3
  <1>4. ASSUME NEW th \in Threads, ExecInsert(th) PROVE job' \in [Threads -> JobType]
    <2>1. PICK m \in Ids : job' = [job EXCEPT ![th].step = "mark", ![th].mid = m]
      BY <1>4 DEF ExecInsert
    <2>2. [job[th] EXCEPT !.step = "mark", !.mid = m] \in JobType
      BY DEF JobType
    <2>3. job' = [job EXCEPT ![th] = [job[th] EXCEPT !.step = "mark", !.mid = m]]
      BY <2>1
    <2>. QED
      BY <2>2, <2>3
  <1>5. ASSUME NEW th \in Threads, ExecMark(th) PROVE job' \in [Threads -> JobType]
    <2>1. [job[th] EXCEPT !.step = "send", !.seen = Unseen] \in JobType
      BY DEF JobType
    <2>2. job' = [job EXCEPT ![th] = [job[th] EXCEPT !.step = "send", !.seen = Unseen]]
      BY <1>5 DEF ExecMark
    <2>. QED
      BY <2>1, <2>2
  <1>6. ASSUME NEW th \in Threads, ExecSend(th) \/ ExecFault(th) PROVE job' \in [Threads -> JobType]
    BY <1>6 DEF ExecSend, ExecFault
  <1>7. CASE Restart
    BY <1>7 DEF Restart
  <1>8. CASE \/ CreateTask \/ \E t \in TaskIds : UpdateTask(t) \/ DeleteTask(t)
             \/ ResetRunning \/ BeginScan \/ EndScan \/ BootFault \/ OutboundStep \/ Settle \/ Tick
             \/ UNCHANGED allVars
    BY <1>8, <1>1 DEF CreateTask, UpdateTask, DeleteTask, ResetRunning, BeginScan, EndScan, BootFault,
                      OutboundStep, Settle, Tick, allVars, taskVars
  <1>. QED
    BY <1>2, <1>3, <1>4, <1>5, <1>6, <1>7, <1>8 DEF TaskNext, SchedulerStep, ExecStep

LEMMA TaskTypePreserved == TaskTypeOK /\ IInv /\ [TaskNext]_allVars => TaskTypeOK'
  <1>1. TaskTypeOK /\ IInv /\ [TaskNext]_allVars => TypeOK'
    BY StepOfQueue, TypePreserved
  <1>. QED
    BY <1>1, TaskTypesPreserved, JobsPreserved DEF TaskTypeOK, TaskTypes, JobType

-----------------------------------------------------------------------------
(***************************************************************************)
(* Who holds which message.                                                *)
(***************************************************************************)
LEMMA WorkerKeepsInserted == WorkerStep \/ Emit => UNCHANGED inserted
  BY DEF WorkerStep, Drain, Connect, Disconnect, BeginCycle, LeaveLoop, Pop, EndDrain, DropDisconnected,
         MarkFault, ExceptionFault, Abandon, MarkSending, BeginSend, SendRefused, SendOk, SendNotOk,
         Record, RecordFault, RecordException, Emit

\* The steps that start, move or end no execution and that leave inserted alone.
Bystander ==
  \/ CreateTask \/ \E t \in TaskIds : UpdateTask(t) \/ DeleteTask(t)
  \/ ResetRunning \/ BootFault \/ BeginScan \/ EndScan
  \/ (WorkerStep /\ UNCHANGED taskVars) \/ Settle \/ Tick \/ UNCHANGED allVars

LEMMA BystanderFrame == Bystander => UNCHANGED <<job, inserted>>
  BY WorkerKeepsInserted DEF Bystander, CreateTask, UpdateTask, DeleteTask, ResetRunning, BootFault,
       BeginScan, EndScan, Settle, Tick, allVars, vars, taskVars

\* TaskNext with the steps sorted by what they do to executions.
LEMMA StepCases ==
  [TaskNext]_allVars =>
    \/ Bystander
    \/ \E t \in TaskIds : Trigger(t)
    \/ ScanRow
    \/ \E th \in Threads : ExecInsert(th) \/ ExecMark(th) \/ ExecSend(th) \/ ExecFault(th)
    \/ \E m \in Ids : Insert(m) /\ UNCHANGED taskVars
    \/ \E m \in Ids : m \notin Held /\ Enqueue(m) /\ UNCHANGED taskVars
    \/ Restart
  BY DEF TaskNext, Bystander, SchedulerStep, ExecStep, OutboundStep, SendRequest

LEMMA OwnershipPreserved == TInv /\ [TaskNext]_allVars => Ownership'
  <1>. SUFFICES ASSUME TInv, [TaskNext]_allVars PROVE Ownership'
    OBVIOUS
  <1>0. /\ job \in [Threads -> JobType]
        /\ Ownership
        /\ \A m \in Ids : m \in inserted => status[m] # "none"
        /\ inserted \subseteq Ids
    BY DEF TInv, TaskTypeOK, JobType, IInv, Placement, TypeOK
  <1>. USE <1>0 DEF Ownership, Inside, JobType
  <1>1. CASE Bystander
    BY <1>1, BystanderFrame
  <1>2. ASSUME NEW t \in TaskIds, Trigger(t) PROVE Ownership'
    BY <1>2 DEF Trigger, Start, vars, Threads
  <1>3. CASE ScanRow
    <2>1. PICK e \in snapshot : job' = job \/ job' = [job EXCEPT ![Scanner] = Start(e.id, Seen(e.row))]
      BY <1>3 DEF ScanRow
    <2>2. UNCHANGED inserted
      BY <1>3 DEF ScanRow, vars
    <2>. QED
      BY <2>1, <2>2 DEF Start, Threads
  <1>4. ASSUME NEW th \in Threads, ExecInsert(th) PROVE Ownership'
    <2>1. PICK m \in Ids : Insert(m) /\ job' = [job EXCEPT ![th].step = "mark", ![th].mid = m]
      BY <1>4 DEF ExecInsert
    <2>2. m \notin inserted /\ inserted' = inserted \cup {m}
      BY <2>1 DEF Insert, TInv, IInv, Placement, TypeOK, Ids
    <2>. QED
      BY <2>1, <2>2
  <1>5. ASSUME NEW th \in Threads, ExecMark(th) PROVE Ownership'
    BY <1>5 DEF ExecMark, vars
  <1>6. ASSUME NEW th \in Threads, ExecSend(th) PROVE Ownership'
    BY <1>6 DEF ExecSend, Enqueue, Idle
  <1>7. ASSUME NEW th \in Threads, ExecFault(th) PROVE Ownership'
    BY <1>7 DEF ExecFault, CreatorFails, Idle, vars
  <1>8. ASSUME NEW m \in Ids, Insert(m), UNCHANGED taskVars PROVE Ownership'
    BY <1>8 DEF Insert, taskVars
  <1>9. ASSUME NEW m \in Ids, m \notin Held, Enqueue(m), UNCHANGED taskVars PROVE Ownership'
    BY <1>9 DEF Enqueue, taskVars, Held
  <1>10. CASE Restart
    BY <1>10 DEF Restart, Idle
  <1>. QED
    BY <1>1, <1>2, <1>3, <1>4, <1>5, <1>6, <1>7, <1>8, <1>9, <1>10, StepCases

-----------------------------------------------------------------------------
(***************************************************************************)
(* What a step does to the rows of scheduled_tasks.                        *)
(***************************************************************************)
\* The row keeps its message and the day it ran, and a failure stays one.
Kept(t) ==
  /\ task'[t].lastMsg = task[t].lastMsg
  /\ task'[t].lastRun = task[t].lastRun
  /\ task[t].lastStatus = "failed" => task'[t].lastStatus = "failed"

MarkedBy(t, th) ==
  /\ ExecMark(th)
  /\ t = job[th].task
  /\ task'[t].lastMsg = job[th].mid
  /\ task'[t].lastStatus = "running"

LEMMA SettleKeepsRows == ASSUME TInv, Settle, NEW t \in DOMAIN task PROVE t \in DOMAIN task' /\ Kept(t)
  <1>1. cur \in Ids /\ status[cur] = (IF ok THEN "sent" ELSE "failed")
    BY DEF TInv, IInv, TypeOK, WorkerRow, Settle, Emit
  <1>2. CASE UNCHANGED task
    BY <1>2 DEF Kept
  <1>3. CASE task' = Settled
    <2>1. task[t] \in Row
      BY DEF TInv, TaskTypeOK
    <2>2. task'[t] = IF task[t].lastMsg = cur
                       THEN [task[t] EXCEPT !.lastStatus = IF ok THEN "success" ELSE "failed"] ELSE task[t]
      BY <1>3 DEF Settled
    <2>3. task[t].lastMsg = cur /\ task[t].lastStatus = "failed" => ~ok
      BY <1>1 DEF TInv, SettledAgreesWithMessage
    <2>. QED
      BY <1>3, <2>1, <2>2, <2>3 DEF Kept, Settled, Row
  <1>. QED
    BY <1>2, <1>3 DEF Settle

\* A row is kept, unless an execution marks it.
LEMMA RowEvolves ==
  ASSUME TInv, [TaskNext]_allVars, NEW t \in DOMAIN task, t \in DOMAIN task'
  PROVE  Kept(t) \/ \E th \in Threads : MarkedBy(t, th)
  <1>. DEFINE Goal == Kept(t) \/ \E th \in Threads : MarkedBy(t, th)
  <1>0. task \in [DOMAIN task -> Row] /\ task[t] \in Row
    BY DEF TInv, TaskTypeOK
  <1>1. CASE CreateTask
    BY <1>1 DEF CreateTask, Exists, Kept
  <1>2. ASSUME NEW u \in TaskIds, UpdateTask(u) PROVE Goal
    <2>1. PICK e \in {0, 1}, i \in Intervals : task' = [task EXCEPT ![u].enabled = e, ![u].interval = i]
      BY <1>2 DEF UpdateTask
    <2>2. task'[t] = task[t] \/ task'[t] = [task[t] EXCEPT !.enabled = e, !.interval = i]
      BY <1>0, <2>1
    <2>. QED
      BY <1>0, <2>2 DEF Kept, Row
  <1>3. ASSUME NEW u \in TaskIds, DeleteTask(u) PROVE Goal
    BY <1>3 DEF DeleteTask, Kept
  <1>4. CASE ResetRunning
    BY <1>0, <1>4 DEF ResetRunning, Kept, Row
  <1>5. ASSUME NEW th \in Threads, ExecMark(th) PROVE Goal
    <2>1. task' = task \/ task' = [task EXCEPT ![job[th].task] =
                                     [task[job[th].task] EXCEPT !.lastRun = day, !.lastStatus = "running",
                                                                !.lastMsg = job[th].mid]]
      BY <1>5 DEF ExecMark
    <2>2. CASE task' = task
      BY <2>2 DEF Kept
    <2>3. CASE t # job[th].task
      BY <2>1, <2>3 DEF Kept
    <2>4. CASE t = job[th].task /\ task' # task
      BY <1>0, <1>5, <2>1, <2>4 DEF MarkedBy, Row
    <2>. QED
      BY <2>2, <2>3, <2>4
  <1>6. CASE Settle
    BY <1>6, SettleKeepsRows
  <1>7. CASE UNCHANGED task
    BY <1>7 DEF Kept
  <1>8. ASSUME NEW th \in Threads, ExecInsert(th) \/ ExecSend(th) \/ ExecFault(th) PROVE UNCHANGED task
    BY <1>8 DEF ExecInsert, ExecSend, ExecFault
  <1>9. ASSUME NEW u \in TaskIds, Trigger(u) PROVE UNCHANGED task
    BY <1>9 DEF Trigger
  <1>10. BootFault \/ BeginScan \/ ScanRow \/ EndScan \/ OutboundStep \/ Restart \/ Tick \/ UNCHANGED allVars
           => UNCHANGED task
    BY DEF BootFault, BeginScan, ScanRow, EndScan, OutboundStep, taskVars, Restart, Tick, allVars
  <1>. QED
    BY <1>1, <1>2, <1>3, <1>4, <1>5, <1>6, <1>7, <1>8, <1>9, <1>10 DEF TaskNext, SchedulerStep, ExecStep

\* A new row names no message and never ran; its id is new.
LEMMA RowAppears ==
  ASSUME TInv, [TaskNext]_allVars, NEW t \in DOMAIN task', t \notin DOMAIN task
  PROVE  /\ CreateTask
         /\ t = lastTask + 1
         /\ task'[t].lastMsg = NoId /\ task'[t].lastStatus = "never"
  <1>1. CASE CreateTask
    BY <1>1 DEF CreateTask, Exists
  <1>2. ASSUME NEW u \in TaskIds, UpdateTask(u) \/ DeleteTask(u) \/ Trigger(u) PROVE FALSE
    BY <1>2 DEF UpdateTask, DeleteTask, Trigger
  <1>3. ASSUME NEW th \in Threads, ExecStep(th) \/ ExecFault(th) PROVE FALSE
    BY <1>3 DEF ExecStep, ExecInsert, ExecMark, ExecSend, ExecFault
  <1>4. ~(ResetRunning \/ BootFault \/ BeginScan \/ ScanRow \/ EndScan)
    BY DEF ResetRunning, BootFault, BeginScan, ScanRow, EndScan
  <1>5. ~(OutboundStep \/ Settle \/ Restart \/ Tick \/ UNCHANGED allVars)
    BY DEF OutboundStep, taskVars, Settle, Settled, Restart, Tick, allVars
  <1>. QED
    BY <1>1, <1>2, <1>3, <1>4, <1>5 DEF TaskNext, SchedulerStep

-----------------------------------------------------------------------------
(***************************************************************************)
(* Messages named by tasks.                                                *)
(***************************************************************************)
LEMMA MarkingIsInserted ==
  ASSUME TInv, NEW th \in Threads, job[th].step = "mark"
  PROVE  job[th].mid \in Ids /\ status[job[th].mid] # "none" /\ ~Named(job[th].mid)
  BY DEF TInv, Ownership, Inside, Naming, IInv, Placement, TypeOK

\* Where the copies come from: the table, or the scan.
LEMMA CopiesAppear ==
  ASSUME TInv, [TaskNext]_allVars, NEW e \in snapshot', e \notin snapshot
  PROVE  BeginScan /\ e.id \in DOMAIN task /\ e.row = task[e.id] /\ UNCHANGED task
  <1>1. CASE BeginScan
    BY <1>1 DEF BeginScan
  <1>2. ASSUME NEW u \in TaskIds, UpdateTask(u) \/ DeleteTask(u) \/ Trigger(u) PROVE FALSE
    BY <1>2 DEF UpdateTask, DeleteTask, Trigger
  <1>3. ASSUME NEW th \in Threads, ExecStep(th) \/ ExecFault(th) PROVE FALSE
    BY <1>3 DEF ExecStep, ExecInsert, ExecMark, ExecSend, ExecFault
  <1>4. ~(CreateTask \/ ResetRunning \/ BootFault \/ ScanRow \/ EndScan)
    BY DEF CreateTask, ResetRunning, BootFault, ScanRow, EndScan
  <1>5. ~(OutboundStep \/ Settle \/ Restart \/ Tick \/ UNCHANGED allVars)
    BY DEF OutboundStep, taskVars, Settle, Restart, Tick, allVars
  <1>. QED
    BY <1>1, <1>2, <1>3, <1>4, <1>5 DEF TaskNext, SchedulerStep

\* What a thread has seen, it saw before, or it comes from a copy.
LEMMA SeenComesFromCopies ==
  ASSUME TInv, [TaskNext]_allVars, NEW th \in Threads
  PROVE  \/ job'[th].seen = job[th].seen
         \/ job'[th].seen = Unseen
         \/ \E e \in snapshot : job'[th].seen.lastMsg = e.row.lastMsg
  <1>. DEFINE Goal == \/ job'[th].seen = job[th].seen
                      \/ job'[th].seen = Unseen
                      \/ \E e \in snapshot : job'[th].seen.lastMsg = e.row.lastMsg
  <1>0. job \in [Threads -> JobType]
    BY DEF TInv, TaskTypeOK, JobType
  <1>. USE <1>0 DEF JobType
  <1>1. CASE Bystander
    BY <1>1, BystanderFrame
  <1>2. ASSUME NEW t \in TaskIds, Trigger(t) PROVE Goal
    BY <1>2 DEF Trigger, Start
  <1>3. CASE ScanRow
    <2>1. PICK e \in snapshot : job' = job \/ job' = [job EXCEPT ![Scanner] = Start(e.id, Seen(e.row))]
      BY <1>3 DEF ScanRow
    <2>. QED
      BY <2>1 DEF Start, Seen
  <1>4. ASSUME NEW u \in Threads, ExecInsert(u) PROVE Goal
    BY <1>4 DEF ExecInsert
  <1>5. ASSUME NEW u \in Threads, ExecMark(u) PROVE Goal
    BY <1>5 DEF ExecMark
  <1>6. ASSUME NEW u \in Threads, ExecSend(u) \/ ExecFault(u) PROVE Goal
    BY <1>6 DEF ExecSend, ExecFault, Idle
  <1>7. UNCHANGED taskVars \/ Restart => Goal
    BY DEF taskVars, Restart, Idle
  <1>. QED
    BY <1>1, <1>2, <1>3, <1>4, <1>5, <1>6, <1>7, StepCases

\* A message becomes named only by being written into its task.
LEMMA NamingEvolves ==
  ASSUME TInv, [TaskNext]_allVars, NEW m \in Ids, Named(m)'
  PROVE  Named(m) \/ \E th \in Threads : ExecMark(th) /\ m = job[th].mid
  <1>1. ASSUME NEW t \in DOMAIN task', task'[t].lastMsg = m
        PROVE  Named(m) \/ \E th \in Threads : ExecMark(th) /\ m = job[th].mid
    <2>1. t \in DOMAIN task
      BY <1>1, RowAppears DEF Ids, NoId
    <2>. QED
      BY <1>1, <2>1, RowEvolves DEF Kept, MarkedBy, Named
  <1>2. ASSUME NEW e \in snapshot', e.row.lastMsg = m PROVE Named(m)
    BY <1>2, CopiesAppear DEF Named
  <1>3. ASSUME NEW th \in Threads, job'[th].seen.lastMsg = m PROVE Named(m)
    BY <1>3, SeenComesFromCopies DEF Named, Unseen, Ids, NoId
  <1>. QED
    BY <1>1, <1>2, <1>3 DEF Named

\* A thread that is about to mark was there before, or has just inserted.
LEMMA MarkingEvolves ==
  ASSUME TInv, [TaskNext]_allVars, NEW th \in Threads, job'[th].step = "mark"
  PROVE  \/ ExecInsert(th) /\ job'[th].mid \in Ids /\ status[job'[th].mid] = "none"
         \/ job[th].step = "mark" /\ job'[th].mid = job[th].mid /\ ~ExecMark(th)
  <1>. DEFINE Goal == \/ ExecInsert(th) /\ job'[th].mid \in Ids /\ status[job'[th].mid] = "none"
                      \/ job[th].step = "mark" /\ job'[th].mid = job[th].mid /\ ~ExecMark(th)
  <1>0. job \in [Threads -> JobType]
    BY DEF TInv, TaskTypeOK, JobType
  <1>. USE <1>0 DEF JobType
  <1>1. ExecMark(th) => FALSE
    BY DEF ExecMark
  <1>2. CASE Bystander
    BY <1>1, <1>2, BystanderFrame
  <1>3. ASSUME NEW t \in TaskIds, Trigger(t) PROVE Goal
    BY <1>1, <1>3 DEF Trigger, Start
  <1>4. CASE ScanRow
    <2>1. PICK e \in snapshot : job' = job \/ job' = [job EXCEPT ![Scanner] = Start(e.id, Seen(e.row))]
      BY <1>4 DEF ScanRow
    <2>. QED
      BY <1>1, <2>1 DEF Start
  <1>5. ASSUME NEW u \in Threads, ExecInsert(u) PROVE Goal
    <2>1. PICK m \in Ids : Insert(m) /\ job' = [job EXCEPT ![u].step = "mark", ![u].mid = m]
      BY <1>5 DEF ExecInsert
    <2>2. status[m] = "none"
      BY <2>1 DEF Insert, TInv, IInv, Placement, TypeOK, Ids
    <2>. QED
      BY <1>1, <1>5, <2>1, <2>2
  <1>6. ASSUME NEW u \in Threads, ExecMark(u) PROVE Goal
    BY <1>1, <1>6 DEF ExecMark
  <1>7. ASSUME NEW u \in Threads, ExecSend(u) \/ ExecFault(u) PROVE Goal
    BY <1>1, <1>7 DEF ExecSend, ExecFault, Idle
  <1>8. UNCHANGED taskVars \/ Restart => Goal
    BY <1>1 DEF taskVars, Restart, Idle
  <1>. QED
    BY <1>2, <1>3, <1>4, <1>5, <1>6, <1>7, <1>8, StepCases

LEMMA NamingPreserved == TInv /\ [TaskNext]_allVars => Naming'
  <1>. SUFFICES ASSUME TInv, [TaskNext]_allVars PROVE Naming'
    OBVIOUS
  <1>0. IInv /\ [Next]_vars /\ Naming /\ Ownership
    BY StepOfQueue DEF TInv
  <1>1. ASSUME NEW th \in Threads, ExecMark(th) PROVE job[th].step = "mark"
    BY <1>1 DEF ExecMark
  <1>2. ASSUME NEW m \in Ids, Named(m)' PROVE status'[m] # "none"
    <2>1. status[m] # "none"
      BY <1>0, <1>1, <1>2, NamingEvolves, MarkingIsInserted DEF Naming
    <2>. QED
      BY <1>0, <2>1, StatusIsStable
  <1>3. ASSUME NEW th \in Threads, job'[th].step = "mark"
        PROVE  job'[th].mid \in Ids /\ \A m \in Ids : m = job'[th].mid => ~Named(m)'
    <2>1. CASE ExecInsert(th) /\ job'[th].mid \in Ids /\ status[job'[th].mid] = "none"
      <3>1. lastId' # lastId
        BY <1>0, <2>1, MaxIdAssumption DEF ExecInsert, Insert, IInv, TypeOK
      <3>2. ASSUME NEW u \in Threads PROVE ~ExecMark(u)
        BY <3>1 DEF ExecMark, vars
      <3>. QED
        BY <1>0, <2>1, <3>2, NamingEvolves DEF Naming
    <2>2. CASE job[th].step = "mark" /\ job'[th].mid = job[th].mid /\ ~ExecMark(th)
      <3>1. job[th].mid \in Ids /\ ~Named(job[th].mid)
        BY <2>2, MarkingIsInserted
      <3>2. ASSUME NEW u \in Threads, ExecMark(u) PROVE job[u].mid # job[th].mid
        BY <1>0, <1>1, <2>2, <3>2 DEF Ownership, Inside
      <3>. QED
        BY <2>2, <3>1, <3>2, NamingEvolves
    <2>. QED
      BY <1>3, <2>1, <2>2, MarkingEvolves
  <1>. QED
    BY <1>2, <1>3 DEF Naming

-----------------------------------------------------------------------------
(***************************************************************************)
(* Outcomes.                                                               *)
(***************************************************************************)
\* A task is settled by the outcome of its message, or was settled before.
LEMMA OutcomeAppears ==
  ASSUME TInv, [TaskNext]_allVars, NEW t \in DOMAIN task', task'[t].lastStatus \in {"success", "failed"}
  PROVE  /\ t \in DOMAIN task
         /\ \/ task'[t].lastStatus = task[t].lastStatus /\ task'[t].lastMsg = task[t].lastMsg
            \/ /\ task'[t].lastMsg = cur /\ cur \in Ids /\ UNCHANGED status
               /\ status[cur] = IF task'[t].lastStatus = "success" THEN "sent" ELSE "failed"
  <1>1. t \in DOMAIN task
    BY RowAppears
  <1>. DEFINE Goal == \/ task'[t].lastStatus = task[t].lastStatus /\ task'[t].lastMsg = task[t].lastMsg
                      \/ /\ task'[t].lastMsg = cur /\ cur \in Ids /\ UNCHANGED status
                         /\ status[cur] = IF task'[t].lastStatus = "success" THEN "sent" ELSE "failed"
  <1>2. task \in [DOMAIN task -> Row] /\ task[t] \in Row
    BY <1>1 DEF TInv, TaskTypeOK
  <1>3. CASE CreateTask
    BY <1>1, <1>3 DEF CreateTask, Exists
  <1>4. ASSUME NEW u \in TaskIds, UpdateTask(u) PROVE Goal
    <2>1. PICK e \in {0, 1}, i \in Intervals : task' = [task EXCEPT ![u].enabled = e, ![u].interval = i]
      BY <1>4 DEF UpdateTask
    <2>2. task'[t] = task[t] \/ task'[t] = [task[t] EXCEPT !.enabled = e, !.interval = i]
      BY <1>1, <1>2, <2>1
    <2>. QED
      BY <1>2, <2>2 DEF Row
  <1>5. ASSUME NEW u \in TaskIds, DeleteTask(u) PROVE Goal
    BY <1>1, <1>5 DEF DeleteTask
  <1>6. CASE ResetRunning
    BY <1>1, <1>2, <1>6 DEF ResetRunning, Row
  <1>7. ASSUME NEW th \in Threads, ExecMark(th) PROVE Goal
    <2>1. task' = task \/ task' = [task EXCEPT ![job[th].task] =
                                     [task[job[th].task] EXCEPT !.lastRun = day, !.lastStatus = "running",
                                                                !.lastMsg = job[th].mid]]
      BY <1>7 DEF ExecMark
    <2>. QED
      BY <1>1, <1>2, <2>1 DEF Row
  <1>8. CASE Settle
    <2>1. cur \in Ids /\ status[cur] = (IF ok THEN "sent" ELSE "failed") /\ UNCHANGED status
      BY <1>8 DEF TInv, IInv, TypeOK, WorkerRow, Settle, Emit, rows
    <2>2. task' = task \/ task'[t] = IF task[t].lastMsg = cur
                                       THEN [task[t] EXCEPT !.lastStatus = IF ok THEN "success" ELSE "failed"]
                                       ELSE task[t]
      BY <1>1, <1>8 DEF Settle, Settled
    <2>3. CASE task'[t] = task[t]
      BY <1>1, <2>3
    <2>4. CASE task[t].lastMsg = cur /\ ok /\ task'[t] = [task[t] EXCEPT !.lastStatus = "success"]
      BY <1>1, <1>2, <2>1, <2>4 DEF Row
    <2>5. CASE task[t].lastMsg = cur /\ ~ok /\ task'[t] = [task[t] EXCEPT !.lastStatus = "failed"]
      BY <1>1, <1>2, <2>1, <2>5 DEF Row
    <2>. QED
      BY <2>2, <2>3, <2>4, <2>5
  <1>9. ASSUME NEW th \in Threads, ExecInsert(th) \/ ExecSend(th) \/ ExecFault(th) PROVE UNCHANGED task
    BY <1>9 DEF ExecInsert, ExecSend, ExecFault
  <1>10. ASSUME NEW u \in TaskIds, Trigger(u) PROVE UNCHANGED task
    BY <1>10 DEF Trigger
  <1>11. BootFault \/ BeginScan \/ ScanRow \/ EndScan \/ OutboundStep \/ Restart \/ Tick \/ UNCHANGED allVars
           => UNCHANGED task
    BY DEF BootFault, BeginScan, ScanRow, EndScan, OutboundStep, taskVars, Restart, Tick, allVars
  <1>. QED
    BY <1>1, <1>3, <1>4, <1>5, <1>6, <1>7, <1>8, <1>9, <1>10, <1>11 DEF TaskNext, SchedulerStep, ExecStep

LEMMA OutcomesPreserved == TInv /\ [TaskNext]_allVars => (SettledAgreesWithMessage /\ SettledIsNamed)'
  <1>. SUFFICES ASSUME TInv, [TaskNext]_allVars, NEW t \in DOMAIN task',
                       task'[t].lastStatus \in {"success", "failed"}
                PROVE  /\ task'[t].lastMsg \in Ids
                       /\ task'[t].lastStatus = "success" => status'[task'[t].lastMsg] = "sent"
                       /\ task'[t].lastStatus = "failed" => status'[task'[t].lastMsg] = "failed"
    BY DEF SettledAgreesWithMessage, SettledIsNamed
  <1>1. IInv /\ [Next]_vars
    BY StepOfQueue DEF TInv
  <1>2. CASE task'[t].lastStatus = task[t].lastStatus /\ task'[t].lastMsg = task[t].lastMsg /\ t \in DOMAIN task
    BY <1>1, <1>2, StatusIsStable DEF TInv, SettledAgreesWithMessage, SettledIsNamed
  <1>. QED
    BY <1>2, OutcomeAppears

-----------------------------------------------------------------------------
(***************************************************************************)
(* The scan and its copies.                                                *)
(***************************************************************************)
LEMMA TaskIdsInUsePreserved == TInv /\ [TaskNext]_allVars => TaskIdsInUse'
  <1>. SUFFICES ASSUME TInv, [TaskNext]_allVars PROVE TaskIdsInUse'
    OBVIOUS
  <1>0. /\ TaskIdsInUse
        /\ job \in [Threads -> JobType]
        /\ lastTask \in Nat
    BY MaxTaskAssumption DEF TInv, TaskTypeOK, JobType
  <1>1. lastTask' = lastTask \/ lastTask' = lastTask + 1
    BY StepCases DEF Bystander, CreateTask, UpdateTask, DeleteTask, ResetRunning, BootFault, BeginScan,
       EndScan, Settle, Tick, allVars, taskVars, Trigger, ScanRow, ExecInsert, ExecMark, ExecSend, ExecFault, Restart
  <1>2. DOMAIN task' \subseteq 1 .. lastTask'
    BY <1>0, <1>1, RowAppears DEF TaskIdsInUse, CreateTask
  <1>3. \A e \in snapshot' : e.id \in 1 .. lastTask'
    BY <1>0, <1>1, CopiesAppear DEF TaskIdsInUse
  <1>4. ASSUME NEW th \in Threads PROVE job'[th].task \in 0 .. lastTask'
    <2>. SUFFICES job'[th].task = job[th].task \/ job'[th].task \in 0 .. lastTask
      BY <1>0, <1>1 DEF TaskIdsInUse
    <2>. USE <1>0 DEF JobType, TaskIdsInUse
    <2>1. CASE Bystander
      BY <2>1, BystanderFrame
    <2>2. ASSUME NEW t \in TaskIds, Trigger(t) PROVE job'[th].task = job[th].task \/ job'[th].task \in 0 .. lastTask
      BY <2>2 DEF Trigger, Start, Exists
    <2>3. CASE ScanRow
      <3>1. PICK e \in snapshot : job' = job \/ job' = [job EXCEPT ![Scanner] = Start(e.id, Seen(e.row))]
        BY <2>3 DEF ScanRow
      <3>. QED
        BY <3>1 DEF Start
    <2>4. ASSUME NEW u \in Threads, ExecInsert(u) PROVE job'[th].task = job[th].task
      BY <2>4 DEF ExecInsert
    <2>5. ASSUME NEW u \in Threads, ExecMark(u) PROVE job'[th].task = job[th].task
      BY <2>5 DEF ExecMark
    <2>6. ASSUME NEW u \in Threads, ExecSend(u) \/ ExecFault(u)
          PROVE  job'[th].task = job[th].task \/ job'[th].task = 0
      BY <2>6 DEF ExecSend, ExecFault, Idle
    <2>7. UNCHANGED taskVars \/ Restart => job'[th].task = job[th].task \/ job'[th].task = 0
      BY DEF taskVars, Restart, Idle
    <2>. QED
      BY <2>1, <2>2, <2>3, <2>4, <2>5, <2>6, <2>7, StepCases
  <1>. QED
    BY <1>2, <1>3, <1>4 DEF TaskIdsInUse

LEMMA CopiesAgreePreserved == TInv /\ [TaskNext]_allVars => CopiesAgree'
  <1>. SUFFICES ASSUME TInv, [TaskNext]_allVars, NEW e \in snapshot',
                       e.id \in DOMAIN task', task'[e.id].lastMsg = e.row.lastMsg
                PROVE  /\ task'[e.id].lastRun = e.row.lastRun
                       /\ e.row.lastStatus = "failed" => task'[e.id].lastStatus = "failed"
    BY DEF CopiesAgree, Exists
  <1>1. CASE e \notin snapshot
    BY <1>1, CopiesAppear
  <1>2. CASE e \in snapshot
    <2>1. e.id \in DOMAIN task
      BY <1>2, RowAppears, MaxTaskAssumption DEF TInv, TaskIdsInUse, TaskTypeOK
    <2>2. ASSUME NEW th \in Threads, MarkedBy(e.id, th) PROVE FALSE
      BY <1>2, <2>2, MarkingIsInserted DEF MarkedBy, ExecMark, Named
    <2>3. Kept(e.id)
      BY <2>1, <2>2, RowEvolves
    <2>. QED
      BY <1>2, <2>1, <2>3 DEF Kept, TInv, CopiesAgree, Exists
  <1>. QED
    BY <1>1, <1>2

\* The copy decided that the task was due, and the copy is as good as the row.
LEMMA DueAsCopied ==
  ASSUME TInv, NEW e \in snapshot, Due(e.row), Exists(e.id), task[e.id].lastMsg = e.row.lastMsg
  PROVE  DocumentedDue([task[e.id] EXCEPT !.interval = e.row.interval])
  <1>1. e.row \in Row /\ task[e.id] \in Row
    BY DEF TInv, TaskTypeOK, Exists
  <1>2. /\ task[e.id].lastRun = e.row.lastRun
        /\ e.row.lastStatus = "failed" => task[e.id].lastStatus = "failed"
    BY DEF TInv, CopiesAgree
  <1>. QED
    BY <1>1, <1>2 DEF Due, DocumentedDue, Row

\* A row that is kept stays due, and so it does as days pass.
LEMMA DueIsKept ==
  ASSUME TInv, [TaskNext]_allVars, NEW t \in DOMAIN task, t \in DOMAIN task', Kept(t),
         NEW i \in Intervals \cup {0}, DocumentedDue([task[t] EXCEPT !.interval = i])
  PROVE  DocumentedDue([task[t] EXCEPT !.interval = i])'
  <1>1. task[t] \in Row /\ task'[t] \in Row /\ day \in Nat
    BY TaskTypePreserved, MaxDayAssumption DEF TInv, TaskTypeOK
  <1>2. day' = day \/ day' = day + 1
    BY StepCases DEF Bystander, CreateTask, UpdateTask, DeleteTask, ResetRunning, BootFault, BeginScan,
       EndScan, Settle, Tick, allVars, taskVars, Trigger, ScanRow, ExecInsert, ExecMark, ExecSend, ExecFault, Restart
  <1>3. i \in Nat /\ task[t].lastRun \in Nat
    BY <1>1, IntervalsAssumption, MaxDayAssumption DEF Row
  <1>. QED
    BY <1>1, <1>2, <1>3 DEF Kept, DocumentedDue, Row

\* The scan's execution goes on, or begins with a copy that is due.
LEMMA ScanEvolves ==
  ASSUME TInv, [TaskNext]_allVars, job'[Scanner].step \in {"insert", "mark"}
  PROVE  \/ /\ job[Scanner].step \in {"insert", "mark"}
            /\ job'[Scanner].task = job[Scanner].task /\ job'[Scanner].seen = job[Scanner].seen
            /\ ~ExecMark(Scanner)
         \/ \E e \in snapshot : /\ Due(e.row) /\ UNCHANGED <<day, task>>
                                /\ job'[Scanner].task = e.id /\ job'[Scanner].seen = Seen(e.row)
  <1>. DEFINE Goes == /\ job[Scanner].step \in {"insert", "mark"}
                      /\ job'[Scanner].task = job[Scanner].task /\ job'[Scanner].seen = job[Scanner].seen
                      /\ ~ExecMark(Scanner)
  <1>0. job \in [Threads -> JobType] /\ Scanner \in Threads
    BY DEF TInv, TaskTypeOK, JobType, Threads
  <1>. USE <1>0 DEF JobType
  <1>1. ~ExecMark(Scanner)
    BY DEF ExecMark
  <1>2. CASE Bystander
    BY <1>1, <1>2, BystanderFrame
  <1>3. ASSUME NEW t \in TaskIds, Trigger(t) PROVE Goes
    BY <1>1, <1>3 DEF Trigger, Scanner
  <1>4. CASE ScanRow
    <2>1. PICK e \in snapshot :
            job' = IF Due(e.row) THEN [job EXCEPT ![Scanner] = Start(e.id, Seen(e.row))] ELSE job
      BY <1>4 DEF ScanRow
    <2>2. CASE ~Due(e.row)
      BY <1>1, <2>1, <2>2
    <2>3. CASE Due(e.row)
      BY <1>4, <2>1, <2>3 DEF ScanRow, Start
    <2>. QED
      BY <2>2, <2>3
  <1>5. ASSUME NEW u \in Threads, ExecInsert(u) PROVE Goes
    BY <1>1, <1>5 DEF ExecInsert
  <1>6. ASSUME NEW u \in Threads, ExecMark(u) PROVE Goes
    BY <1>1, <1>6 DEF ExecMark
  <1>7. ASSUME NEW u \in Threads, ExecSend(u) \/ ExecFault(u) PROVE Goes
    BY <1>1, <1>7 DEF ExecSend, ExecFault, Idle
  <1>8. UNCHANGED taskVars \/ Restart => Goes
    BY <1>1 DEF taskVars, Restart, Idle
  <1>. QED
    BY <1>2, <1>3, <1>4, <1>5, <1>6, <1>7, <1>8, StepCases

LEMMA ScannedIsDuePreserved == TInv /\ [TaskNext]_allVars => ScannedIsDue'
  <1>. DEFINE j == job'[Scanner]
  <1>. SUFFICES ASSUME TInv, [TaskNext]_allVars, j.step \in {"insert", "mark"},
                       j.task \in DOMAIN task', task'[j.task].lastMsg = j.seen.lastMsg
                PROVE  DocumentedDue([task[job[Scanner].task] EXCEPT !.interval = job[Scanner].seen.interval])'
    BY DEF ScannedIsDue, Exists
  <1>0. job \in [Threads -> JobType] /\ Scanner \in Threads
    BY DEF TInv, TaskTypeOK, JobType, Threads
  <1>1. CASE /\ job[Scanner].step \in {"insert", "mark"}
             /\ j.task = job[Scanner].task /\ j.seen = job[Scanner].seen
             /\ ~ExecMark(Scanner)
    <2>. DEFINE t == job[Scanner].task
    <2>1. t \in DOMAIN task
      <3>1. t \in 0 .. lastTask /\ lastTask \in Nat
        BY <1>0, MaxTaskAssumption DEF TInv, TaskIdsInUse, TaskTypeOK
      <3>. QED
        BY <1>1, <3>1, RowAppears
    <2>2. ASSUME NEW th \in Threads, MarkedBy(t, th) PROVE FALSE
      BY <1>0, <1>1, <2>2, MarkingIsInserted DEF MarkedBy, ExecMark, Named
    <2>3. Kept(t)
      BY <1>1, <2>1, <2>2, RowEvolves
    <2>4. job[Scanner].seen.interval \in Intervals \cup {0}
      BY <1>0 DEF JobType
    <2>5. DocumentedDue([task[t] EXCEPT !.interval = job[Scanner].seen.interval])
      BY <1>1, <2>1, <2>3 DEF TInv, ScannedIsDue, Exists, Kept
    <2>6. \A i \in Intervals \cup {0} : DocumentedDue([task[t] EXCEPT !.interval = i]) =>
                                          DocumentedDue([task[t] EXCEPT !.interval = i])'
      BY <1>1, <2>1, <2>3, DueIsKept
    <2>. QED
      BY <1>1, <2>4, <2>5, <2>6
  <1>2. ASSUME NEW e \in snapshot, Due(e.row), UNCHANGED <<day, task>>,
               j.task = e.id, j.seen = Seen(e.row)
        PROVE  DocumentedDue([task[job[Scanner].task] EXCEPT !.interval = job[Scanner].seen.interval])'
    <2>1. DocumentedDue([task[e.id] EXCEPT !.interval = e.row.interval])
      BY <1>2, DueAsCopied DEF Exists, Seen
    <2>. QED
      BY <1>2, <2>1 DEF DocumentedDue, Seen
  <1>. QED
    BY <1>1, <1>2, ScanEvolves

-----------------------------------------------------------------------------
(***************************************************************************)
(* Theorems.                                                               *)
(***************************************************************************)
LEMMA InitEstablishesTInv == TaskInit => TInv
  <1>. SUFFICES ASSUME TaskInit PROVE TInv
    OBVIOUS
  <1>1. IInv
    BY InitEstablishesIInv DEF TaskInit
  <1>2. DOMAIN task = {} /\ snapshot = {} /\ lastTask = 0 /\ day = 1 /\ sched = "boot"
    BY DEF TaskInit
  <1>3. job = [th \in Threads |-> Idle] /\ job \in [Threads -> JobType]
    BY IdleIsAJob DEF TaskInit
  <1>4. task \in [DOMAIN task -> Row]
    BY <1>2 DEF TaskInit
  <1>5. TaskTypeOK
    BY <1>1, <1>2, <1>3, <1>4, MaxTaskAssumption, MaxDayAssumption DEF TaskTypeOK, IInv, JobType
  <1>6. Ownership /\ ScannedIsDue
    BY <1>3 DEF Ownership, Inside, ScannedIsDue, Idle, Threads, Scanner
  <1>7. Naming
    BY <1>2, <1>3 DEF Naming, Named, Idle, Unseen, Ids, NoId
  <1>8. SettledAgreesWithMessage /\ SettledIsNamed /\ CopiesAgree /\ TaskIdsInUse
    BY <1>2, <1>3 DEF SettledAgreesWithMessage, SettledIsNamed, CopiesAgree, TaskIdsInUse, Idle
  <1>. QED
    BY <1>1, <1>5, <1>6, <1>7, <1>8 DEF TInv

\* The inductive invariant of the composition.
THEOREM TaskInvariant == TaskSpec => []TInv
  <1>1. TaskInit => TInv
    BY InitEstablishesTInv
  <1>2. TInv /\ [TaskNext]_allVars => TInv'
    <2>. SUFFICES ASSUME TInv, [TaskNext]_allVars PROVE TInv'
      OBVIOUS
    <2>1. IInv' /\ TaskTypeOK'
      BY StepOfQueue, QueueInvariantStep, TaskTypePreserved DEF TInv
    <2>2. Ownership' /\ Naming' /\ (SettledAgreesWithMessage /\ SettledIsNamed)'
      BY OwnershipPreserved, NamingPreserved, OutcomesPreserved
    <2>3. TaskIdsInUse' /\ CopiesAgree' /\ ScannedIsDue'
      BY TaskIdsInUsePreserved, CopiesAgreePreserved, ScannedIsDuePreserved
    <2>. QED
      BY <2>1, <2>2, <2>3 DEF TInv
  <1>. QED
    BY <1>1, <1>2, PTL DEF TaskSpec

\* The scheduler uses the outbound queue as its specification allows, so the
\* queue's theorems (at most one transmission, truthful rows) hold with it.
THEOREM SchedulerImplementsQueue == TaskSpec => Spec
  <1>1. TaskInit => Init
    BY DEF TaskInit
  <1>2. TInv /\ [TaskNext]_allVars => [Next]_vars
    BY StepOfQueue DEF TInv
  <1>. QED
    BY <1>1, <1>2, TaskInvariant, PTL DEF TaskSpec, Spec

\* Types of scheduled_tasks, of the scan's copy and of the executions.
THEOREM TaskTypeCorrect == TaskSpec => []TaskTypeOK
  <1>1. TInv => TaskTypeOK
    BY DEF TInv
  <1>. QED
    BY <1>1, TaskInvariant, PTL

\* A settled task shows the outcome of the message it sent last, however its
\* executions by scan and trigger overlap.
THEOREM TaskShowsItsMessage == TaskSpec => []SettledAgreesWithMessage
  <1>1. TInv => SettledAgreesWithMessage
    BY DEF TInv
  <1>. QED
    BY <1>1, TaskInvariant, PTL

\* on_send_result never comes before the UPDATE that makes the task expect it.
THEOREM NoOutcomeBeforeMark == TaskSpec => []MarkedBeforeReported
  <1>1. ASSUME TInv PROVE MarkedBeforeReported
    <2>1. ASSUME NEW th \in Threads, job[th].step = "mark" PROVE status[job[th].mid] = "queued" /\ job[th].mid \in Ids
      BY <1>1, <2>1 DEF TInv, Ownership, Inside, IInv, Placement, TypeOK
    <2>. QED
      BY <1>1, <2>1 DEF MarkedBeforeReported, TInv, IInv, EmittedMatchesRow
  <1>. QED
    BY <1>1, TaskInvariant, PTL

\* What a scan runs is due by the documented rule when it is marked, unless the
\* task was executed or its interval changed after the scan read it.
THEOREM ScansRunDueTasks == TaskSpec => ScanRunsOnlyDueTasks
  <1>. DEFINE Step ==
         LET j == job[Scanner] IN
         /\ j.step = "mark" /\ job'[Scanner].step = "send"
         /\ Exists(j.task) /\ Seen(task[j.task]) = j.seen
         => DocumentedDue(task[j.task])
  <1>1. TInv => Step
    <2>. SUFFICES ASSUME TInv, job[Scanner].step = "mark", Exists(job[Scanner].task),
                         Seen(task[job[Scanner].task]) = job[Scanner].seen
                  PROVE  DocumentedDue(task[job[Scanner].task])
      OBVIOUS
    <2>. DEFINE row == task[job[Scanner].task]
    <2>1. row \in Row
      BY DEF TInv, TaskTypeOK, Exists
    <2>2. row.lastMsg = job[Scanner].seen.lastMsg /\ row.interval = job[Scanner].seen.interval
      BY DEF Seen
    <2>3. DocumentedDue([row EXCEPT !.interval = job[Scanner].seen.interval])
      BY <2>2 DEF TInv, ScannedIsDue
    <2>. QED
      BY <2>1, <2>2, <2>3 DEF DocumentedDue, Row
  <1>. QED
    BY <1>1, TaskInvariant, PTL DEF ScanRunsOnlyDueTasks
=============================================================================
