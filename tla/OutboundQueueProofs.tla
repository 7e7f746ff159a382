------------------------- MODULE OutboundQueueProofs -------------------------
(***************************************************************************)
(* Theorems of OutboundQueue, for every number of rows, every cycle length *)
(* and every set of faults.  IInv is inductive: TypePreserved,             *)
(* PlacementPreserved and RowsPreserved prove its conjuncts step by step.  *)
(***************************************************************************)
EXTENDS OutboundQueue, SequenceTheorems, TLAPS

LEMMA InitEstablishesIInv == Init => IInv
  <1>. SUFFICES ASSUME Init PROVE IInv
    OBVIOUS
  <1>. USE DEF Init, Ids, NoId
  <1>1. TypeOK
    <2>1. queue \in Seq(Ids)
      BY EmptySeq
    <2>2. status \in [Ids -> Statuses] /\ lastId \in 0 .. MaxId /\ drained \in 0 .. MaxPerCycle
      BY MaxIdAssumption, MaxPerCycleAssumption DEF Statuses
    <2>3. pc \in Places /\ cur \in Ids \cup {NoId} /\ (cur = NoId <=> pc \in {"offline", "idle", "drain"})
      BY DEF Places
    <2>4. airs \in [Ids -> Nat] /\ emitted \subseteq Ids \X BOOLEAN /\ inserted \subseteq Ids
      OBVIOUS
    <2>5. ok \in BOOLEAN /\ connected \in BOOLEAN
      OBVIOUS
    <2>. QED
      BY <2>1, <2>2, <2>3, <2>4, <2>5 DEF TypeOK
  <1>2. Placement
    BY MaxIdAssumption DEF Placement
  <1>3. WorkerRow /\ AtMostOnce /\ StatusTellsAir /\ EmittedMatchesRow
    BY DEF WorkerRow, AtMostOnce, StatusTellsAir, EmittedMatchesRow
  <1>. QED
    BY <1>1, <1>2, <1>3 DEF IInv

\* Every step keeps the types.  The worker's position bounds drained.
LEMMA TypePreserved == IInv /\ [Next]_vars => TypeOK'
  <1>. SUFFICES ASSUME IInv, [Next]_vars PROVE TypeOK'
    OBVIOUS
  <1>. USE MaxIdAssumption, MaxPerCycleAssumption DEF IInv, TypeOK, Ids, NoId, Statuses, Places, rows, worker
  <1>1. ASSUME NEW m \in Ids, Insert(m) PROVE TypeOK'
    BY <1>1 DEF Insert
  <1>2. ASSUME NEW m \in Ids, Enqueue(m) PROVE TypeOK'
    BY <1>2, AppendProperties DEF Enqueue
  <1>3. ASSUME NEW m \in Ids, CreatorFails(m) PROVE TypeOK'
    BY <1>3 DEF CreatorFails
  <1>4. CASE Connect
    BY <1>4 DEF Connect
  <1>5. CASE Disconnect
    BY <1>5 DEF Disconnect
  <1>6. CASE BeginCycle
    BY <1>6 DEF BeginCycle
  <1>7. CASE LeaveLoop
    BY <1>7 DEF LeaveLoop
  <1>8. CASE Pop
    BY <1>8, HeadTailProperties DEF Pop
  <1>9. CASE EndDrain
    BY <1>9 DEF EndDrain
  <1>10. CASE DropDisconnected \/ MarkFault \/ ExceptionFault
    BY <1>10 DEF DropDisconnected, MarkFault, ExceptionFault, Abandon
  <1>11. CASE MarkSending
    BY <1>11 DEF MarkSending
  <1>12. CASE BeginSend \/ SendRefused
    BY <1>12 DEF BeginSend, SendRefused
  <1>13. CASE SendOk
    <2>1. airs' \in [Ids -> Nat]
      BY <1>13 DEF SendOk
    <2>. QED
      BY <1>13, <2>1 DEF SendOk
  <1>14. CASE SendNotOk
    <2>1. airs' \in [Ids -> Nat]
      <3>1. airs' = airs \/ airs' = [airs EXCEPT ![cur] = @ + 1]
        BY <1>14 DEF SendNotOk
      <3>. QED
        BY <3>1
    <2>. QED
      BY <1>14, <2>1 DEF SendNotOk
  <1>15. CASE Record
    BY <1>15 DEF Record
  <1>16. CASE RecordFault
    BY <1>16 DEF RecordFault
  <1>17. CASE RecordException
    BY <1>17 DEF RecordException
  <1>18. CASE Emit
    BY <1>18 DEF Emit, WorkerRow
  <1>19. CASE Crash
    <2>1. queue' \in Seq(Ids)
      BY <1>19, EmptySeq DEF Crash
    <2>2. (status \in [Ids -> Statuses] /\ lastId \in 0 .. MaxId /\ drained \in 0 .. MaxPerCycle)'
      BY <1>19 DEF Crash
    <2>3. (airs \in [Ids -> Nat] /\ emitted \subseteq Ids \X BOOLEAN /\ inserted \subseteq Ids)'
      BY <1>19 DEF Crash
    <2>4. (pc \in Places /\ cur \in Ids \cup {NoId} /\ (cur = NoId <=> pc \in {"offline", "idle", "drain"}))'
      BY <1>19 DEF Crash
    <2>5. (ok \in BOOLEAN /\ connected \in BOOLEAN)'
      BY <1>19 DEF Crash
    <2>. QED
      BY <2>1, <2>2, <2>3, <2>4, <2>5
  <1>20. CASE UNCHANGED vars
    BY <1>20 DEF vars
  <1>. QED
    BY <1>1, <1>2, <1>4, <1>5, <1>6, <1>7, <1>8, <1>9, <1>10, <1>11, <1>12, <1>13,
       <1>14, <1>15, <1>16, <1>17, <1>18, <1>19, <1>20, <1>3 DEF Next, Produce, Drain

\* A step that neither moves a row between places nor changes the status of any
\* row but the worker's keeps every row in its place.
LEMMA PlacementFrame ==
  ASSUME IInv, UNCHANGED <<lastId, inserted, queue>>, cur' \in {cur, NoId},
         \/ UNCHANGED status
         \/ /\ cur \in Ids
            /\ status[cur] # "none"
            /\ \E s \in Statuses \ {"none"} : status' = [status EXCEPT ![cur] = s]
  PROVE  Placement'
  <1>. USE DEF IInv, TypeOK, Placement
  <1>1. \A m \in Ids : m # cur => status'[m] = status[m]
    OBVIOUS
  <1>2. \A i \in DOMAIN queue : queue[i] \in Ids
    BY LenProperties
  <1>3. (\A m \in Ids : status[m] = "none" <=> m > lastId)'
    BY <1>1
  <1>4. (\A m \in inserted : status[m] = "queued")'
    BY <1>1
  <1>5. (\A i \in DOMAIN queue : status[queue[i]] = "queued" /\ queue[i] \notin inserted)'
    BY <1>1, <1>2
  <1>6. (cur \notin inserted /\ \A i \in DOMAIN queue : queue[i] # cur)'
    BY <1>2 DEF Ids, NoId
  <1>. QED
    BY <1>3, <1>4, <1>5, <1>6

\* Every step keeps each row in one place.  Only Insert, Enqueue, Pop and Crash
\* move a row between places.
LEMMA PlacementPreserved == IInv /\ [Next]_vars => Placement'
  <1>. SUFFICES ASSUME IInv, [Next]_vars PROVE Placement'
    OBVIOUS
  <1>. USE DEF rows, worker
  <1>1. \A i \in DOMAIN queue : queue[i] \in Ids
    BY LenProperties DEF IInv, TypeOK
  <1>2. ASSUME NEW m \in Ids, Insert(m) PROVE Placement'
    <2>. USE MaxIdAssumption DEF Ids, NoId
    <2>1. m = lastId + 1 /\ lastId' = m /\ status[m] = "none" /\ lastId \in Nat
      BY <1>2 DEF Insert, IInv, TypeOK, Placement
    <2>2. /\ status' = [status EXCEPT ![m] = "queued"] /\ inserted' = inserted \cup {m}
          /\ UNCHANGED <<queue, cur>>
      BY <1>2 DEF Insert
    <2>3. status'[m] = "queued" /\ \A n \in Ids \ {m} : status'[n] = status[n]
      BY <2>2 DEF IInv, TypeOK
    <2>4. (\A n \in Ids : status[n] = "none" <=> n > lastId)'
      BY <2>1, <2>3 DEF IInv, TypeOK, Placement
    <2>5. (\A n \in inserted : status[n] = "queued")'
      BY <2>2, <2>3 DEF IInv, TypeOK, Placement
    <2>6. (\A i \in DOMAIN queue : status[queue[i]] = "queued" /\ queue[i] \notin inserted)'
      BY <1>1, <2>1, <2>2, <2>3 DEF IInv, Placement
    <2>7. cur' \notin inserted'
      <3>1. cur # m
        BY <2>1 DEF IInv, TypeOK, WorkerRow, Statuses, Places, StatusTellsAir
      <3>. QED
        BY <2>2, <3>1 DEF IInv, Placement
    <2>. QED
      BY <2>2, <2>4, <2>5, <2>6, <2>7 DEF IInv, Placement
  <1>3. ASSUME NEW m \in Ids, Enqueue(m) PROVE Placement'
    <2>1. queue' = Append(queue, m) /\ inserted' = inserted \ {m} /\ m \in inserted
      BY <1>3 DEF Enqueue
    <2>2. DOMAIN queue = 1 .. Len(queue) /\ DOMAIN queue' = 1 .. (Len(queue) + 1) /\ Len(queue) \in Nat
      BY <2>1, LenProperties, AppendProperties DEF IInv, TypeOK
    <2>3. \A i \in DOMAIN queue' : queue'[i] = IF i = Len(queue) + 1 THEN m ELSE queue[i]
      BY <2>1, <2>2, AppendProperties DEF IInv, TypeOK
    <2>. QED
      BY <1>1, <1>3, <2>1, <2>2, <2>3 DEF Enqueue, IInv, TypeOK, Placement
  <1>4. ASSUME NEW m \in Ids, CreatorFails(m) PROVE Placement'
    BY <1>4 DEF CreatorFails, IInv, TypeOK, Placement
  <1>5. CASE Connect \/ Disconnect \/ BeginCycle \/ LeaveLoop \/ EndDrain
    BY <1>5, PlacementFrame DEF Connect, Disconnect, BeginCycle, LeaveLoop, EndDrain
  <1>6. CASE Pop
    <2>1. cur' = queue[1] /\ queue' = Tail(queue) /\ queue # <<>>
      BY <1>6 DEF Pop, IInv, TypeOK
    <2>2. /\ DOMAIN queue = 1 .. Len(queue) /\ DOMAIN queue' = 1 .. (Len(queue) - 1)
          /\ Len(queue) \in Nat \ {0}
      BY <2>1, LenProperties, EmptySeq, HeadTailProperties DEF IInv, TypeOK
    <2>3. \A i \in DOMAIN queue' : queue'[i] = queue[i + 1]
      BY <2>1, <2>2, HeadTailProperties DEF IInv, TypeOK
    <2>4. UNCHANGED <<status, lastId, inserted>>
      BY <1>6 DEF Pop
    <2>5. (\A i \in DOMAIN queue : status[queue[i]] = "queued" /\ queue[i] \notin inserted)'
      BY <2>2, <2>3, <2>4 DEF IInv, Placement
    <2>6. (\A i, j \in DOMAIN queue : queue[i] = queue[j] => i = j)'
      <3>. SUFFICES ASSUME NEW i \in DOMAIN queue', NEW j \in DOMAIN queue', queue'[i] = queue'[j]
                    PROVE  i = j
        OBVIOUS
      <3>1. i + 1 \in DOMAIN queue /\ j + 1 \in DOMAIN queue /\ i \in Nat /\ j \in Nat
        BY <2>2
      <3>2. i + 1 = j + 1
        BY <2>3, <3>1 DEF IInv, Placement
      <3>. QED
        BY <3>1, <3>2
    <2>7. (cur \notin inserted /\ \A i \in DOMAIN queue : queue[i] # cur)'
      <3>1. cur' \notin inserted'
        BY <2>1, <2>2, <2>4 DEF IInv, Placement
      <3>2. \A i \in DOMAIN queue' : i + 1 \in DOMAIN queue /\ i + 1 # 1 /\ 1 \in DOMAIN queue
        BY <2>2
      <3>3. \A i \in DOMAIN queue' : queue'[i] # cur'
        BY <2>1, <2>3, <3>2 DEF IInv, Placement
      <3>. QED
        BY <3>1, <3>3
    <2>. QED
      BY <2>4, <2>5, <2>6, <2>7 DEF IInv, Placement
  <1>7. CASE DropDisconnected \/ MarkFault \/ ExceptionFault
    BY <1>7, PlacementFrame DEF DropDisconnected, MarkFault, ExceptionFault, Abandon
  <1>8. CASE MarkSending \/ Record \/ RecordException
    <2>1. cur \in Ids /\ status[cur] # "none"
      BY <1>8 DEF MarkSending, Record, RecordException, IInv, TypeOK, WorkerRow
    <2>. QED
      BY <1>8, <2>1, PlacementFrame DEF MarkSending, Record, RecordException, Statuses
  <1>9. CASE BeginSend \/ SendRefused \/ SendOk \/ SendNotOk \/ RecordFault
    BY <1>9, PlacementFrame DEF BeginSend, SendRefused, SendOk, SendNotOk, RecordFault
  <1>10. CASE Emit
    BY <1>10, PlacementFrame DEF Emit
  <1>11. CASE Crash
    BY <1>11 DEF Crash, IInv, TypeOK, Placement
  <1>12. CASE UNCHANGED vars
    BY <1>12, PlacementFrame DEF vars
  <1>. QED
    BY <1>2, <1>3, <1>5, <1>6, <1>7, <1>8, <1>9, <1>10, <1>11, <1>12, <1>4 DEF Next, Produce, Drain

\* Every step keeps what the rows say of the radio, of the worker and of the
\* outcomes reported: only the worker's own row changes after its INSERT.
LEMMA RowsPreserved ==
  IInv /\ [Next]_vars => (WorkerRow /\ AtMostOnce /\ StatusTellsAir /\ EmittedMatchesRow)'
  <1>. DEFINE Rows == WorkerRow /\ AtMostOnce /\ StatusTellsAir /\ EmittedMatchesRow
  <1>. SUFFICES ASSUME IInv, [Next]_vars PROVE Rows'
    OBVIOUS
  <1>. USE DEF IInv, TypeOK, WorkerRow, AtMostOnce, StatusTellsAir, EmittedMatchesRow, Statuses, NoId, rows, worker
  <1>1. cur # NoId => cur \in Ids
    OBVIOUS
  <1>2. ASSUME NEW m \in Ids, Insert(m) PROVE Rows'
    BY <1>2 DEF Insert, Placement, Ids
  <1>3. ASSUME NEW m \in Ids, Enqueue(m) PROVE Rows'
    BY <1>3 DEF Enqueue
  <1>4. ASSUME NEW m \in Ids, CreatorFails(m) PROVE Rows'
    BY <1>4 DEF CreatorFails
  <1>5. CASE Connect \/ Disconnect \/ BeginCycle \/ LeaveLoop \/ EndDrain
    BY <1>5 DEF Connect, Disconnect, BeginCycle, LeaveLoop, EndDrain
  <1>6. CASE Pop
    BY <1>6 DEF Pop, Placement
  <1>7. CASE DropDisconnected \/ MarkFault \/ ExceptionFault
    BY <1>7 DEF DropDisconnected, MarkFault, ExceptionFault, Abandon
  <1>8. CASE MarkSending
    BY <1>8 DEF MarkSending
  <1>9. CASE BeginSend
    BY <1>9 DEF BeginSend
  <1>10. CASE SendRefused \/ RecordFault
    BY <1>10 DEF SendRefused, RecordFault
  <1>11. CASE SendOk
    BY <1>11 DEF SendOk
  <1>12. CASE SendNotOk
    BY <1>12 DEF SendNotOk
  <1>13. CASE Record
    BY <1>13 DEF Record
  <1>14. CASE RecordException
    BY <1>14 DEF RecordException
  <1>15. CASE Emit
    BY <1>15 DEF Emit
  <1>16. CASE Crash
    BY <1>16 DEF Crash
  <1>17. CASE UNCHANGED vars
    BY <1>17 DEF vars
  <1>. QED
    BY <1>2, <1>3, <1>5, <1>6, <1>7, <1>8, <1>9, <1>10, <1>11, <1>12, <1>13, <1>14,
       <1>15, <1>16, <1>17, <1>4 DEF Next, Produce, Drain

-----------------------------------------------------------------------------
\* IInv holds in every reachable state.
THEOREM Invariant == Spec => []IInv
  <1>1. Init => IInv
    BY InitEstablishesIInv
  <1>2. IInv /\ [Next]_vars => IInv'
    BY TypePreserved, PlacementPreserved, RowsPreserved DEF IInv
  <1>. QED
    BY <1>1, <1>2, PTL DEF Spec

\* Type correctness of the queue, the rows and the worker's position.
THEOREM TypeCorrect == Spec => []TypeOK
  <1>1. IInv => TypeOK
    BY DEF IInv
  <1>. QED
    BY <1>1, Invariant, PTL

\* No message is put on the air twice, for any number of rows, any cycle length
\* and any combination of disconnects, database errors and restarts.
THEOREM TransmittedAtMostOnce == Spec => []AtMostOnce
  <1>1. IInv => AtMostOnce
    BY DEF IInv
  <1>. QED
    BY <1>1, Invariant, PTL

\* 'queued' means never handed to the modem, 'sent' means handed to it once.
THEOREM StatusIsTruthful == Spec => []StatusTellsAir
  <1>1. IInv => StatusTellsAir
    BY DEF IInv
  <1>. QED
    BY <1>1, Invariant, PTL

\* What the scheduler is told of a message is what its row ends with.
THEOREM OutcomeMatchesRow == Spec => []EmittedMatchesRow
  <1>1. IInv => EmittedMatchesRow
    BY DEF IInv
  <1>. QED
    BY <1>1, Invariant, PTL

\* One step of the queue is one step of the abstract life cycle of one row, or
\* leaves every row alone.
LEMMA StepRefines == IInv /\ [Next]_vars => [Lifecycle!LifecycleNext]_(Lifecycle!lifecycle)
  <1>. SUFFICES ASSUME IInv, [Next]_vars PROVE [Lifecycle!LifecycleNext]_(Lifecycle!lifecycle)
    OBVIOUS
  <1>. USE DEF rows, worker, Lifecycle!LifecycleNext, Lifecycle!lifecycle
  <1>1. cur # NoId => cur \in Ids
    BY DEF IInv, TypeOK
  <1>2. ASSUME NEW m \in Ids, Insert(m) PROVE Lifecycle!LifecycleNext
    <2>1. Lifecycle!Accept(m)
      BY <1>2 DEF Insert, IInv, TypeOK, Placement, Ids, Lifecycle!Accept
    <2>. QED
      BY <2>1
  <1>3. CASE MarkSending
    <2>1. cur \in Ids /\ Lifecycle!Start(cur)
      BY <1>1, <1>3 DEF MarkSending, IInv, TypeOK, WorkerRow, Lifecycle!Start
    <2>. QED
      BY <2>1
  <1>4. CASE SendOk \/ SendNotOk
    <2>1. cur \in Ids /\ status[cur] = "sending" /\ airs[cur] = 0 /\ UNCHANGED status
      BY <1>1, <1>4 DEF SendOk, SendNotOk, IInv, TypeOK, WorkerRow
    <2>2. airs' = airs \/ airs' = [airs EXCEPT ![cur] = airs[cur] + 1]
      BY <1>4 DEF SendOk, SendNotOk
    <2>3. airs' = airs \/ Lifecycle!Air(cur)
      BY <2>1, <2>2 DEF Lifecycle!Air
    <2>. QED
      BY <2>1, <2>3
  <1>5. CASE Record
    <2>1. cur \in Ids /\ (Lifecycle!FinishSent(cur) \/ Lifecycle!FinishFailed(cur))
      BY <1>1, <1>5 DEF Record, IInv, TypeOK, WorkerRow, Lifecycle!FinishSent, Lifecycle!FinishFailed
    <2>. QED
      BY <2>1
  <1>6. CASE RecordException
    <2>1. cur \in Ids /\ Lifecycle!FinishFailed(cur)
      BY <1>1, <1>6 DEF RecordException, IInv, TypeOK, WorkerRow, Lifecycle!FinishFailed
    <2>. QED
      BY <2>1
  <1>7. ASSUME NEW m \in Ids, Enqueue(m) \/ CreatorFails(m) PROVE UNCHANGED <<status, airs>>
    BY <1>7 DEF Enqueue, CreatorFails
  <1>8. CASE Connect \/ Disconnect \/ BeginCycle \/ LeaveLoop \/ Pop \/ EndDrain \/ Emit \/ Crash
    BY <1>8 DEF Connect, Disconnect, BeginCycle, LeaveLoop, Pop, EndDrain, Emit, Crash
  <1>9. CASE DropDisconnected \/ MarkFault \/ ExceptionFault \/ BeginSend \/ SendRefused \/ RecordFault
    BY <1>9 DEF DropDisconnected, MarkFault, ExceptionFault, Abandon, BeginSend, SendRefused, RecordFault
  <1>10. CASE UNCHANGED vars
    BY <1>10 DEF vars
  <1>. QED
    BY <1>2, <1>3, <1>4, <1>5, <1>6, <1>7, <1>8, <1>9, <1>10 DEF Next, Produce, Drain

\* The outbound path implements the life cycle promised for a message: accepted
\* once, started once, aired at most once, ended as sent only if aired.
THEOREM Refinement == Spec => ImplementsLifecycle
  <1>1. Init => Lifecycle!LifecycleInit
    BY DEF Init, Lifecycle!LifecycleInit
  <1>. QED
    BY <1>1, StepRefines, Invariant, PTL DEF Spec, ImplementsLifecycle, Lifecycle!LifecycleSpec
=============================================================================
