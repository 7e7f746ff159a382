----------------------------- MODULE NotifyProofs -----------------------------
(***************************************************************************)
(* NotifyInv is an inductive invariant of Notify, for any numbers, filters *)
(* and bounds; the safety properties of the runs are parts of it.          *)
(***************************************************************************)
EXTENDS Notify, SequenceTheorems, TLAPS

\* One element more at the end, one less in front.
LEMMA AppendFacts ==
  ASSUME NEW E, NEW s \in Seq(E), NEW x \in E
  PROVE  /\ DOMAIN Append(s, x) = DOMAIN s \cup {Len(s) + 1}
         /\ Append(s, x)[Len(s) + 1] = x
         /\ \A i \in DOMAIN s : Append(s, x)[i] = s[i] /\ i \in Nat /\ i < Len(s) + 1
  OBVIOUS

LEMMA TailFacts ==
  ASSUME NEW E, NEW s \in Seq(E), s # <<>>
  PROVE  /\ Tail(s) \in Seq(E)
         /\ \A i \in DOMAIN Tail(s) : i \in Nat /\ i + 1 \in DOMAIN s /\ Tail(s)[i] = s[i + 1]
  OBVIOUS

-----------------------------------------------------------------------------
LEMMA InitEstablishesNotifyInv == Init => NotifyInv
  <1>. SUFFICES ASSUME Init PROVE NotifyInv
    OBVIOUS
  <1>. USE LimitsAssumption DEF Init
  <1>1. NotifyTypeOK
    <2>1. lastJob \in 0 .. MaxJob /\ lastCall \in [number : Numbers \cup {NoNumber}, age : 0 .. Dedup]
      OBVIOUS
    <2>2. pending \in Seq(Jobs) /\ \A c \in CfgIds : received[c] \in Seq(JobIds)
      OBVIOUS
    <2>. QED
      BY <2>1, <2>2 DEF NotifyTypeOK
  <1>. USE DEF NoJob
  <1>2. \A j : \A c \in CfgIds : ~Given(j, c)
    BY DEF Given
  <1>3. DeliveredInOrder /\ OnlyLastIsUnlogged /\ ServedInOrder
    BY <1>2 DEF DeliveredInOrder, OnlyLastIsUnlogged, ServedInOrder
  <1>4. InOrderOfArrival
    BY DEF InOrderOfArrival
  <1>. QED
    BY <1>1, <1>3, <1>4 DEF NotifyInv

-----------------------------------------------------------------------------
\* A job is no NoJob.
LEMMA JobsHaveNumbers == \A j \in Jobs : j.id \in JobIds /\ j # NoJob
  BY LimitsAssumption DEF Jobs, JobIds, NoJob

\* Types.
LEMMA NotifyTypePreserved == NotifyTypeOK /\ [Next]_vars => NotifyTypeOK'
  <1>. SUFFICES ASSUME NotifyTypeOK, [Next]_vars PROVE NotifyTypeOK'
    OBVIOUS
  <1>. USE LimitsAssumption, FiltersAssumption, JobsHaveNumbers DEF NotifyTypeOK, thread, records
  <1>1. ASSUME NEW e \in {"sms", "call"}, NEW n \in Numbers, Submit(e, n)
        PROVE  lastJob' \in 0 .. MaxJob /\ pending' \in Seq(Jobs)
    BY <1>1 DEF Submit, Jobs, JobIds
  <1>2. ASSUME NEW n \in Numbers, SmsStored(n) PROVE NotifyTypeOK'
    BY <1>1, <1>2 DEF SmsStored
  <1>3. ASSUME NEW n \in Numbers, IncomingCall(n) PROVE NotifyTypeOK'
    BY <1>1, <1>3 DEF IncomingCall
  <1>4. ASSUME NEW c \in CfgIds, EditConfig(c) PROVE NotifyTypeOK'
    BY <1>4 DEF EditConfig
  <1>5. CASE BeginJob
    BY <1>5 DEF BeginJob
  <1>6. CASE Deliver
    BY <1>6 DEF Deliver, IsNext
  <1>7. CASE Log
    BY <1>7 DEF Log, IsNext
  <1>8. CASE EndJob
    BY <1>8 DEF EndJob, ThreadIdle
  <1>9. CASE JobRaises
    <2>1. UNCHANGED pending \/ (pending # <<>> /\ pending' = Tail(pending))
      BY <1>9 DEF JobRaises
    <2>2. pending' \in Seq(Jobs)
      <3>1. pending \in Seq(Jobs)
        OBVIOUS
      <3>2. pending # <<>> => Tail(pending) \in Seq(Jobs)
        BY ONLY <3>1, TailFacts
      <3>. QED
        BY ONLY <2>1, <3>1, <3>2
    <2>. QED
      BY <1>9, <2>2 DEF JobRaises, ThreadIdle
  <1>10. CASE Crash
    BY <1>10 DEF Crash, ThreadIdle
  <1>11. CASE Tick
    <2>1. lastCall' \in [number : Numbers \cup {NoNumber}, age : 0 .. Dedup]
      <3>1. /\ lastCall \in [number : Numbers \cup {NoNumber}, age : 0 .. Dedup]
            /\ lastCall.age < Dedup /\ lastCall' = [lastCall EXCEPT !.age = @ + 1]
        BY <1>11 DEF Tick
      <3>2. lastCall.age + 1 \in 0 .. Dedup
        BY <3>1
      <3>. QED
        BY ONLY <3>1, <3>2
    <2>. QED
      BY <1>11, <2>1 DEF Tick
  <1>12. CASE UNCHANGED vars
    BY <1>12 DEF vars
  <1>. QED
    BY <1>2, <1>3, <1>4, <1>5, <1>6, <1>7, <1>8, <1>9, <1>10, <1>11, <1>12
       DEF Next, ThreadStep

-----------------------------------------------------------------------------
\* The order of the jobs.
LEMMA ArrivalPreserved == NotifyInv /\ [Next]_vars => InOrderOfArrival'
  <1>. SUFFICES ASSUME NotifyInv, [Next]_vars PROVE InOrderOfArrival'
    OBVIOUS
  <1>. USE JobsHaveNumbers, LimitsAssumption
       DEF NotifyInv, NotifyTypeOK, InOrderOfArrival, thread, records, JobIds
  <1>0. job.id \in Nat /\ \A i \in DOMAIN pending : pending[i].id \in Nat
    BY DEF NoJob
  <1>1. ASSUME NEW e \in {"sms", "call"}, NEW n \in Numbers, Submit(e, n), UNCHANGED <<thread, records>>
        PROVE  InOrderOfArrival'
    <2>1. /\ lastJob' = lastJob + 1
          /\ pending' = Append(pending, [id |-> lastJob + 1, event |-> e, sender |-> n])
      BY <1>1 DEF Submit
    <2>2. \A i \in DOMAIN pending' :
            IF i \in DOMAIN pending THEN pending'[i] = pending[i]
            ELSE i = Len(pending) + 1 /\ pending'[i].id = lastJob'
      BY <2>1
    <2>3. \A i \in DOMAIN pending : i <= Len(pending)
      OBVIOUS
    <2>4. \A i \in DOMAIN pending' : job.id < pending'[i].id /\ pending'[i].id <= lastJob'
      BY <1>0, <2>1, <2>2
    <2>5. \A i, k \in DOMAIN pending' : i < k => pending'[i].id < pending'[k].id
      <3>. SUFFICES ASSUME NEW i \in DOMAIN pending', NEW k \in DOMAIN pending', i < k
                    PROVE  pending'[i].id < pending'[k].id
        OBVIOUS
      <3>1. i \in DOMAIN pending
        BY <2>1
      <3>. QED
        BY <1>0, <2>1, <2>2, <3>1
    <2>6. \A c \in CfgIds : \A i \in DOMAIN received[c] :
            received[c][i] <= lastJob' /\ \A k \in DOMAIN pending' : received[c][i] < pending'[k].id
      BY <1>0, <2>1, <2>2
    <2>. QED
      BY <1>0, <1>1, <2>1, <2>4, <2>5, <2>6
  <1>2. ASSUME NEW n \in Numbers, SmsStored(n) PROVE InOrderOfArrival'
    BY <1>1, <1>2 DEF SmsStored
  <1>3. ASSUME NEW n \in Numbers, IncomingCall(n) PROVE InOrderOfArrival'
    BY <1>1, <1>3 DEF IncomingCall
  <1>4. ASSUME UNCHANGED <<lastJob, pending, thread, records>> PROVE InOrderOfArrival'
    BY <1>4
  <1>5. CASE BeginJob
    <2>1. pending # <<>> /\ job' = pending[1] /\ pending' = Tail(pending)
      BY <1>5 DEF BeginJob
    <2>2. \A i \in DOMAIN pending' : i + 1 \in DOMAIN pending /\ pending'[i] = pending[i + 1]
      BY <2>1
    <2>3. 1 \in DOMAIN pending /\ \A i \in DOMAIN pending' : 1 < i + 1
      BY <2>1
    <2>. QED
      BY <1>0, <1>5, <2>1, <2>2, <2>3 DEF BeginJob
  <1>6. CASE Deliver
    <2>. PICK c \in CfgIds : received' = [received EXCEPT ![c] = Append(@, job.id)]
      BY <1>6 DEF Deliver
    <2>1. \A d \in CfgIds : \A i \in DOMAIN received'[d] :
            IF i \in DOMAIN received[d] THEN received'[d][i] = received[d][i] ELSE received'[d][i] = job.id
      BY <1>0
    <2>2. UNCHANGED <<lastJob, pending, job>> /\ pc # "idle"
      BY <1>6 DEF Deliver
    <2>. QED
      BY <1>0, <2>1, <2>2
  <1>7. CASE Log
    BY <1>7 DEF Log
  <1>8. CASE EndJob
    BY <1>0, <1>8 DEF EndJob, ThreadIdle, NoJob
  <1>9. CASE JobRaises
    <2>1. CASE UNCHANGED pending
      BY <1>0, <1>9, <2>1 DEF JobRaises, ThreadIdle, NoJob
    <2>2. CASE pending # <<>> /\ pending' = Tail(pending)
      <3>1. \A i \in DOMAIN pending' : i + 1 \in DOMAIN pending /\ pending'[i] = pending[i + 1]
        BY <2>2, TailFacts
      <3>2. job'.id = 0 /\ pc' = "idle" /\ UNCHANGED <<lastJob, received>>
        BY <1>9 DEF JobRaises, ThreadIdle, NoJob
      <3>3. \A i \in DOMAIN pending : 0 < pending[i].id
        BY <1>0
      <3>4. \A i, k \in DOMAIN pending' : i < k => i + 1 < k + 1
        <4>1. \A i \in DOMAIN pending' : i \in Nat
          BY <2>2, TailFacts
        <4>. QED
          BY ONLY <4>1
      <3>. QED
        BY <1>0, <3>1, <3>2, <3>3, <3>4
    <2>. QED
      BY <1>9, <2>1, <2>2 DEF JobRaises
  <1>10. CASE Crash
    BY <1>0, <1>10 DEF Crash, ThreadIdle, NoJob
  <1>. QED
    BY <1>2, <1>3, <1>4, <1>5, <1>6, <1>7, <1>8, <1>9, <1>10
       DEF Next, ThreadStep, EditConfig, Tick, vars

-----------------------------------------------------------------------------
\* What the running job has reached.
LEMMA ServedPreserved == NotifyInv /\ [Next]_vars => ServedInOrder' /\ DeliveredInOrder' /\ OnlyLastIsUnlogged'
  <1>. SUFFICES ASSUME NotifyInv, [Next]_vars
                PROVE  ServedInOrder' /\ DeliveredInOrder' /\ OnlyLastIsUnlogged'
    OBVIOUS
  <1>. USE JobsHaveNumbers, LimitsAssumption
       DEF NotifyInv, NotifyTypeOK, thread, records, JobIds, CfgIds
  \* What was given and logged stays so.
  <1>1. ASSUME UNCHANGED records PROVE DeliveredInOrder' /\ OnlyLastIsUnlogged'
    BY <1>1 DEF DeliveredInOrder, OnlyLastIsUnlogged, Given
  <1>2. ASSUME UNCHANGED <<thread, records>> PROVE ServedInOrder'
    BY <1>2 DEF ServedInOrder, Given
  <1>3. ASSUME ThreadIdle PROVE ServedInOrder'
    BY <1>3 DEF ServedInOrder, ThreadIdle
  <1>4. CASE BeginJob
    <2>1. pending # <<>> /\ job' = pending[1] /\ 1 \in DOMAIN pending /\ received' = received
      BY <1>4 DEF BeginJob, records
    <2>2. \A c \in CfgIds : ~Given(job.id, c)'
      BY <2>1 DEF Given, InOrderOfArrival
    <2>. QED
      BY <1>1, <1>4, <2>2 DEF BeginJob, ServedInOrder
  <1>5. CASE Deliver
    <2>. PICK n \in CfgIds : IsNext(n) /\ received' = [received EXCEPT ![n] = Append(@, job.id)]
      BY <1>5 DEF Deliver
    <2>1. pc = "deliver" /\ pc' = "log" /\ UNCHANGED <<job, hits, logged>> /\ job.id \in JobIds
      BY <1>5 DEF Deliver
    <2>2. \A c \in CfgIds \ {n} : received'[c] = received[c]
      OBVIOUS
    <2>3. /\ DOMAIN received'[n] = DOMAIN received[n] \cup {Len(received[n]) + 1}
          /\ received'[n][Len(received[n]) + 1] = job.id
          /\ \A i \in DOMAIN received[n] : received'[n][i] = received[n][i] /\ i < Len(received[n]) + 1
      <3>1. received[n] \in Seq(JobIds) /\ received'[n] = Append(received[n], job.id) /\ job.id \in JobIds
        BY <2>1
      <3>. HIDE DEF JobIds
      <3>. QED
        BY ONLY <3>1, AppendFacts
    <2>4. \A j : \A c \in CfgIds : Given(j, c)' <=> Given(j, c) \/ (j = job.id /\ c = n)
      BY <2>2, <2>3 DEF Given
    \* n was not given the job before: what was comes before the next one.
    <2>5. \A c \in CfgIds : Given(job.id, c) => c < n /\ <<job.id, c>> \in logged
      BY <2>1 DEF ServedInOrder, IsNext
    <2>6. \A i \in DOMAIN received[n] : received[n][i] < job.id
      <3>. SUFFICES ASSUME NEW i \in DOMAIN received[n] PROVE received[n][i] < job.id
        OBVIOUS
      <3>1. received[n][i] <= job.id
        BY <2>1 DEF InOrderOfArrival
      <3>2. ~Given(job.id, n)
        <4>1. n \in Int
          OBVIOUS
        <4>2. Given(job.id, n) => n < n
          BY ONLY <2>5, n \in CfgIds, Zenon
        <4>. QED
          BY ONLY <4>1, <4>2
      <3>3. received[n][i] # job.id
        BY <3>2 DEF Given
      <3>. QED
        BY <2>1, <3>1, <3>3
    <2>7. DeliveredInOrder'
      BY <2>2, <2>3, <2>6 DEF DeliveredInOrder
    <2>8. OnlyLastIsUnlogged'
      <3>. SUFFICES ASSUME NEW j \in JobIds, NEW c \in CfgIds, NEW d \in CfgIds,
                           Given(j, c)', <<j, c>> \notin logged, c < d, Given(j, d)'
                    PROVE  FALSE
        BY <2>1 DEF OnlyLastIsUnlogged
      <3>1. CASE j = job.id
        <4>1. c = n
          BY <2>4, <2>5, <3>1
        <4>2. d = n \/ d < n
          BY <2>4, <2>5, <3>1
        <4>. QED
          BY <4>1, <4>2
      <3>2. CASE j # job.id
        BY <2>4, <3>2 DEF OnlyLastIsUnlogged
      <3>. QED
        BY <3>1, <3>2
    <2>9. ServedInOrder'
      BY <2>1, <2>4, <2>5 DEF ServedInOrder, IsNext
    <2>. QED
      BY <2>7, <2>8, <2>9
  <1>6. CASE Log
    <2>. PICK n \in CfgIds : IsNext(n) /\ logged' = logged \cup {<<job.id, n>>} /\ hits' = hits \ {n}
      BY <1>6 DEF Log
    <2>1. pc = "log" /\ pc' = "deliver" /\ UNCHANGED <<job, received>>
      BY <1>6 DEF Log
    <2>2. \A j : \A c \in CfgIds : Given(j, c)' <=> Given(j, c)
      BY <2>1 DEF Given
    <2>3. ServedInOrder'
      BY <2>1, <2>2 DEF ServedInOrder, IsNext
    <2>4. DeliveredInOrder' /\ OnlyLastIsUnlogged'
      BY <2>1, <2>2 DEF DeliveredInOrder, OnlyLastIsUnlogged
    <2>. QED
      BY <2>3, <2>4
  <1>. QED
    BY <1>1, <1>2, <1>3, <1>4, <1>5, <1>6
       DEF Next, ThreadStep, SmsStored, IncomingCall, EditConfig, EndJob, JobRaises, Crash, Tick, vars

-----------------------------------------------------------------------------
\* NotifyInv holds whatever the executor's thread, the two threads that submit jobs
\* and the config endpoints do in between.
THEOREM NotifyInvariant == Spec => []NotifyInv
  <1>1. NotifyInv /\ [Next]_vars => NotifyInv'
    BY NotifyTypePreserved, ArrivalPreserved, ServedPreserved DEF NotifyInv
  <1>. QED
    BY InitEstablishesNotifyInv, <1>1, PTL DEF Spec

\* Queue, job in work, configs and logs have their types.
THEOREM NotifyTypeCorrect == Spec => []NotifyTypeOK
  <1>1. NotifyInv => NotifyTypeOK
    BY DEF NotifyInv
  <1>. QED
    BY <1>1, NotifyInvariant, PTL

\* forward() notifies each target in the order of arrival and once per job, whatever
\* configs are edited while it works.
THEOREM TargetsAreServedInOrder == Spec => []DeliveredInOrder
  <1>1. NotifyInv => DeliveredInOrder
    BY DEF NotifyInv
  <1>. QED
    BY <1>1, NotifyInvariant, PTL

\* forward() goes on to the next target only after the row of the last one: a
\* delivery forward_logs does not know is the last one of its job.
THEOREM OnlyLastDeliveryIsUnlogged == Spec => []OnlyLastIsUnlogged
  <1>1. NotifyInv => OnlyLastIsUnlogged
    BY DEF NotifyInv
  <1>. QED
    BY <1>1, NotifyInvariant, PTL
=============================================================================
