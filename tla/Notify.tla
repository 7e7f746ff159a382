-------------------------------- MODULE Notify --------------------------------
(***************************************************************************)
(* Notifications.  The poll thread (a stored SMS) and the reader thread    *)
(* (an incoming call, unless it repeats the last one) submit jobs to an    *)
(* executor with one thread.  A job reads the enabled notify configs once, *)
(* delivers to those that match, one after the other, and writes a row of  *)
(* forward_logs after each delivery.  HTTP handlers change the configs at  *)
(* any moment.  Jobs are only in memory; nothing is retried.               *)
(***************************************************************************)
EXTENDS Naturals, Sequences

CONSTANTS Numbers,   \* callers and senders
          Filters,   \* the filters a config may have: [from, anyText]
          MaxCfg,    \* bound on the notify configs
          MaxJob,    \* bound on the jobs
          Dedup,     \* CALL_DEDUP_SECONDS
          Events     \* subset of {"db", "crash"}

ASSUME FiltersAssumption == Filters \subseteq [from : SUBSET Numbers, anyText : BOOLEAN]
ASSUME LimitsAssumption == MaxCfg \in Nat /\ MaxJob \in Nat /\ Dedup \in Nat

CfgIds == 1 .. MaxCfg
JobIds == 1 .. MaxJob
\* A config that is disabled, deleted or not created yet: it matches nothing.
Off == [from |-> {}, anyText |-> FALSE]
NoNumber == "nobody"
NoJob == [id |-> 0, event |-> "none", sender |-> NoNumber]

VARIABLES
  config,    \* notify_configs by id: the filter, or Off
  lastCall,  \* _last_call: [number, age], the age saturates at Dedup
  lastJob,   \* number of jobs submitted since the start
  pending,   \* the executor's queue
  pc,        \* the notification thread: "idle", "deliver", "log"
  job,       \* the job it runs
  hits,      \* configs still to be served, in the order of their ids, as forward() found them
  received,  \* received[c]: the jobs config c's target was given, in order
  logged     \* forward_logs: <<job, config>>

vars == <<config, lastCall, lastJob, pending, pc, job, hits, received, logged>>
thread == <<pc, job, hits>>
records == <<received, logged>>

-----------------------------------------------------------------------------
Init ==
  /\ config = [c \in CfgIds |-> Off]
  /\ lastCall = [number |-> NoNumber, age |-> Dedup]
  /\ lastJob = 0
  /\ pending = <<>>
  /\ pc = "idle" /\ job = NoJob /\ hits = {}
  /\ received = [c \in CfgIds |-> <<>>]
  /\ logged = {}

\* _dispatch_notify.
Submit(event, n) ==
  /\ lastJob < MaxJob
  /\ lastJob' = lastJob + 1
  /\ pending' = Append(pending, [id |-> lastJob', event |-> event, sender |-> n])

\* _store_incoming, after the INSERT.
SmsStored(n) ==
  /\ Submit("sms", n)
  /\ UNCHANGED <<config, lastCall, thread, records>>

\* _on_incoming_call.
IncomingCall(n) ==
  /\ n # lastCall.number \/ lastCall.age >= Dedup
  /\ lastCall' = [number |-> n, age |-> 0]
  /\ Submit("call", n)
  /\ UNCHANGED <<config, thread, records>>

\* POST, PUT and DELETE /api/notify-configs.
EditConfig(c) ==
  /\ \E f \in Filters \cup {Off} : config' = [config EXCEPT ![c] = f]
  /\ UNCHANGED <<lastCall, lastJob, pending, thread, records>>

(***************************************************************************)
(* The notification thread: _run_notify_job and Forwarder.forward.         *)
(***************************************************************************)
\* _match; the text filter is ignored for calls.
Match(filter, j) == j.sender \in filter.from /\ (j.event = "call" \/ filter.anyText)

\* Variant: two threads serve the queue, so the younger job may overtake.
BeginJobOvertakes ==
  /\ pc = "idle"
  /\ \E i \in DOMAIN pending :
       /\ job' = pending[i]
       /\ pending' = SubSeq(pending, 1, i - 1) \o SubSeq(pending, i + 1, Len(pending))
  /\ hits' = {c \in CfgIds : Match(config[c], job')}
  /\ pc' = "deliver"
  /\ UNCHANGED <<config, lastCall, lastJob, records>>

\* The next job: SELECT the enabled configs, keep the ones that match.
BeginJob ==
  /\ pc = "idle"
  /\ pending # <<>>
  /\ job' = Head(pending)
  /\ pending' = Tail(pending)
  /\ hits' = {c \in CfgIds : Match(config[c], job')}
  /\ pc' = "deliver"
  /\ UNCHANGED <<config, lastCall, lastJob, records>>

IsNext(c) == c \in hits /\ \A d \in hits : c <= d

\* _deliver: whatever the target says, or no answer in time, it is one attempt.
Deliver ==
  /\ pc = "deliver"
  /\ \E c \in CfgIds : IsNext(c) /\ received' = [received EXCEPT ![c] = Append(@, job.id)]
  /\ pc' = "log"
  /\ UNCHANGED <<config, lastCall, lastJob, pending, job, hits, logged>>

\* Variant: the row of the last config that matched is enough.
LogLastOnly ==
  /\ pc = "log"
  /\ \E c \in CfgIds :
       /\ IsNext(c)
       /\ logged' = IF hits = {c} THEN logged \cup {<<job.id, c>>} ELSE logged
       /\ hits' = hits \ {c}
  /\ pc' = "deliver"
  /\ UNCHANGED <<config, lastCall, lastJob, pending, job, received>>

\* INSERT INTO forward_logs.
Log ==
  /\ pc = "log"
  /\ \E c \in CfgIds :
       /\ IsNext(c)
       /\ logged' = logged \cup {<<job.id, c>>}
       /\ hits' = hits \ {c}
  /\ pc' = "deliver"
  /\ UNCHANGED <<config, lastCall, lastJob, pending, job, received>>

ThreadIdle == pc' = "idle" /\ job' = NoJob /\ hits' = {}

\* Variant: nothing catches the exception, and the thread ends.
JobRaisesEndsThread ==
  /\ "db" \in Events
  /\ pc = "log"
  /\ pc' = "dead"
  /\ UNCHANGED <<config, lastCall, lastJob, pending, job, hits, records>>

\* The SELECT or the INSERT raises: _run_notify_job swallows it, and the configs
\* that were still to be served are not.
JobRaises ==
  /\ "db" \in Events
  /\ \/ pc = "log" /\ UNCHANGED pending
     \/ pc = "idle" /\ pending # <<>> /\ pending' = Tail(pending)
  /\ ThreadIdle
  /\ UNCHANGED <<config, lastCall, lastJob, records>>

\* Variant: the job stays the thread's.
EndJobKeepsJob ==
  /\ pc = "deliver"
  /\ hits = {}
  /\ pc' = "idle"
  /\ UNCHANGED <<config, lastCall, lastJob, pending, job, hits, records>>

EndJob ==
  /\ pc = "deliver"
  /\ hits = {}
  /\ ThreadIdle
  /\ UNCHANGED <<config, lastCall, lastJob, pending, records>>

\* The process restarts.
Crash ==
  /\ "crash" \in Events
  /\ lastCall' = [number |-> NoNumber, age |-> Dedup]
  /\ pending' = <<>>
  /\ ThreadIdle
  /\ UNCHANGED <<config, lastJob, records>>

Tick ==
  /\ lastCall.age < Dedup
  /\ lastCall' = [lastCall EXCEPT !.age = @ + 1]
  /\ UNCHANGED <<config, lastJob, pending, thread, records>>

-----------------------------------------------------------------------------
ThreadStep == BeginJob \/ Deliver \/ Log \/ EndJob

Next ==
  \/ \E n \in Numbers : SmsStored(n) \/ IncomingCall(n)
  \/ \E c \in CfgIds : EditConfig(c)
  \/ ThreadStep \/ JobRaises \/ Crash \/ Tick

Spec == Init /\ [][Next]_vars

\* The executor's thread keeps running; every delivery has a timeout.
FairSpec == Spec /\ WF_vars(ThreadStep)

-----------------------------------------------------------------------------
Jobs == [id : JobIds, event : {"sms", "call"}, sender : Numbers]

NotifyTypeOK ==
  /\ config \in [CfgIds -> Filters \cup {Off}]
  /\ lastCall \in [number : Numbers \cup {NoNumber}, age : 0 .. Dedup]
  /\ lastJob \in 0 .. MaxJob
  /\ pending \in Seq(Jobs)
  /\ pc \in {"idle", "deliver", "log"}
  /\ job \in Jobs \cup {NoJob} /\ (pc = "idle" <=> job = NoJob)
  /\ hits \subseteq CfgIds /\ (pc = "log" => hits # {})
  /\ received \in [CfgIds -> Seq(JobIds)]
  /\ logged \subseteq JobIds \X CfgIds

\* Each target gets its notifications in the order in which SMS and calls came
\* in, and none twice, while configs are edited and the process restarts.
DeliveredInOrder ==
  \A c \in CfgIds : \A i, k \in DOMAIN received[c] : i < k => received[c][i] < received[c][k]

Given(j, c) == \E i \in DOMAIN received[c] : received[c][i] = j

\* forward_logs tells which targets a job reached, except for the last delivery
\* of a job that raised or was cut off there: no delivery comes after one that
\* has no row.
OnlyLastIsUnlogged ==
  \A j \in JobIds, c, d \in CfgIds :
    Given(j, c) /\ <<j, c>> \notin logged /\ c < d => ~Given(j, d)

\* Jobs are numbered in the order they came in: the ones that wait come after the one
\* that runs, and after all that were delivered.
InOrderOfArrival ==
  /\ job.id <= lastJob
  /\ \A i \in DOMAIN pending : job.id < pending[i].id /\ pending[i].id <= lastJob
  /\ \A i, k \in DOMAIN pending : i < k => pending[i].id < pending[k].id
  /\ \A c \in CfgIds : \A i \in DOMAIN received[c] :
       /\ received[c][i] <= lastJob
       /\ pc # "idle" => received[c][i] <= job.id
       /\ \A k \in DOMAIN pending : received[c][i] < pending[k].id

\* The configs the running job has reached come before the ones it has not, and have
\* their row, except for one delivery whose row is being written.
ServedInOrder ==
  \A c \in CfgIds : Given(job.id, c) =>
    /\ pc = "deliver" => <<job.id, c>> \in logged /\ \A d \in hits : c < d
    /\ pc = "log" => (<<job.id, c>> \in logged \/ c \in hits) /\ \A d \in hits : c <= d

\* The inductive invariant: what the theorems of NotifyProofs rest on.
NotifyInv ==
  NotifyTypeOK /\ DeliveredInOrder /\ OnlyLastIsUnlogged /\ InOrderOfArrival /\ ServedInOrder

\* A job does not wait for ever behind a slow or raising one.
JobsAreServed ==
  \A j \in JobIds : (\E i \in DOMAIN pending : pending[i].id = j) ~> \A i \in DOMAIN pending : pending[i].id # j
=============================================================================
