-------------------------- MODULE MessageLifecycle --------------------------
(***************************************************************************)
(* What the bridge promises about one outbound SMS, without queue, worker  *)
(* or modem: a row of the table "messages" is accepted as 'queued', starts *)
(* at most once, is put on the air at most once, and ends as 'sent' (only  *)
(* when it went on the air) or 'failed'.  OutboundQueue implements it.     *)
(***************************************************************************)
EXTENDS Naturals

CONSTANT Ids            \* identities of the outbound rows

VARIABLES status,       \* status[m]: the row's column "status", "none" before it exists
          airs          \* airs[m]: how often m was handed to the network

lifecycle == <<status, airs>>

Statuses == {"none", "queued", "sending", "sent", "failed"}

LifecycleInit ==
  /\ status = [m \in Ids |-> "none"]
  /\ airs = [m \in Ids |-> 0]

\* The API or the scheduler creates the row.
Accept(m) ==
  /\ status[m] = "none"
  /\ status' = [status EXCEPT ![m] = "queued"]
  /\ UNCHANGED airs

Start(m) ==
  /\ status[m] = "queued"
  /\ status' = [status EXCEPT ![m] = "sending"]
  /\ UNCHANGED airs

Air(m) ==
  /\ status[m] = "sending"
  /\ airs[m] = 0
  /\ airs' = [airs EXCEPT ![m] = 1]
  /\ UNCHANGED status

FinishSent(m) ==
  /\ status[m] = "sending"
  /\ airs[m] = 1
  /\ status' = [status EXCEPT ![m] = "sent"]
  /\ UNCHANGED airs

\* A failure may be reported for a message the network did carry: the answer
\* to AT+CMGS is what can be lost.
FinishFailed(m) ==
  /\ status[m] = "sending"
  /\ status' = [status EXCEPT ![m] = "failed"]
  /\ UNCHANGED airs

LifecycleNext ==
  \E m \in Ids : Accept(m) \/ Start(m) \/ Air(m) \/ FinishSent(m) \/ FinishFailed(m)

LifecycleSpec == LifecycleInit /\ [][LifecycleNext]_lifecycle
=============================================================================
