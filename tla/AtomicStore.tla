---------------------------- MODULE AtomicStore ----------------------------
(***************************************************************************)
(* What the callers of Database.execute rely on: a write takes effect all  *)
(* at once, at some moment between call and return, or raises and has no   *)
(* effect, then or later.  A restart forgets the calls, never the content. *)
(***************************************************************************)
CONSTANTS Threads, Writes, Apply(_, _), Idle, Initial

VARIABLES content,   \* the tables
          call       \* call[t]: Idle, or [write, state] of t's execute

store == <<content, call>>

StoreInit == content = Initial /\ call = [t \in Threads |-> Idle]

Call(t) ==
  /\ call[t] = Idle
  /\ \E w \in Writes : call' = [call EXCEPT ![t] = [write |-> w, state |-> "called"]]
  /\ UNCHANGED content

TakeEffect(t) ==
  /\ call[t] # Idle /\ call[t].state = "called"
  /\ content' = Apply(content, call[t].write)
  /\ call' = [call EXCEPT ![t] = [write |-> call[t].write, state |-> "done"]]

Fail(t) ==
  /\ call[t] # Idle /\ call[t].state = "called"
  /\ call' = [call EXCEPT ![t] = [write |-> call[t].write, state |-> "failed"]]
  /\ UNCHANGED content

Return(t) ==
  /\ call[t] # Idle /\ call[t].state \in {"done", "failed"}
  /\ call' = [call EXCEPT ![t] = Idle]
  /\ UNCHANGED content

Forget ==
  /\ call' = [t \in Threads |-> Idle]
  /\ UNCHANGED content

StoreNext ==
  \/ \E t \in Threads : Call(t) \/ TakeEffect(t) \/ Fail(t) \/ Return(t)
  \/ Forget

StoreSpec == StoreInit /\ [][StoreNext]_store
=============================================================================
