------------------------------ MODULE Storage ------------------------------
(***************************************************************************)
(* Database: one SQLite file, a connection per thread, and one lock around *)
(* every write.  execute() takes the lock, runs the statement, which opens *)
(* a transaction on the thread's connection, commits it or rolls it back,  *)
(* and releases the lock.  A transaction that was left open would be       *)
(* carried into the thread's next commit.                                  *)
(*                                                                         *)
(* SQLite is external: a statement or a commit happens or raises, and a    *)
(* statement raises while another connection has an open transaction (its  *)
(* busy timeout).  rollback() discards; that it raises itself, which the   *)
(* code swallows, is left out.                                             *)
(***************************************************************************)
CONSTANTS Threads,
          NoThread,        \* not a thread: the lock is free
          Writes,          \* the statements
          NoWrite,         \* not a statement
          Apply(_, _),     \* the content after a statement
          Allowed(_, _),   \* the statement violates no constraint
          Initial,         \* the content of a new file
          NoTx,            \* not a content: no transaction is open
          Faults           \* subset of {"statement", "commit"}

VARIABLES db,       \* the committed content
          wlock,    \* holder of _write_lock, or NoThread
          step,     \* step[t]: where t stands in execute()
          stmt,     \* stmt[t]: the statement it was called with
          tx        \* tx[t]: the content as t's open transaction sees it, or NoTx

Steps == {"idle", "wanted", "locked", "executed", "undo", "committed", "raised"}

StorageInit ==
  /\ db = Initial
  /\ wlock = NoThread
  /\ step = [t \in Threads |-> "idle"]
  /\ stmt = [t \in Threads |-> NoWrite]
  /\ tx = [t \in Threads |-> NoTx]

Go(t, where) == step' = [step EXCEPT ![t] = where]

\* row() and rows(): no lock; t's own open transaction is visible to it.
View(t) == IF tx[t] = NoTx THEN db ELSE tx[t]

Execute(t, w) ==
  /\ step[t] = "idle"
  /\ stmt' = [stmt EXCEPT ![t] = w]
  /\ Go(t, "wanted")
  /\ UNCHANGED <<db, wlock, tx>>

\* Variant: no lock.
TakeLockFreely(t) ==
  /\ step[t] = "wanted"
  /\ wlock' = t
  /\ Go(t, "locked")
  /\ UNCHANGED <<db, stmt, tx>>

TakeLock(t) ==
  /\ step[t] = "wanted"
  /\ wlock = NoThread
  /\ wlock' = t
  /\ Go(t, "locked")
  /\ UNCHANGED <<db, stmt, tx>>

Busy(t) == \E u \in Threads \ {t} : tx[u] # NoTx

RunStatement(t) ==
  /\ step[t] = "locked"
  /\ ~Busy(t) /\ Allowed(View(t), stmt[t])
  /\ tx' = [tx EXCEPT ![t] = Apply(View(t), stmt[t])]
  /\ Go(t, "executed")
  /\ UNCHANGED <<db, wlock, stmt>>

StatementFails(t) ==
  /\ step[t] = "locked"
  /\ "statement" \in Faults \/ Busy(t) \/ ~Allowed(View(t), stmt[t])
  /\ Go(t, "undo")
  /\ UNCHANGED <<db, wlock, stmt, tx>>

Commit(t) ==
  /\ step[t] = "executed"
  /\ db' = tx[t]
  /\ tx' = [tx EXCEPT ![t] = NoTx]
  /\ Go(t, "committed")
  /\ UNCHANGED <<wlock, stmt>>

CommitFails(t) ==
  /\ step[t] = "executed"
  /\ "commit" \in Faults
  /\ Go(t, "undo")
  /\ UNCHANGED <<db, wlock, stmt, tx>>

\* Variant: the except branch does not roll back.
RollbackSkipped(t) ==
  /\ step[t] = "undo"
  /\ Go(t, "raised")
  /\ UNCHANGED <<db, wlock, stmt, tx>>

Rollback(t) ==
  /\ step[t] = "undo"
  /\ tx' = [tx EXCEPT ![t] = NoTx]
  /\ Go(t, "raised")
  /\ UNCHANGED <<db, wlock, stmt>>

Working(t) ==
  TakeLock(t) \/ RunStatement(t) \/ StatementFails(t) \/ Commit(t) \/ CommitFails(t) \/ Rollback(t)

\* "finally": the lock is released and execute() returns, or the exception goes on.
Leave(t) ==
  /\ step[t] \in {"committed", "raised"}
  /\ wlock' = NoThread
  /\ stmt' = [stmt EXCEPT ![t] = NoWrite]
  /\ Go(t, "idle")
  /\ UNCHANGED <<db, tx>>

\* Threads and connections are gone; what was committed is there.
Restart ==
  /\ wlock' = NoThread
  /\ step' = [t \in Threads |-> "idle"]
  /\ stmt' = [t \in Threads |-> NoWrite]
  /\ tx' = [t \in Threads |-> NoTx]
  /\ UNCHANGED db

StorageNext ==
  \/ \E t \in Threads : Working(t) \/ Leave(t) \/ \E w \in Writes : Execute(t, w)
  \/ Restart

-----------------------------------------------------------------------------
\* The abstract calls: called until it has taken effect or raised.
CallState(t) ==
  IF step[t] = "idle" THEN NoWrite
  ELSE [write |-> stmt[t],
        state |-> IF step[t] = "committed" THEN "done"
                  ELSE IF step[t] = "raised" THEN "failed" ELSE "called"]

Store == INSTANCE AtomicStore WITH
  Idle <- NoWrite, content <- db, call <- [t \in Threads |-> CallState(t)]
=============================================================================
