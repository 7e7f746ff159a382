-------------------------- MODULE AdminAccessProofs --------------------------
(***************************************************************************)
(* Theorems of AdminAccess and of the Storage it uses, for any threads,    *)
(* names, passwords, limiter bounds and faults.  AdminInv is inductive;    *)
(* each of its parts has its lemma, with one step per action.              *)
(***************************************************************************)
EXTENDS AdminAccess, FiniteSetTheorems, TLAPS

USE DEF storage, handlers

\* What a statement does to the table: an INSERT fills the row, an UPDATE changes one
\* that is there; no row is ever emptied, and an UPDATE makes none.
LEMMA ApplyFacts ==
  ASSUME NEW d \in Tables, NEW w \in Writes
  PROVE  /\ ApplyTo(d, w) \in Tables
         /\ Admins(d) \subseteq Admins(ApplyTo(d, w))
         /\ w.what = "insert" => Admins(ApplyTo(d, w)) = Admins(d) \cup {w.name}
         /\ w.what = "update" => Admins(ApplyTo(d, w)) = Admins(d)
  BY NothingAssumption DEF Tables, Writes, ApplyTo, Admins

\* The limiter's key of a login is the pair it came as.
LEMMA KeyOfRequest ==
  ASSUME NEW client \in Keys, NEW p
  PROVE  LoginKey(Request(client[2], p, client[1])) = client
  BY KeysAssumption DEF LoginKey, Request

LEMMA InitEstablishesAdminInv == Init => AdminInv
  <1>. SUFFICES ASSUME Init PROVE AdminInv
    OBVIOUS
  <1>. USE DEF Init, S!StorageInit, NoAdmin
  <1>1. AdminTypeOK
    BY LimiterAssumption, ThreadsAssumption
    DEF AdminTypeOK, Tables, S!Steps, NoRequest, Request, Requests, NoAttempts
  <1>2. CallsMatch
    BY DEF CallsMatch
  <1>3. SetupIsFirst /\ TokensAreForAdmins
    BY DEF SetupIsFirst, TokensAreForAdmins, Admins
  <1>4. CountsOwnFailures
    BY DEF CountsOwnFailures, NoAttempts
  <1>5. CountsInFlight
    <2>1. \A k \in Keys : InFlight(k) = {}
      BY DEF InFlight
    <2>2. Cardinality(Threads) \in Nat
      BY FS_CardinalityType, ThreadsAssumption
    <2>3. \A k \in Keys : attempts[k].fails = 0 /\ Cardinality(InFlight(k)) = 0
      BY <2>1, FS_EmptySet DEF NoAttempts
    <2>. QED
      BY <2>2, <2>3, LimiterAssumption DEF CountsInFlight
  <1>. QED
    BY <1>1, <1>2, <1>3, <1>4, <1>5 DEF AdminInv

\* Types and the two locks.
LEMMA TypePreserved == AdminInv /\ [Next]_vars => AdminTypeOK'
  <1>. SUFFICES ASSUME AdminInv, [Next]_vars PROVE AdminTypeOK'
    OBVIOUS
  <1>. USE LimiterAssumption, ThreadsAssumption, NothingAssumption, KeysAssumption
       DEF AdminInv, AdminTypeOK, CallsMatch, SetupIsFirst, S!Steps, S!Go, Requests, NoRequest, Request, Begin, Answer
  <1>1. ASSUME NEW t \in Threads, SetupBegins(t) PROVE AdminTypeOK'
    BY <1>1 DEF SetupBegins, S!Execute, Writes
  <1>2. ASSUME NEW t \in Threads, SetupEnds(t) PROVE AdminTypeOK'
    BY <1>2 DEF SetupEnds, S!Leave, Admins
  <1>3. ASSUME NEW t \in Threads, LoginArrives(t) PROVE AdminTypeOK'
    <2>1. PICK client \in Keys, p \in Passwords :
            LET k == LoginKey(Request(client[2], p, client[1])) IN
            /\ attempts' = IF Expired(k) THEN [attempts EXCEPT ![k] = NoAttempts] ELSE attempts
            /\ Begin(t, "login", Request(client[2], p, client[1]))
      BY <1>3 DEF LoginArrives
    <2>2. client[2] \in Names
      OBVIOUS
    <2>3. attempts' = IF Expired(client) THEN [attempts EXCEPT ![client] = NoAttempts] ELSE attempts
      <3>1. LoginKey(Request(client[2], p, client[1])) = client
        BY KeyOfRequest, Zenon
      <3>. QED
        BY <2>1, <3>1, Zenon
    <2>4. attempts' \in [Keys -> [fails : Nat, age : 0 .. Window + 1]]
      BY <2>3 DEF NoAttempts
    <2>5. req'[t] \in Requests /\ req' = [req EXCEPT ![t] = req'[t]] /\ pc' = [pc EXCEPT ![t] = "login"]
      BY <2>1, <2>2
    <2>. QED
      BY <1>3, <2>4, <2>5 DEF LoginArrives
  <1>4. ASSUME NEW t \in Threads, LoginVerifies(t) PROVE AdminTypeOK'
    BY <1>4 DEF LoginVerifies
  <1>5. ASSUME NEW t \in Threads, LoginFails(t) PROVE AdminTypeOK'
    BY <1>5 DEF LoginFails, Failed, AtMost, LoginKey
  <1>6. ASSUME NEW t \in Threads, LoginSucceeds(t) PROVE AdminTypeOK'
    BY <1>6 DEF LoginSucceeds, NoAttempts, LoginKey
  <1>7. ASSUME NEW t \in Threads, ChangeBegins(t) PROVE AdminTypeOK'
    BY <1>7 DEF ChangeBegins, S!Execute, Writes
  <1>8. ASSUME NEW t \in Threads, ChangeEnds(t) PROVE AdminTypeOK'
    BY <1>8 DEF ChangeEnds, S!Leave
  <1>9. ASSUME NEW t \in Threads, S!Working(t), UNCHANGED handlers PROVE AdminTypeOK'
    <2>1. CASE S!TakeLock(t)
      BY <1>9, <2>1 DEF S!TakeLock
    <2>2. CASE S!RunStatement(t)
      BY <1>9, <2>2, ApplyFacts DEF S!RunStatement, S!View
    <2>3. CASE S!StatementFails(t)
      BY <1>9, <2>3 DEF S!StatementFails
    <2>4. CASE S!Commit(t)
      BY <1>9, <2>4 DEF S!Commit
    <2>5. CASE S!CommitFails(t)
      BY <1>9, <2>5 DEF S!CommitFails
    <2>6. CASE S!Rollback(t)
      BY <1>9, <2>6 DEF S!Rollback
    <2>. QED
      BY <1>9, <2>1, <2>2, <2>3, <2>4, <2>5, <2>6 DEF S!Working
  <1>10. CASE Tick
    BY <1>10 DEF Tick, AtMost
  <1>11. CASE Restart
    BY <1>11 DEF Restart, S!Restart, NoAttempts
  <1>12. CASE UNCHANGED vars
    BY <1>12 DEF vars
  <1>. QED
    BY <1>1, <1>2, <1>3, <1>4, <1>5, <1>6, <1>7, <1>8, <1>9, <1>10, <1>11, <1>12 DEF Next, Handler

\* Every call is its request's, and no transaction is older than its call.
LEMMA CallsPreserved == AdminInv /\ [Next]_vars => CallsMatch'
  <1>. SUFFICES ASSUME AdminInv, [Next]_vars PROVE CallsMatch'
    OBVIOUS
  <1>. USE ThreadsAssumption, NothingAssumption
       DEF AdminInv, AdminTypeOK, CallsMatch, S!Go, Request, NoRequest, Begin, Answer
  <1>1. ASSUME NEW t \in Threads, SetupBegins(t) PROVE CallsMatch'
    BY <1>1 DEF SetupBegins, S!Execute, Writes
  <1>2. ASSUME NEW t \in Threads, SetupEnds(t) PROVE CallsMatch'
    BY <1>2 DEF SetupEnds, S!Leave
  <1>3. ASSUME NEW t \in Threads, LoginArrives(t) PROVE CallsMatch'
    BY <1>3 DEF LoginArrives
  <1>4. ASSUME NEW t \in Threads, LoginVerifies(t) PROVE CallsMatch'
    BY <1>4 DEF LoginVerifies
  <1>5. ASSUME NEW t \in Threads, LoginFails(t) PROVE CallsMatch'
    BY <1>5 DEF LoginFails
  <1>6. ASSUME NEW t \in Threads, LoginSucceeds(t) PROVE CallsMatch'
    BY <1>6 DEF LoginSucceeds
  <1>7. ASSUME NEW t \in Threads, ChangeBegins(t) PROVE CallsMatch'
    BY <1>7 DEF ChangeBegins, S!Execute, Writes
  <1>8. ASSUME NEW t \in Threads, ChangeEnds(t) PROVE CallsMatch'
    BY <1>8 DEF ChangeEnds, S!Leave
  <1>9. ASSUME NEW t \in Threads, S!Working(t), UNCHANGED handlers PROVE CallsMatch'
    <2>1. CASE S!TakeLock(t)
      BY <1>9, <2>1 DEF S!TakeLock
    <2>2. CASE S!RunStatement(t)
      BY <1>9, <2>2, ApplyFacts DEF S!RunStatement, S!View
    <2>3. CASE S!StatementFails(t)
      BY <1>9, <2>3 DEF S!StatementFails
    <2>4. CASE S!Commit(t)
      \* No other transaction is open: the lock is t's.
      <3>1. \A u \in Threads \ {t} : tx[u] = NoTx
        BY <2>4 DEF S!Commit
      <3>. QED
        BY <1>9, <2>4, <3>1 DEF S!Commit
    <2>5. CASE S!CommitFails(t)
      BY <1>9, <2>5 DEF S!CommitFails
    <2>6. CASE S!Rollback(t)
      BY <1>9, <2>6 DEF S!Rollback
    <2>. QED
      BY <1>9, <2>1, <2>2, <2>3, <2>4, <2>5, <2>6 DEF S!Working
  <1>10. CASE Tick
    BY <1>10 DEF Tick
  <1>11. CASE Restart
    BY <1>11 DEF Restart, S!Restart
  <1>12. CASE UNCHANGED vars
    BY <1>12 DEF vars
  <1>. QED
    BY <1>1, <1>2, <1>3, <1>4, <1>5, <1>6, <1>7, <1>8, <1>9, <1>10, <1>11, <1>12 DEF Next, Handler

\* Setup creates one admin, and only admins get tokens.
LEMMA AdminsPreserved == AdminInv /\ [Next]_vars => (SetupIsFirst /\ TokensAreForAdmins)'
  <1>. SUFFICES ASSUME AdminInv, [Next]_vars PROVE (SetupIsFirst /\ TokensAreForAdmins)'
    OBVIOUS
  <1>. USE ThreadsAssumption, NothingAssumption
       DEF AdminInv, AdminTypeOK, CallsMatch, SetupIsFirst, TokensAreForAdmins, S!Go, Request, NoRequest, Begin, Answer
  <1>1. ASSUME NEW t \in Threads, SetupBegins(t) PROVE (SetupIsFirst /\ TokensAreForAdmins)'
    \* The lock was free: no other setup is under way; and t's view is the table.
    <2>1. tx[t] = NoTx /\ \A u \in Threads : pc[u] # "setup"
      BY <1>1 DEF SetupBegins, S!Execute
    <2>2. Admins(db) = {}
      BY <1>1, <2>1 DEF SetupBegins, S!View
    <2>. QED
      BY <1>1, <2>1, <2>2 DEF SetupBegins, S!Execute, Admins, LoginKey
  <1>2. ASSUME NEW t \in Threads, SetupEnds(t) PROVE (SetupIsFirst /\ TokensAreForAdmins)'
    <2>1. db' = db /\ tokens' \subseteq Admins(db)
      BY <1>2 DEF SetupEnds, S!Leave
    <2>2. \A u \in Threads : u # t => pc'[u] = pc[u] /\ req'[u] = req[u] /\ step'[u] = step[u]
      BY <1>2 DEF SetupEnds, S!Leave
    <2>3. pc'[t] = "idle"
      BY <1>2 DEF SetupEnds
    <2>. QED
      BY <2>1, <2>2, <2>3 DEF Admins, LoginKey
  <1>3. ASSUME NEW t \in Threads, LoginArrives(t) PROVE (SetupIsFirst /\ TokensAreForAdmins)'
    <2>1. PICK client \in Keys, p \in Passwords : Begin(t, "login", Request(client[2], p, client[1]))
      BY <1>3 DEF LoginArrives
    <2>2. LoginKey(req'[t]) \in Keys /\ req'[t].name \in Names /\ req'[t].password \in Passwords
      BY <2>1, KeysAssumption, KeyOfRequest
    <2>. QED
      BY <1>3, <2>1, <2>2 DEF LoginArrives, Admins, LoginKey
  <1>4. ASSUME NEW t \in Threads, LoginVerifies(t) PROVE (SetupIsFirst /\ TokensAreForAdmins)'
    BY <1>4 DEF LoginVerifies, S!View, Admins, LoginKey
  <1>5. ASSUME NEW t \in Threads, LoginFails(t) PROVE (SetupIsFirst /\ TokensAreForAdmins)'
    BY <1>5 DEF LoginFails, Admins, LoginKey
  <1>6. ASSUME NEW t \in Threads, LoginSucceeds(t) PROVE (SetupIsFirst /\ TokensAreForAdmins)'
    BY <1>6 DEF LoginSucceeds, Admins, LoginKey
  <1>7. ASSUME NEW t \in Threads, ChangeBegins(t) PROVE (SetupIsFirst /\ TokensAreForAdmins)'
    BY <1>7 DEF ChangeBegins, S!Execute, Admins, LoginKey
  <1>8. ASSUME NEW t \in Threads, ChangeEnds(t) PROVE (SetupIsFirst /\ TokensAreForAdmins)'
    BY <1>8 DEF ChangeEnds, S!Leave, Admins, LoginKey
  <1>9. ASSUME NEW t \in Threads, S!Working(t), UNCHANGED handlers
        PROVE (SetupIsFirst /\ TokensAreForAdmins)'
    <2>1. CASE S!Commit(t)
      <3>1. stmt[t] \in Writes /\ db' = ApplyTo(db, stmt[t])
        BY <2>1 DEF S!Commit
      <3>2. CASE pc[t] = "setup"
        <4>1. Admins(db') = {req[t].name} /\ \A u \in Threads \ {t} : pc[u] # "setup"
          BY <2>1, <3>1, <3>2, ApplyFacts DEF S!Commit
        <4>. QED
          BY <1>9, <2>1, <3>2, <4>1 DEF S!Commit, Admins, LoginKey
      <3>3. CASE pc[t] = "change"
        <4>1. Admins(db') = Admins(db)
          BY <2>1, <3>1, <3>3, ApplyFacts DEF S!Commit
        <4>. QED
          BY <1>9, <2>1, <3>3, <4>1 DEF S!Commit, LoginKey
      <3>. QED
        BY <2>1, <3>2, <3>3 DEF S!Commit
    <2>2. CASE ~S!Commit(t)
      <3>1. db' = db /\ \A u \in Threads : step'[u] = "committed" <=> step[u] = "committed"
        BY <1>9, <2>2
        DEF S!Working, S!TakeLock, S!RunStatement, S!StatementFails, S!CommitFails, S!Rollback
      <3>. QED
        BY <1>9, <3>1 DEF Admins, LoginKey
    <2>. QED
      BY <2>1, <2>2
  <1>10. CASE Tick
    BY <1>10 DEF Tick, Admins, LoginKey
  <1>11. CASE Restart
    BY <1>11 DEF Restart, S!Restart, Admins, LoginKey
  <1>12. CASE UNCHANGED vars
    BY <1>12 DEF vars, Admins, LoginKey
  <1>. QED
    BY <1>1, <1>2, <1>3, <1>4, <1>5, <1>6, <1>7, <1>8, <1>9, <1>10, <1>11, <1>12 DEF Next, Handler

\* The sets of logins in flight are finite, and no larger than the set of threads.
LEMMA InFlightBounded ==
  ASSUME NEW k
  PROVE  /\ IsFiniteSet(InFlight(k)) /\ Cardinality(InFlight(k)) \in Nat
         /\ Cardinality(InFlight(k)) <= Cardinality(Threads) /\ Cardinality(Threads) \in Nat
  <1>1. InFlight(k) \subseteq Threads
    BY DEF InFlight
  <1>. QED
    BY <1>1, FS_Subset, FS_CardinalityType, ThreadsAssumption

LEMMA InFlightBoundedNext ==
  ASSUME NEW k
  PROVE  /\ IsFiniteSet(InFlight(k)') /\ Cardinality(InFlight(k)') \in Nat
         /\ Cardinality(InFlight(k)') <= Cardinality(Threads)
  <1>1. InFlight(k)' \subseteq Threads
    BY DEF InFlight
  <1>. QED
    BY <1>1, FS_Subset, FS_CardinalityType, ThreadsAssumption

\* The limiter: what it counts stays below its cap by the logins in flight, and is the
\* doing of the key it counts for.
LEMMA CountsPreserved == AdminInv /\ [Next]_vars => (CountsOwnFailures /\ CountsInFlight)'
  <1>. SUFFICES ASSUME AdminInv, [Next]_vars PROVE (CountsOwnFailures /\ CountsInFlight)'
    OBVIOUS
  <1>. USE LimiterAssumption, ThreadsAssumption DEF AdminInv, AdminTypeOK, CountsOwnFailures, CountsInFlight
  \* Steps that touch neither the limiter nor a login.
  <1>1. ASSUME UNCHANGED <<attempts, wrong>>, \A k \in Keys : InFlight(k)' = InFlight(k)
        PROVE  (CountsOwnFailures /\ CountsInFlight)'
    BY <1>1
  <1>2. ASSUME NEW t \in Threads, SetupBegins(t) \/ SetupEnds(t) \/ ChangeBegins(t) \/ ChangeEnds(t)
        PROVE  (CountsOwnFailures /\ CountsInFlight)'
    <2>1. UNCHANGED <<attempts, wrong>> /\ \A u \in Threads : u # t => pc'[u] = pc[u] /\ req'[u] = req[u]
      BY <1>2 DEF SetupBegins, SetupEnds, ChangeBegins, ChangeEnds, Begin, Answer
    <2>2. {pc[t], pc'[t]} \cap {"login", "right", "wrong"} = {}
      BY <1>2 DEF SetupBegins, SetupEnds, ChangeBegins, ChangeEnds, Begin, Answer
    <2>3. ASSUME NEW k \in Keys, NEW u \in Threads PROVE u \in InFlight(k)' <=> u \in InFlight(k)
      <3>1. CASE u = t
        BY <2>2, <3>1 DEF InFlight
      <3>2. CASE u # t
        BY <2>1, <3>2 DEF InFlight, LoginKey
      <3>. QED
        BY <3>1, <3>2
    <2>4. \A k \in Keys : InFlight(k)' = InFlight(k)
      BY <2>3 DEF InFlight
    <2>. QED
      BY <1>1, <2>1, <2>4
  <1>3. ASSUME NEW t \in Threads, LoginArrives(t) PROVE (CountsOwnFailures /\ CountsInFlight)'
    <2>1. PICK client \in Keys, p \in Passwords :
            LET k == LoginKey(Request(client[2], p, client[1])) IN
            /\ ~Blocked(k)
            /\ attempts' = IF Expired(k) THEN [attempts EXCEPT ![k] = NoAttempts] ELSE attempts
            /\ Begin(t, "login", Request(client[2], p, client[1]))
      BY <1>3 DEF LoginArrives
    <2>2. LoginKey(Request(client[2], p, client[1])) = client
      BY KeyOfRequest, Zenon
    <2>3. /\ ~Blocked(client)
          /\ attempts' = IF Expired(client) THEN [attempts EXCEPT ![client] = NoAttempts] ELSE attempts
      BY <2>1, <2>2, Zenon
    <2>4. attempts'[client].fails \in Nat /\ attempts'[client].fails <= MaxFails - 1
      BY <2>3 DEF Blocked, NoAttempts
    <2>5. \A k \in Keys \ {client} : attempts'[k] = attempts[k] /\ InFlight(k)' = InFlight(k)
      <3>1. req'[t] = Request(client[2], p, client[1])
        BY <2>1 DEF Begin
      <3>2. LoginKey(req'[t]) = client
        BY <3>1, <2>2
      <3>3. \A u \in Threads : u # t => pc'[u] = pc[u] /\ req'[u] = req[u]
        BY <2>1 DEF Begin
      <3>4. pc[t] = "idle"
        BY <1>3 DEF LoginArrives
      <3>5. \A u \in Threads, k \in Keys \ {client} : u \in InFlight(k)' <=> u \in InFlight(k)
        <4>. SUFFICES ASSUME NEW u \in Threads, NEW k \in Keys \ {client}
                      PROVE  u \in InFlight(k)' <=> u \in InFlight(k)
          OBVIOUS
        <4>1. CASE u = t
          BY <4>1, <3>2, <3>4 DEF InFlight
        <4>2. CASE u # t
          BY <4>2, <3>3 DEF InFlight, LoginKey
        <4>. QED
          BY <4>1, <4>2
      <3>. QED
        BY <2>3, <3>5 DEF InFlight
    <2>6. CountsInFlight'
      <3>. SUFFICES ASSUME NEW k \in Keys
                    PROVE  attempts'[k].fails + Cardinality(InFlight(k)') <= MaxFails - 1 + Cardinality(Threads)
        OBVIOUS
      <3>1. CASE k = client
        BY <3>1, <2>4, InFlightBoundedNext, InFlightBounded
      <3>2. CASE k # client
        BY <3>2, <2>5
      <3>. QED
        BY <3>1, <3>2
    <2>7. CountsOwnFailures'
      BY <1>3, <2>3 DEF LoginArrives, NoAttempts
    <2>. QED
      BY <2>6, <2>7
  <1>4. ASSUME NEW t \in Threads, LoginVerifies(t) PROVE (CountsOwnFailures /\ CountsInFlight)'
    <2>1. \A k \in Keys : InFlight(k)' = InFlight(k)
      BY <1>4 DEF LoginVerifies, InFlight, LoginKey
    <2>. QED
      BY <1>1, <1>4, <2>1 DEF LoginVerifies
  <1>5. ASSUME NEW t \in Threads, LoginFails(t) \/ LoginSucceeds(t)
        PROVE  (CountsOwnFailures /\ CountsInFlight)'
    <2>1. PICK k \in Keys : k = LoginKey(req[t]) /\ k = <<req[t].source, req[t].name>>
      BY <1>5 DEF LoginFails, LoginSucceeds, SetupIsFirst, LoginKey
    <2>2. /\ t \in InFlight(k)
          /\ InFlight(k)' = InFlight(k) \ {t}
          /\ \A j \in Keys \ {k} : InFlight(j)' = InFlight(j)
      <3>1. t \in InFlight(k) /\ pc'[t] = "idle"
        BY <1>5, <2>1 DEF LoginFails, LoginSucceeds, Answer, Begin, InFlight
      <3>2. \A u \in Threads : u # t => pc'[u] = pc[u] /\ req'[u] = req[u]
        BY <1>5 DEF LoginFails, LoginSucceeds, Answer, Begin
      <3>3. ASSUME NEW j \in Keys, NEW u \in Threads PROVE u \in InFlight(j)' <=> u # t /\ u \in InFlight(j)
        <4>1. CASE u = t
          BY <3>1, <4>1 DEF InFlight
        <4>2. CASE u # t
          BY <3>2, <4>2 DEF InFlight, LoginKey
        <4>. QED
          BY <4>1, <4>2
      <3>4. \A j \in Keys : InFlight(j)' = InFlight(j) \ {t}
        BY <3>3 DEF InFlight
      <3>5. \A j \in Keys \ {k} : t \notin InFlight(j)
        BY <2>1 DEF InFlight
      <3>6. \A j \in Keys \ {k} : InFlight(j) \ {t} = InFlight(j)
        BY <3>5
      <3>. QED
        BY <2>1, <3>1, <3>4, <3>6
    <2>3. Cardinality(InFlight(k)') = Cardinality(InFlight(k)) - 1
      <3>1. IsFiniteSet(InFlight(k))
        BY InFlightBounded
      <3>. QED
        BY <2>2, <3>1, FS_RemoveElement
    <2>4. /\ \A j \in Keys \ {k} : attempts'[j] = attempts[j] /\ wrong'[j] = wrong[j]
          /\ attempts'[k].fails \in {0, 1, attempts[k].fails + 1}
      BY <1>5, <2>1 DEF LoginFails, LoginSucceeds, Failed, NoAttempts
    <2>5. attempts'[k].fails + Cardinality(InFlight(k)') <= MaxFails - 1 + Cardinality(Threads)
      BY <2>1, <2>3, <2>4, InFlightBounded
    <2>6. wrong'[k] = MaxFails \/ attempts'[k].fails <= wrong'[k]
      BY <1>5, <2>1 DEF LoginFails, LoginSucceeds, Failed, NoAttempts, AtMost
    <2>7. ASSUME NEW j \in Keys
          PROVE  /\ wrong'[j] = MaxFails \/ attempts'[j].fails <= wrong'[j]
                 /\ attempts'[j].fails + Cardinality(InFlight(j)') <= MaxFails - 1 + Cardinality(Threads)
      <3>1. CASE j = k
        BY <3>1, <2>5, <2>6
      <3>2. CASE j # k
        BY <3>2, <2>2, <2>4
      <3>. QED
        BY <3>1, <3>2
    <2>. QED
      BY <2>7
  <1>6. ASSUME NEW t \in Threads, S!Working(t), UNCHANGED handlers
        PROVE  (CountsOwnFailures /\ CountsInFlight)'
    BY <1>1, <1>6 DEF InFlight, LoginKey
  <1>7. CASE Tick
    <2>1. \A k \in Keys : InFlight(k)' = InFlight(k) /\ attempts'[k].fails = attempts[k].fails
      BY <1>7 DEF Tick, InFlight, LoginKey
    <2>. QED
      BY <1>7, <2>1 DEF Tick
  <1>8. CASE Restart
    <2>1. \A k \in Keys : InFlight(k)' = {} /\ attempts'[k].fails = 0
      BY <1>8 DEF Restart, InFlight, NoAttempts
    <2>2. Cardinality({}) = 0 /\ Cardinality(Threads) \in Nat
      BY FS_EmptySet, FS_CardinalityType
    <2>3. \A k \in Keys : Cardinality(InFlight(k)') = 0
      BY <2>1, <2>2
    <2>4. CountsInFlight'
      <3>. SUFFICES ASSUME NEW k \in Keys
                    PROVE  attempts'[k].fails + Cardinality(InFlight(k)') <= MaxFails - 1 + Cardinality(Threads)
        BY DEF CountsInFlight
      <3>1. attempts'[k].fails = 0 /\ Cardinality(InFlight(k)') = 0
        BY <2>1, <2>3
      <3>2. 0 <= MaxFails - 1 + Cardinality(Threads)
        BY <2>2
      <3>. QED
        BY ONLY <3>1, <3>2
    <2>5. CountsOwnFailures'
      BY <1>8, <2>1 DEF Restart
    <2>. QED
      BY <2>4, <2>5
  <1>9. CASE UNCHANGED vars
    BY <1>1, <1>9 DEF vars, InFlight, LoginKey
  <1>. QED
    BY <1>2, <1>3, <1>4, <1>5, <1>6, <1>7, <1>8, <1>9 DEF Next, Handler

LEMMA AdminInvPreserved == AdminInv /\ [Next]_vars => AdminInv'
  BY TypePreserved, CallsPreserved, AdminsPreserved, CountsPreserved DEF AdminInv

-----------------------------------------------------------------------------
\* Everything the other theorems rest on, and the types.
THEOREM SpecImpliesAdminInv == Spec => []AdminInv
  BY InitEstablishesAdminInv, AdminInvPreserved, PTL DEF Spec

\* The lock discipline of Database.execute and of setup.
THEOREM AdminTypesAndLocks == Spec => []AdminTypeOK
  <1>1. AdminInv => AdminTypeOK
    BY DEF AdminInv
  <1>. QED
    BY <1>1, SpecImpliesAdminInv, PTL

\* api/auth.py, line 23: no interleaving of first-boot requests, however many threads
\* serve them, creates two admins.
THEOREM OneAdminAlways == Spec => []OneAdmin
  <1>1. AdminInv => OneAdmin
    <2>. SUFFICES ASSUME AdminInv, NEW t \in Threads PROVE Cardinality(Admins(S!View(t))) <= 1
      BY DEF OneAdmin
    <2>. DEFINE A == Admins(S!View(t))
    <2>1. \A m, n \in A : m = n
      <3>1. CASE tx[t] = NoTx
        BY <3>1 DEF AdminInv, SetupIsFirst, S!View
      <3>2. CASE tx[t] # NoTx
        <4>1. /\ stmt[t] \in Writes /\ A = Admins(ApplyTo(db, stmt[t])) /\ db \in Tables
              /\ step[t] \in {"executed", "undo"} /\ pc[t] \in {"setup", "change"}
          BY <3>2 DEF AdminInv, AdminTypeOK, CallsMatch, S!View
        <4>2. CASE pc[t] = "setup"
          BY <4>1, <4>2, ApplyFacts DEF AdminInv, CallsMatch, SetupIsFirst
        <4>3. CASE pc[t] = "change"
          BY <4>1, <4>3, ApplyFacts DEF AdminInv, CallsMatch, SetupIsFirst
        <4>. QED
          BY <4>1, <4>2, <4>3
      <3>. QED
        BY <3>1, <3>2
    <2>. HIDE DEF A
    <2>2. A = {} \/ \E n : A = {n}
      BY <2>1
    <2>3. Cardinality(A) \in {0, 1}
      BY <2>2, FS_EmptySet, FS_Singleton
    <2>. QED
      BY <2>3 DEF A
  <1>. QED
    BY <1>1, SpecImpliesAdminInv, PTL

\* A token is only ever issued for a committed admin.
THEOREM TokensAlwaysForAdmins == Spec => []TokensAreForAdmins
  <1>1. AdminInv => TokensAreForAdmins
    BY DEF AdminInv
  <1>. QED
    BY <1>1, SpecImpliesAdminInv, PTL

\* The limiter lets through at most one login for each thread beyond its cap.
THEOREM GuessesAlwaysBounded == Spec => []GuessesBounded
  <1>1. AdminInv => GuessesBounded
    <2>. SUFFICES ASSUME AdminInv, NEW k \in Keys
                  PROVE  attempts[k].fails <= MaxFails - 1 + Cardinality(Threads)
      BY DEF GuessesBounded
    <2>1. attempts[k].fails + Cardinality(InFlight(k)) <= MaxFails - 1 + Cardinality(Threads)
      BY DEF AdminInv, CountsInFlight
    <2>2. Cardinality(InFlight(k)) \in Nat /\ Cardinality(Threads) \in Nat
      BY InFlightBounded
    <2>3. attempts[k].fails \in Nat /\ MaxFails \in Nat
      BY LimiterAssumption DEF AdminInv, AdminTypeOK
    <2>. QED
      BY ONLY <2>1, <2>2, <2>3
  <1>. QED
    BY <1>1, SpecImpliesAdminInv, PTL

\* Nobody is locked out by others' failures.
THEOREM LockoutAlwaysOwn == Spec => []LockoutIsOwn
  <1>1. AdminInv => LockoutIsOwn
    <2>. SUFFICES ASSUME AdminInv, NEW client \in Keys, Refused(client) PROVE wrong[client] = MaxFails
      BY DEF LockoutIsOwn
    <2>1. LoginKey(Request(client[2], NoPassword, client[1])) = client
      BY KeyOfRequest, Zenon
    <2>2. attempts[client].fails >= MaxFails
      BY <2>1 DEF Refused, Blocked
    <2>3. wrong[client] = MaxFails \/ attempts[client].fails <= wrong[client]
      BY DEF AdminInv, CountsOwnFailures
    <2>4. attempts[client].fails \in Nat /\ wrong[client] \in 0..MaxFails /\ MaxFails \in Nat
      BY LimiterAssumption DEF AdminInv, AdminTypeOK
    <2>. QED
      BY ONLY <2>2, <2>3, <2>4
  <1>. QED
    BY <1>1, SpecImpliesAdminInv, PTL

-----------------------------------------------------------------------------
\* Each step of the handlers is a step of the atomic store, or none of its.
LEMMA StepsOfTheStore == AdminInv /\ [Next]_vars => [S!Store!StoreNext]_(S!Store!store)
  <1>. SUFFICES ASSUME AdminInv, [Next]_vars PROVE S!Store!StoreNext \/ UNCHANGED S!Store!store
    BY DEF S!Store!store
  <1>. USE ThreadsAssumption, NothingAssumption
       DEF AdminInv, AdminTypeOK, CallsMatch, S!Go, S!CallState, S!Store!StoreNext, S!Store!store
  \* A thread's step is a step of its call alone.
  <1>1. ASSUME UNCHANGED <<db, step, stmt>> PROVE UNCHANGED S!Store!store
    BY <1>1
  <1>2. ASSUME NEW t \in Threads, NEW w \in Writes, S!Execute(t, w) PROVE S!Store!Call(t)
    BY <1>2 DEF S!Execute, S!Store!Call
  <1>3. ASSUME NEW t \in Threads, S!Leave(t) PROVE S!Store!Return(t)
    BY <1>3 DEF S!Leave, S!Store!Return
  <1>4. ASSUME NEW t \in Threads, S!Working(t) PROVE S!Store!StoreNext \/ UNCHANGED S!Store!store
    <2>1. CASE S!TakeLock(t)
      BY <2>1 DEF S!TakeLock
    <2>2. CASE S!RunStatement(t)
      BY <2>2 DEF S!RunStatement
    <2>3. CASE S!StatementFails(t)
      BY <2>3 DEF S!StatementFails
    <2>4. CASE S!Commit(t)
      <3>1. S!Store!TakeEffect(t)
        BY <2>4 DEF S!Commit, S!Store!TakeEffect
      <3>. QED
        BY <3>1
    <2>5. CASE S!CommitFails(t)
      BY <2>5 DEF S!CommitFails
    <2>6. CASE S!Rollback(t)
      <3>1. S!Store!Fail(t)
        BY <2>6 DEF S!Rollback, S!Store!Fail
      <3>. QED
        BY <3>1
    <2>. QED
      BY <1>4, <2>1, <2>2, <2>3, <2>4, <2>5, <2>6 DEF S!Working
  <1>5. ASSUME NEW t \in Threads, SetupBegins(t) \/ ChangeBegins(t) PROVE S!Store!StoreNext
    <2>1. \E w \in Writes : S!Execute(t, w)
      BY <1>5 DEF SetupBegins, ChangeBegins, Writes
    <2>. QED
      BY <1>2, <2>1
  <1>6. ASSUME NEW t \in Threads, SetupEnds(t) \/ ChangeEnds(t) PROVE S!Store!StoreNext
    BY <1>3, <1>6 DEF SetupEnds, ChangeEnds
  <1>7. ASSUME NEW t \in Threads, LoginArrives(t) \/ LoginVerifies(t) \/ LoginFails(t) \/ LoginSucceeds(t)
        PROVE  UNCHANGED S!Store!store
    BY <1>1, <1>7 DEF LoginArrives, LoginVerifies, LoginFails, LoginSucceeds
  <1>8. CASE Tick
    BY <1>1, <1>8 DEF Tick
  <1>9. CASE Restart
    <2>1. S!Store!Forget
      BY <1>9 DEF Restart, S!Restart, S!Store!Forget
    <2>. QED
      BY <2>1
  <1>10. CASE UNCHANGED vars
    BY <1>1, <1>10 DEF vars
  <1>. QED
    BY <1>4, <1>5, <1>6, <1>7, <1>8, <1>9, <1>10 DEF Next, Handler

\* database.py, line 129: execute() is atomic, for every statement the handlers run.
THEOREM StorageIsAtomic == Spec => ImplementsAtomicStore
  <1>1. Init => S!Store!StoreInit
    BY DEF Init, S!StorageInit, S!Store!StoreInit, S!CallState
  <1>. QED
    BY <1>1, StepsOfTheStore, SpecImpliesAdminInv, PTL DEF Spec, ImplementsAtomicStore, S!Store!StoreSpec
=============================================================================
