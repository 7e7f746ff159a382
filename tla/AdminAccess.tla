---------------------------- MODULE AdminAccess ----------------------------
(***************************************************************************)
(* The admin account: first-deployment setup, login with its limiter of    *)
(* failed attempts, and change of password, as handlers on the threads of  *)
(* a pool, each write going through Storage.                               *)
(*                                                                         *)
(* A password stands for itself and for its hash (hashing is a library     *)
(* call that takes time and no lock).  A token is the name it was issued   *)
(* for: it is signed with a secret that is stored, so it outlives both a   *)
(* restart and a change of password.  Time is the age of each limiter      *)
(* entry, which saturates one above Window.                                *)
(***************************************************************************)
EXTENDS Naturals, FiniteSets

CONSTANTS Threads, NoThread, NoWrite, NoTx, Faults,   \* see Storage
          Names,       \* usernames
          Passwords,
          NoPassword,  \* no such row
          Keys,        \* the logins that are tried: pairs of client address and name
          MaxFails,    \* _LOGIN_MAX_FAILS
          Window       \* _LOGIN_WINDOW

ASSUME LimiterAssumption == MaxFails \in Nat \ {0} /\ Window \in Nat
ASSUME ThreadsAssumption == IsFiniteSet(Threads) /\ NoThread \notin Threads
ASSUME KeysAssumption == \A k \in Keys : k = <<k[1], k[2]>> /\ k[2] \in Names

VARIABLES db, wlock, step, stmt, tx,   \* see Storage; db: the table admins
          setupLock,   \* holder of _setup_lock, or NoThread
          pc,          \* pc[t]: where the handler on t stands
          req,         \* req[t]: what the request says: [name, password, source]
          attempts,    \* _LOGIN_ATTEMPTS: [fails, age] per source and name
          tokens,      \* names tokens were issued for
          wrong        \* wrong passwords per source and name since its last success

storage == <<db, wlock, step, stmt, tx>>
handlers == <<setupLock, pc, req, attempts, tokens, wrong>>
vars == <<db, wlock, step, stmt, tx, setupLock, pc, req, attempts, tokens, wrong>>

Writes == [what : {"insert", "update"}, name : Names, password : Passwords]
ApplyTo(d, w) ==
  IF w.what = "insert" \/ d[w.name] # NoPassword THEN [d EXCEPT ![w.name] = w.password] ELSE d
\* admins.username is UNIQUE.
AllowedIn(d, w) == w.what = "insert" => d[w.name] = NoPassword

NoAdmin == [n \in Names |-> NoPassword]
Tables == [Names -> Passwords \cup {NoPassword}]

ASSUME NothingAssumption ==
  /\ NoPassword \notin Passwords
  /\ NoTx \notin Tables
  /\ NoWrite \notin Writes
  /\ \A w \in Writes, s \in {"called", "done", "failed"} : [write |-> w, state |-> s] # NoWrite

S == INSTANCE Storage WITH Apply <- ApplyTo, Allowed <- AllowedIn, Initial <- NoAdmin

Request(n, p, s) == [name |-> n, password |-> p, source |-> s]
NoRequest == Request(NoPassword, NoPassword, NoPassword)
Requests == [name : Names \cup {NoPassword}, password : Passwords \cup {NoPassword},
             source : {k[1] : k \in Keys} \cup {NoPassword}]
NoAttempts == [fails |-> 0, age |-> 0]
Admins(d) == {n \in Names : d[n] # NoPassword}

-----------------------------------------------------------------------------
Init ==
  /\ S!StorageInit
  /\ setupLock = NoThread
  /\ pc = [t \in Threads |-> "idle"]
  /\ req = [t \in Threads |-> NoRequest]
  /\ attempts = [k \in Keys |-> NoAttempts]
  /\ tokens = {}
  /\ wrong = [k \in Keys |-> 0]

Begin(t, where, r) ==
  /\ pc' = [pc EXCEPT ![t] = where]
  /\ req' = [req EXCEPT ![t] = r]

Answer(t) == Begin(t, "idle", NoRequest)

(***************************************************************************)
(* POST /api/auth/setup.                                                   *)
(***************************************************************************)
\* Variant: the count and the INSERT stand under no lock.
SetupUnlocked(t) ==
  /\ pc[t] = "idle"
  /\ Admins(S!View(t)) = {}
  /\ setupLock' = t
  /\ \E n \in Names, p \in Passwords :
       /\ S!Execute(t, [what |-> "insert", name |-> n, password |-> p])
       /\ Begin(t, "setup", Request(n, NoPassword, NoPassword))
  /\ UNCHANGED <<attempts, tokens, wrong>>

\* "with _setup_lock": no admin counted, and the INSERT goes to execute().  With an
\* admin there the answer is 409 and nothing changes.
SetupBegins(t) ==
  /\ pc[t] = "idle"
  /\ setupLock = NoThread
  /\ Admins(S!View(t)) = {}
  /\ setupLock' = t
  /\ \E n \in Names, p \in Passwords :
       /\ S!Execute(t, [what |-> "insert", name |-> n, password |-> p])
       /\ Begin(t, "setup", Request(n, NoPassword, NoPassword))
  /\ UNCHANGED <<attempts, tokens, wrong>>

\* Variant: a token whatever became of the INSERT.
SetupAlwaysToken(t) ==
  /\ pc[t] = "setup"
  /\ S!Leave(t)
  /\ tokens' = tokens \cup {req[t].name}
  /\ setupLock' = NoThread
  /\ Answer(t)
  /\ UNCHANGED <<attempts, wrong>>

\* execute() returns or raises; the lock is released either way.
SetupEnds(t) ==
  /\ pc[t] = "setup"
  /\ S!Leave(t)
  /\ tokens' = IF step[t] = "committed" THEN tokens \cup {req[t].name} ELSE tokens
  /\ setupLock' = NoThread
  /\ Answer(t)
  /\ UNCHANGED <<attempts, wrong>>

(***************************************************************************)
(* POST /api/auth/login and its limiter.                                   *)
(***************************************************************************)
\* Variant: the address does not count.
KeyOfName(r) == CHOOSE k \in Keys : k[2] = r.name
\* _login_key.
LoginKey(r) == <<r.source, r.name>>
Expired(k) == attempts[k].age > Window

\* Variant: the window is not looked at.
BlockedForGood(k) == attempts[k].fails >= MaxFails
\* Variant: one more than the cap.
BlockedLate(k) == attempts[k].fails > MaxFails /\ ~Expired(k)
\* _login_blocked.
Blocked(k) == attempts[k].fails >= MaxFails /\ ~Expired(k)

\* 429, or on to the password; an expired entry is dropped.
LoginArrives(t) ==
  /\ pc[t] = "idle"
  /\ \E client \in Keys, p \in Passwords :
       LET r == Request(client[2], p, client[1]) IN
       /\ ~Blocked(LoginKey(r))
       /\ attempts' = IF Expired(LoginKey(r)) THEN [attempts EXCEPT ![LoginKey(r)] = NoAttempts]
                      ELSE attempts
       /\ Begin(t, "login", r)
  /\ UNCHANGED <<storage, setupLock, tokens, wrong>>

\* The 429 itself changes nothing; this names the requests that get it.
Refused(client) ==
  Blocked(LoginKey(Request(client[2], NoPassword, client[1])))

\* The row is read and the password compared.
LoginVerifies(t) ==
  /\ pc[t] = "login"
  /\ pc' = [pc EXCEPT ![t] =
              IF S!View(t)[req[t].name] = req[t].password THEN "right" ELSE "wrong"]
  /\ UNCHANGED <<storage, setupLock, req, attempts, tokens, wrong>>

AtMost(n, max) == IF n > max THEN max ELSE n

\* _login_failed: the entry keeps the time of the first failure of its window.
Failed(k) ==
  [attempts EXCEPT ![k] =
    IF @.fails = 0 \/ Expired(k) THEN [fails |-> 1, age |-> 0]
    ELSE [fails |-> @.fails + 1, age |-> @.age]]

LoginFails(t) ==
  LET k == LoginKey(req[t]) mine == <<req[t].source, req[t].name>> IN
  /\ pc[t] = "wrong"
  /\ attempts' = Failed(k)
  /\ wrong' = [wrong EXCEPT ![mine] = AtMost(@ + 1, MaxFails)]
  /\ Answer(t)
  /\ UNCHANGED <<storage, setupLock, tokens>>

LoginSucceeds(t) ==
  LET k == LoginKey(req[t]) mine == <<req[t].source, req[t].name>> IN
  /\ pc[t] = "right"
  /\ attempts' = [attempts EXCEPT ![k] = NoAttempts]
  /\ wrong' = [wrong EXCEPT ![mine] = 0]
  /\ tokens' = tokens \cup {req[t].name}
  /\ Answer(t)
  /\ UNCHANGED <<storage, setupLock>>

\* A unit of time.
Tick ==
  /\ attempts' = [k \in Keys |->
       IF attempts[k].fails = 0 THEN attempts[k]
       ELSE [fails |-> attempts[k].fails, age |-> AtMost(attempts[k].age + 1, Window + 1)]]
  /\ UNCHANGED <<storage, setupLock, pc, req, tokens, wrong>>

(***************************************************************************)
(* POST /api/auth/change-password, by the holder of a token.               *)
(***************************************************************************)
\* The row is read and current_password verified (else 404, 403 or 422), and the
\* UPDATE goes to execute().
ChangeBegins(t) ==
  /\ pc[t] = "idle"
  /\ \E n \in tokens, current \in Passwords, new \in Passwords :
       /\ S!View(t)[n] = current
       /\ current # new
       /\ S!Execute(t, [what |-> "update", name |-> n, password |-> new])
       /\ Begin(t, "change", Request(n, NoPassword, NoPassword))
  /\ UNCHANGED <<setupLock, attempts, tokens, wrong>>

ChangeEnds(t) ==
  /\ pc[t] = "change"
  /\ S!Leave(t)
  /\ Answer(t)
  /\ UNCHANGED <<setupLock, attempts, tokens, wrong>>

(***************************************************************************)
(* The process ends and starts: table and tokens are kept.                 *)
(***************************************************************************)
Restart ==
  /\ S!Restart
  /\ setupLock' = NoThread
  /\ pc' = [t \in Threads |-> "idle"]
  /\ req' = [t \in Threads |-> NoRequest]
  /\ attempts' = [k \in Keys |-> NoAttempts]
  /\ wrong' = [k \in Keys |-> 0]
  /\ UNCHANGED tokens

Handler(t) ==
  \/ SetupEnds(t) \/ LoginVerifies(t) \/ LoginFails(t) \/ LoginSucceeds(t) \/ ChangeEnds(t)
  \/ S!Working(t) /\ UNCHANGED handlers

Next ==
  \/ \E t \in Threads : SetupBegins(t) \/ LoginArrives(t) \/ ChangeBegins(t) \/ Handler(t)
  \/ Tick \/ Restart

Spec == Init /\ [][Next]_vars

\* Time passes.
FairSpec == Spec /\ WF_vars(Tick)

-----------------------------------------------------------------------------
\* Types, and the discipline of the two locks: _setup_lock is held from the count to
\* the answer, _write_lock inside execute(), and no transaction is open without it.
AdminTypeOK ==
  /\ db \in Tables
  /\ wlock \in Threads \cup {NoThread} /\ setupLock \in Threads \cup {NoThread}
  /\ step \in [Threads -> S!Steps]
  /\ stmt \in [Threads -> Writes \cup {NoWrite}]
  /\ tx \in [Threads -> Tables \cup {NoTx}]
  /\ pc \in [Threads -> {"idle", "setup", "login", "right", "wrong", "change"}]
  /\ req \in [Threads -> Requests]
  /\ attempts \in [Keys -> [fails : Nat, age : 0 .. Window + 1]]
  /\ tokens \subseteq Names
  /\ wrong \in [Keys -> 0 .. MaxFails]
  /\ \A t \in Threads : pc[t] = "setup" <=> setupLock = t
  /\ \A t \in Threads : step[t] \notin {"idle", "wanted"} <=> wlock = t
  /\ \A t \in Threads : tx[t] # NoTx => step[t] \in {"executed", "undo"}

\* api/auth.py, line 23: setup creates at most one admin even under concurrent
\* first-boot requests, failing writes and restarts, in the table and in any open
\* transaction.
OneAdmin == \A t \in Threads : Cardinality(Admins(S!View(t))) <= 1

\* A token is issued for an admin whose row is committed: an INSERT that raised gives
\* none, and none is issued before the commit.
TokensAreForAdmins == tokens \subseteq Admins(db)

\* The call of execute() is the request's; its transaction holds its statement and
\* nothing older.
CallsMatch ==
  \A t \in Threads :
    /\ pc[t] \in {"setup", "change"} <=> step[t] # "idle"
    /\ step[t] # "idle" =>
         /\ stmt[t] \in Writes /\ stmt[t].name = req[t].name
         /\ stmt[t].what = IF pc[t] = "setup" THEN "insert" ELSE "update"
    /\ tx[t] # NoTx => tx[t] = ApplyTo(db, stmt[t])
    /\ step[t] = "executed" => tx[t] # NoTx

\* While a setup has not committed there is no admin; who gets a token is one.
SetupIsFirst ==
  /\ \A m, n \in Admins(db) : m = n
  /\ \A t \in Threads :
       /\ pc[t] = "setup" => IF step[t] = "committed" THEN req[t].name \in Admins(db) ELSE Admins(db) = {}
       /\ pc[t] = "change" => req[t].name \in Admins(db)
       /\ pc[t] \in {"login", "right", "wrong"} =>
            req[t].name \in Names /\ req[t].password \in Passwords /\ LoginKey(req[t]) \in Keys
       /\ pc[t] = "right" => req[t].name \in Admins(db)

\* The invariant of the limiter: what it counts is not more than the wrong passwords
\* of its key, and has room for the logins that are past its test.
InFlight(k) == {t \in Threads : pc[t] \in {"login", "right", "wrong"} /\ LoginKey(req[t]) = k}
CountsOwnFailures ==
  \A k \in Keys : wrong[k] = MaxFails \/ attempts[k].fails <= wrong[k]
CountsInFlight ==
  \A k \in Keys : attempts[k].fails + Cardinality(InFlight(k)) <= MaxFails - 1 + Cardinality(Threads)

\* The inductive invariant: what the theorems of AdminAccessProofs rest on.
AdminInv ==
  AdminTypeOK /\ CallsMatch /\ SetupIsFirst /\ TokensAreForAdmins /\ CountsOwnFailures /\ CountsInFlight

\* database.py, line 129: every execute() is one atomic step or, if it raises, none,
\* and a failed one is never carried over into a later commit.
ImplementsAtomicStore == S!Store!StoreSpec

\* Handlers that passed the limiter before the failure that closes it may still fail;
\* the passwords tried in one window exceed the cap by no more than those.
GuessesBounded ==
  \A k \in Keys : attempts[k].fails <= MaxFails - 1 + Cardinality(Threads)

\* api/auth.py, line 15: who is locked out has failed himself, from his address and
\* since his last success; nobody else's failures count.
LockoutIsOwn == \A client \in Keys : Refused(client) => wrong[client] = MaxFails

\* A lockout ends, whatever is tried meanwhile.
LockoutEnds == \A client \in Keys : Refused(client) ~> ~Refused(client)
=============================================================================
