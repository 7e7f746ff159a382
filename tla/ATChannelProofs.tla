--------------------------- MODULE ATChannelProofs ---------------------------
(***************************************************************************)
(* Two inductive invariants of ATChannel, for any number of callers,       *)
(* devices and exchanges.  ATInv: the discipline of the lock, and that one *)
(* thread reads the line unless an initialisation left its device open.    *)
(* LineInv: until an exchange goes astray, whatever is between the callers *)
(* and the module belongs to the one command whose final line is awaited;  *)
(* so answers reach their command, and OK means that the message went out. *)
(***************************************************************************)
EXTENDS ATChannel, SequenceTheorems, TLAPS

\* The first and the further elements of a sequence that is not empty.
LEMMA HeadAndTail ==
  ASSUME NEW E, NEW s \in Seq(E), s # <<>>
  PROVE  Head(s) \in E /\ Tail(s) \in Seq(E) /\ s[1] \in E
  OBVIOUS

LEMMA InitEstablishesATInv == Init => ATInv
  <1>. SUFFICES ASSUME Init PROVE ATInv
    OBVIOUS
  <1>. USE BoundsAssumption, CallersAssumption DEF Init, None, Devs, Cmds
  <1>1. dev \in Devs \cup {None} /\ phase \in {"down", "polling"} /\ (phase = "down" <=> dev = None)
    OBVIOUS
  <1>2. ATTypes
    <2>1. /\ modem \in [cmd : Cmds \cup {None}, state : {"ready", "plain", "cmgs", "prompted", "sending"}]
          /\ modem.state = "ready"
      BY DEF Ready
    <2>2. /\ toModem \in Seq(Item) /\ wire \in Seq(Line) /\ lines \in [Cmds -> Seq(Line)]
          /\ inHand \in [Devs -> Seq(Line)] /\ \A d \in Devs : Len(inHand[d]) <= 1
      OBVIOUS
    <2>3. aired \subseteq Cmds /\ upsets \in 0 .. MaxUpset /\ closing \in Devs \cup {None}
      OBVIOUS
    <2>. QED
      BY <1>1, <2>1, <2>2, <2>3 DEF ATTypes
  <1>3. LockDiscipline
    BY DEF LockDiscipline, Inside
  <1>4. DevicesInTurn
    <2>1. \A d \in Devs : reader[d] <=> d = dev
      OBVIOUS
    <2>2. \A d \in Devs : d \in Nat \ {0}
      OBVIOUS
    <2>3. \A c \in Callers : pc[c] = "idle" /\ pc[c] \notin Inside
      BY DEF Inside
    <2>4. \A d \in Devs : current[d] = None /\ ser[d] = reader[d] /\ running[d] = reader[d]
      OBVIOUS
    <2>5. \A d \in Devs : d > dev => ~reader[d]
      BY ONLY dev \in Devs \cup {None}, <2>1, <2>2 DEF Devs, None
    <2>6. phase # "down" => dev # None
      BY <1>1
    <2>7. \A d \in Devs : reader[d] => d = dev /\ phase # "down"
      BY <1>1, <2>1, <2>2
    <2>. QED
      BY <2>3, <2>4, <2>5, <2>6, <2>7 DEF DevicesInTurn
  <1>. QED
    BY <1>2, <1>3, <1>4 DEF ATInv, ATTypeOK

-----------------------------------------------------------------------------
\* Types.
LEMMA ATTypesPreserved == ATInv /\ [Next]_vars => ATTypes'
  <1>. SUFFICES ASSUME ATInv, [Next]_vars PROVE ATTypes'
    OBVIOUS
  <1>. USE BoundsAssumption, CallersAssumption
       DEF ATInv, ATTypeOK, ATTypes, Inside, device, calls, worker, module
  <1>1. CASE OpenDevice
    BY <1>1 DEF OpenDevice
  <1>2. CASE PollLoopEnds
    BY <1>2 DEF PollLoopEnds
  <1>3. CASE CloseBegins
    BY <1>3 DEF CloseBegins
  <1>4. CASE CloseEnds
    BY <1>4 DEF CloseEnds
  <1>5. CASE PortLost
    BY <1>5 DEF PortLost, Ready
  <1>6. ASSUME NEW c \in Callers, Pick(c) PROVE ATTypes'
    BY <1>6 DEF Pick
  <1>7. ASSUME NEW c \in Callers, Acquire(c) PROVE ATTypes'
    <2>. PICK n \in Cmds, k \in {"plain", "cmgs"} :
                kind' = [kind EXCEPT ![n] = k] /\ cmd' = [cmd EXCEPT ![c] = n]
      BY <1>7 DEF Acquire, NewCommand
    <2>. QED
      BY <1>7 DEF Acquire
  <1>8. ASSUME NEW c \in Callers, Refused(c) PROVE ATTypes'
    BY <1>8 DEF Refused, WorkerGoesOn
  <1>9. ASSUME NEW c \in Callers, Install(c) PROVE ATTypes'
    BY <1>9 DEF Install
  <1>10. ASSUME NEW c \in Callers, pc[c] \in Inside
         PROVE  cmd[c] \in Cmds /\ kind[cmd[c]] \in {"plain", "cmgs"}
    BY <1>10 DEF DevicesInTurn, Created
  <1>11. ASSUME NEW c \in Callers, WriteCommand(c) PROVE ATTypes'
    BY <1>10, <1>11 DEF WriteCommand, Send, Item
  <1>12. ASSUME NEW c \in Callers, CommandWriteFails(c) PROVE ATTypes'
    BY <1>12 DEF CommandWriteFails, Leave, WorkerGoesOn
  <1>13. ASSUME NEW c \in Callers, WritePayload(c) PROVE ATTypes'
    BY <1>10, <1>13 DEF WritePayload, Send, Item
  <1>14. ASSUME NEW c \in Callers, PromptRefused(c) \/ DialogueWriteFails(c) \/ WaitEnds(c) PROVE ATTypes'
    BY <1>14 DEF PromptRefused, DialogueWriteFails, WaitEnds
  <1>15. ASSUME NEW c \in Callers, PromptTimeout(c) PROVE ATTypes'
    BY <1>10, <1>15 DEF PromptTimeout, Send, Item
  <1>16. ASSUME NEW c \in Callers, Clear(c) PROVE ATTypes'
    BY <1>16 DEF Clear, Leave, WorkerGoesOn
  <1>17. ASSUME NEW d \in Devs, ReadLine(d) PROVE ATTypes'
    BY <1>17, HeadAndTail DEF ReadLine
  <1>18. ASSUME NEW d \in Devs, Handle(d) PROVE ATTypes'
    BY <1>18, HeadAndTail DEF Handle
  <1>19. ASSUME NEW d \in Devs, ReaderEnds(d) PROVE ATTypes'
    BY <1>19 DEF ReaderEnds
  <1>20. CASE ModemTakes
    <2>1. Head(toModem) \in Item /\ Tail(toModem) \in Seq(Item)
      BY <1>20, HeadAndTail DEF ModemTakes
    <2>2. modem' \in [cmd : Cmds \cup {None}, state : {"ready", "plain", "cmgs", "prompted", "sending"}]
      <3>1. CASE modem.state = "ready"
        BY <1>20, <2>1, <3>1 DEF ModemTakes, Item
      <3>2. CASE modem.state = "prompted"
        BY <1>20, <2>1, <3>2 DEF ModemTakes, Item, Ready
      <3>. QED
        BY <1>20, <3>1, <3>2 DEF ModemTakes
    <2>3. modem'.state # "ready" => modem'.cmd \in Cmds
      <3>1. CASE modem.state = "ready"
        BY <1>20, <2>1, <3>1 DEF ModemTakes, Item
      <3>2. CASE modem.state = "prompted"
        BY <1>20, <2>1, <3>2 DEF ModemTakes, Item, Ready
      <3>. QED
        BY <1>20, <3>1, <3>2 DEF ModemTakes
    <2>. QED
      BY <1>20, <2>1, <2>2, <2>3 DEF ModemTakes
  <1>21. ASSUME NEW n \in Cmds \cup {None}, NEW text \in Final \cup {">", "+CMTI"}, Answer(n, text)
         PROVE  wire' \in Seq(Line)
    BY <1>21 DEF Answer, Line
  <1>22. CASE ModemPrompts
    BY <1>21, <1>22 DEF ModemPrompts
  <1>23. CASE ModemAnswersOk
    <2>1. wire' \in Seq(Line)
      BY <1>21, <1>23 DEF ModemAnswersOk, Final
    <2>2. modem' \in [cmd : Cmds \cup {None}, state : {"ready", "plain", "cmgs", "prompted", "sending"}]
      BY <1>23 DEF ModemAnswersOk, Ready
    <2>3. modem'.state = "ready" /\ aired' \subseteq Cmds
      BY <1>23 DEF ModemAnswersOk, Ready
    <2>. QED
      BY <1>23, <2>1, <2>2, <2>3 DEF ModemAnswersOk
  <1>24. CASE ModemAnswersError
    BY <1>21, <1>24 DEF ModemAnswersError, Ready, Final
  <1>25. CASE Unsolicited
    <2>1. Answer(None, "+CMTI")
      BY <1>25 DEF Unsolicited
    <2>2. wire' \in Seq(Line)
      BY <1>21, <2>1
    <2>. QED
      BY <1>25, <2>2 DEF Unsolicited
  <1>26. CASE UNCHANGED vars
    BY <1>26 DEF vars
  <1>. QED
    BY <1>1, <1>2, <1>3, <1>4, <1>5, <1>6, <1>7, <1>8, <1>9, <1>11, <1>12, <1>13, <1>14, <1>15,
       <1>16, <1>17, <1>18, <1>19, <1>20, <1>22, <1>23, <1>24, <1>25, <1>26
       DEF Next, CallerStep, Reader, Connection, Modem

-----------------------------------------------------------------------------
\* What a caller inside an exchange has.
LEMMA Holder ==
  ASSUME ATInv, NEW c \in Callers, pc[c] \in Inside
  PROVE  on[c] \in Devs /\ lock[on[c]] = c /\ c # None /\ cmd[c] \in Cmds
  <1>1. pc[c] # "idle"
    BY DEF Inside
  <1>. QED
    BY <1>1, CallersAssumption DEF ATInv, ATTypeOK, LockDiscipline, DevicesInTurn, Created, None

\* Who holds the lock of a device is alone with it.
LEMMA Exclusive ==
  ASSUME ATInv, NEW c \in Callers, NEW e \in Callers,
         pc[c] \in Inside, pc[e] \in Inside, on[c] = on[e]
  PROVE  c = e
  BY Holder DEF ATInv, ATTypeOK, LockDiscipline

\* A step of a caller that stays inside, and touches neither the locks nor _current.
LEMMA StaysInside ==
  ASSUME ATInv, NEW c \in Callers, pc[c] \in Inside \ {"install"},
         NEW q \in Inside \ {"install"}, pc' = [pc EXCEPT ![c] = q],
         UNCHANGED <<ser, gone, lock, current, on, cmd>>
  PROVE  LockDiscipline'
  BY DEF ATInv, ATTypeOK, ATTypes, LockDiscipline, Usable

\* A step with which a caller leaves its device, with _current cleared or unusable.
LEMMA LeavesLock ==
  ASSUME ATInv, NEW c \in Callers, pc[c] \in Inside, Leave(c), UNCHANGED <<ser, gone>>,
         \/ current' = [current EXCEPT ![on[c]] = None]
         \/ current' = current /\ ~Usable(on[c])
  PROVE  LockDiscipline'
  <1>. USE DEF ATInv, ATTypeOK, ATTypes, LockDiscipline
  <1>1. on[c] \in Devs /\ lock[on[c]] = c /\ c # None
    BY Holder
  <1>2. \A e \in Callers : pc[e] \in Inside /\ on[e] = on[c] => e = c
    BY Exclusive
  <1>3. \A d \in Devs \ {on[c]} : lock'[d] = lock[d] /\ lock[d] # c /\ current'[d] = current[d]
    BY <1>1 DEF Leave
  <1>4. lock'[on[c]] = None /\ (Usable(on[c]) => current'[on[c]] = None) /\ None \notin Callers
    BY <1>1, CallersAssumption DEF Leave, None
  <1>5. /\ \A e \in Callers \ {c} : pc'[e] = pc[e] /\ on'[e] = on[e] /\ cmd'[e] = cmd[e]
        /\ pc'[c] \notin Inside
    BY DEF Leave, Inside
  <1>6. ASSUME NEW e \in Callers, NEW d \in Devs
        PROVE  lock'[d] = e <=> pc'[e] \in Inside /\ on'[e] = d
    <2>1. CASE e = c
      <3>1. lock'[d] # c
        BY <1>1, <1>3, <1>4
      <3>. QED
        BY <1>5, <2>1, <3>1
    <2>2. CASE e # c /\ d = on[c]
      BY <1>2, <1>4, <1>5, <2>2
    <2>3. CASE e # c /\ d # on[c]
      BY <1>3, <1>5, <2>3
    <2>. QED
      BY <2>1, <2>2, <2>3
  <1>7. \A e \in Callers : pc'[e] \in Inside \ {"install"} => current'[on'[e]] \in {cmd'[e], None}
    <2>. SUFFICES ASSUME NEW e \in Callers, pc'[e] \in Inside \ {"install"}
                  PROVE  current'[on'[e]] \in {cmd'[e], None}
      OBVIOUS
    <2>1. e # c /\ pc[e] \in Inside \ {"install"} /\ on[e] # on[c]
      BY <1>2, <1>5
    <2>2. on[e] \in Devs
      BY <2>1, Holder
    <2>. QED
      BY <1>3, <1>5, <2>1, <2>2
  <1>8. \A d \in Devs : lock'[d] = None /\ Usable(d)' => current'[d] = None
    BY <1>3, <1>4 DEF Usable
  <1>. QED
    BY <1>6, <1>7, <1>8

\* The discipline of the lock.
LEMMA LockDisciplinePreserved == ATInv /\ [Next]_vars => LockDiscipline'
  <1>. SUFFICES ASSUME ATInv, [Next]_vars PROVE LockDiscipline'
    OBVIOUS
  <1>. USE DEF ATInv, ATTypeOK, ATTypes, LockDiscipline, device, calls, worker, module
  <1>1. CASE OpenDevice
    <2>. PICK d \in Devs : d = dev + 1 /\ ser' = [ser EXCEPT ![d] = TRUE]
      BY <1>1 DEF OpenDevice
    <2>1. d > dev
      BY DEF Devs, None
    <2>2. current[d] = None
      BY <2>1 DEF DevicesInTurn
    <2>. QED
      BY <1>1, <2>2 DEF OpenDevice, Usable
  <1>2. CASE PollLoopEnds
    BY <1>2 DEF PollLoopEnds, Usable
  <1>3. CASE CloseBegins
    BY <1>3 DEF CloseBegins, Usable
  <1>4. CASE CloseEnds
    BY <1>4 DEF CloseEnds, Usable
  <1>5. CASE PortLost
    BY <1>5 DEF PortLost, Usable
  <1>6. ASSUME NEW c \in Callers, Pick(c) PROVE LockDiscipline'
    <2>1. pc[c] = "idle" /\ pc' = [pc EXCEPT ![c] = "picked"] /\ on' = [on EXCEPT ![c] = dev]
          /\ UNCHANGED <<ser, gone, lock, current, cmd>>
      BY <1>6 DEF Pick
    <2>2. \A d \in Devs : lock[d] # c
      BY <2>1 DEF Inside
    <2>. QED
      BY <2>1, <2>2 DEF Inside, Usable
  <1>7. ASSUME NEW c \in Callers, Acquire(c) PROVE LockDiscipline'
    <2>. DEFINE d == on[c]
    <2>1. /\ pc[c] = "picked" /\ pc' = [pc EXCEPT ![c] = "install"]
          /\ lock[d] = None /\ lock' = [lock EXCEPT ![d] = c] /\ UNCHANGED <<ser, gone, current, on>>
      BY <1>7 DEF Acquire
    <2>2. d \in Devs /\ c # None /\ None \notin Callers
      BY <2>1, CallersAssumption DEF DevicesInTurn, None
    <2>3. \A e \in Callers \ {c} : cmd'[e] = cmd[e]
      BY <1>7 DEF Acquire, NewCommand
    <2>4. ASSUME NEW e \in Callers, NEW f \in Devs
          PROVE  lock'[f] = e <=> pc'[e] \in Inside /\ on'[e] = f
      <3>1. CASE e = c
        BY <2>1, <2>2, <3>1 DEF Inside
      <3>2. CASE e # c /\ f = d
        BY <2>1, <2>2, <3>2
      <3>3. CASE e # c /\ f # d
        BY <2>1, <2>2, <3>3
      <3>. QED
        BY <3>1, <3>2, <3>3
    <2>5. \A e \in Callers : pc'[e] \in Inside \ {"install"} => current'[on'[e]] \in {cmd'[e], None}
      BY <2>1, <2>3
    <2>6. \A f \in Devs : lock'[f] = None /\ Usable(f)' => current'[f] = None
      BY <2>1, <2>2 DEF Usable
    <2>. QED
      BY <2>4, <2>5, <2>6
  <1>8. ASSUME NEW c \in Callers, Refused(c) PROVE LockDiscipline'
    <2>1. /\ pc[c] = "picked" /\ pc' = [pc EXCEPT ![c] = "idle"]
          /\ on' = [on EXCEPT ![c] = None] /\ UNCHANGED <<ser, gone, lock, current, cmd>>
      BY <1>8 DEF Refused
    <2>2. \A d \in Devs : lock[d] # c
      BY <2>1 DEF Inside
    <2>. QED
      BY <2>1, <2>2 DEF Inside, Usable
  <1>9. ASSUME NEW c \in Callers, Install(c) PROVE LockDiscipline'
    <2>1. pc[c] = "install" /\ pc' = [pc EXCEPT ![c] = "write"]
          /\ current' = [current EXCEPT ![on[c]] = cmd[c]] /\ UNCHANGED <<ser, gone, lock, on, cmd>>
      BY <1>9 DEF Install
    <2>2. on[c] \in Devs /\ lock[on[c]] = c /\ c # None
      BY <2>1, Holder DEF Inside
    <2>3. \A e \in Callers : pc[e] \in Inside /\ on[e] = on[c] => e = c
      BY <2>1, Exclusive DEF Inside
    <2>. QED
      BY <2>1, <2>2, <2>3 DEF Inside, Usable
  <1>10. ASSUME NEW c \in Callers, WriteCommand(c) PROVE LockDiscipline'
    <2>. DEFINE q == IF kind[cmd[c]] = "cmgs" THEN "prompt" ELSE "final"
    <2>1. pc[c] \in Inside \ {"install"} /\ q \in Inside \ {"install"}
      BY <1>10 DEF WriteCommand, Inside
    <2>2. pc' = [pc EXCEPT ![c] = q] /\ UNCHANGED <<ser, gone, lock, current, on, cmd>>
      BY <1>10 DEF WriteCommand
    <2>. QED
      BY <2>1, <2>2, StaysInside
  <1>11. ASSUME NEW c \in Callers, CommandWriteFails(c) PROVE LockDiscipline'
    <2>1. pc[c] \in Inside \ {"install"} /\ "clear" \in Inside \ {"install"}
      BY <1>11 DEF CommandWriteFails, Inside
    <2>2. UNCHANGED <<ser, gone, current>> /\ ~Usable(on[c])
      BY <1>11 DEF CommandWriteFails
    <2>3. CASE pc' = [pc EXCEPT ![c] = "clear"] /\ UNCHANGED <<lock, cmd, on>>
      BY <2>1, <2>2, <2>3, StaysInside
    <2>4. CASE Leave(c)
      BY <2>1, <2>2, <2>4, LeavesLock
    <2>. QED
      BY <1>11, <2>3, <2>4 DEF CommandWriteFails
  <1>12. ASSUME NEW c \in Callers,
                \/ WritePayload(c) \/ PromptRefused(c) \/ PromptTimeout(c)
                \/ DialogueWriteFails(c) \/ WaitEnds(c)
         PROVE  LockDiscipline'
    <2>1. pc[c] \in Inside \ {"install"}
      BY <1>12 DEF WritePayload, PromptRefused, PromptTimeout, DialogueWriteFails, WaitEnds, Inside
    <2>2. PICK q \in {"final", "clear"} : pc' = [pc EXCEPT ![c] = q]
      BY <1>12 DEF WritePayload, PromptRefused, PromptTimeout, DialogueWriteFails, WaitEnds
    <2>3. UNCHANGED <<ser, gone, lock, current, on, cmd>>
      BY <1>12 DEF WritePayload, PromptRefused, PromptTimeout, DialogueWriteFails, WaitEnds
    <2>4. q \in Inside \ {"install"}
      BY DEF Inside
    <2>. QED
      BY <2>1, <2>2, <2>3, <2>4, StaysInside
  <1>13. ASSUME NEW c \in Callers, Clear(c) PROVE LockDiscipline'
    BY <1>13, LeavesLock DEF Clear, Inside
  <1>14. ASSUME NEW d \in Devs, ReadLine(d) PROVE LockDiscipline'
    BY <1>14 DEF ReadLine, Usable
  <1>15. ASSUME NEW d \in Devs, Handle(d) PROVE LockDiscipline'
    BY <1>15 DEF Handle, Usable
  <1>16. ASSUME NEW d \in Devs, ReaderEnds(d) PROVE LockDiscipline'
    BY <1>16 DEF ReaderEnds, Usable
  <1>17. CASE Modem \/ Unsolicited
    BY <1>17 DEF Modem, ModemTakes, ModemPrompts, ModemAnswersOk, ModemAnswersError, Unsolicited, Usable
  <1>18. CASE UNCHANGED vars
    BY <1>18 DEF vars, Usable
  <1>. QED
    BY <1>1, <1>2, <1>3, <1>4, <1>5, <1>6, <1>7, <1>8, <1>9, <1>10, <1>11, <1>12, <1>13, <1>14,
       <1>15, <1>16, <1>17, <1>18 DEF Next, CallerStep, Reader, Connection

\* Where the worker goes keeps the part of DevicesInTurn that is about it: it gives up
\* an open device only by marking it as left open.
LEMMA WorkersChoice ==
  ASSUME ATInv, NEW c \in Callers, NEW ok \in BOOLEAN, WorkerGoesOn(c, ok),
         UNCHANGED <<reader, running, dev>>
  PROVE  /\ phase' # "down" => dev' # None
         /\ ~leaked' => \A d \in Devs : reader'[d] => d = dev' /\ (phase' = "down" => ~running'[d])
  <1>. USE DEF ATInv, ATTypeOK, ATTypes, DevicesInTurn
  <1>1. CASE c = Worker /\ phase = "init"
    <2>1. phase' # "down" => dev' # None
      BY <1>1
    <2>2. CASE ok
      BY <1>1, <2>2 DEF WorkerGoesOn
    <2>3. CASE ~ok
      BY <1>1, <2>3 DEF WorkerGoesOn
    <2>. QED
      BY <2>1, <2>2, <2>3
  <1>2. CASE ~(c = Worker /\ phase = "init")
    BY <1>2 DEF WorkerGoesOn
  <1>. QED
    BY <1>1, <1>2

\* The devices in turn.
LEMMA DevicesInTurnPreserved == ATInv /\ [Next]_vars => DevicesInTurn'
  <1>. SUFFICES ASSUME ATInv, [Next]_vars PROVE DevicesInTurn'
    OBVIOUS
  <1>. USE DEF ATInv, ATTypeOK, ATTypes, DevicesInTurn, device, calls, worker, module
  <1>0. /\ dev \in Nat /\ None = 0 /\ \A d \in Devs : d \in Nat \ {0}
        /\ "idle" \notin Inside /\ "picked" \notin Inside
    BY DEF Devs, None, Inside
  <1>1. CASE OpenDevice
    <2>. PICK d \in Devs : /\ d = dev + 1 /\ dev' = d
                          /\ ser' = [ser EXCEPT ![d] = TRUE] /\ running' = [running EXCEPT ![d] = TRUE]
                          /\ reader' = [reader EXCEPT ![d] = TRUE]
      BY <1>1 DEF OpenDevice
    <2>1. /\ phase = "down" /\ phase' = "init" /\ \A e \in Devs : reader[e] => running[e]
          /\ UNCHANGED <<lock, current, pc, cmd, on, kind, leaked>>
      BY <1>1 DEF OpenDevice
    <2>2. \A x \in Devs : (x <= dev => x <= d) /\ (x > d => x > dev /\ x # d)
      BY <1>0
    <2>3. \A c \in Callers : pc'[c] # "idle" => on'[c] \in Devs /\ on'[c] <= dev'
      BY <2>1, <2>2
    <2>4. \A e \in Devs : e > dev' => current'[e] = None /\ ~reader'[e]
      BY <2>1, <2>2
    <2>5. (\A e \in Devs : reader'[e] => ser'[e]) /\ dev' # None
      BY <1>0
    <2>6. ~leaked' => \A e \in Devs : reader'[e] => e = dev' /\ (phase' = "down" => ~running'[e])
      BY <2>1
    <2>7. \A c \in Callers : pc'[c] \in Inside => cmd'[c] \in Created'
      BY <2>1 DEF Created
    <2>. QED
      BY <2>3, <2>4, <2>5, <2>6, <2>7
  <1>2. CASE PollLoopEnds
    BY <1>2 DEF PollLoopEnds, Connected, Created
  <1>3. CASE CloseBegins
    BY <1>3 DEF CloseBegins, Created
  <1>4. CASE CloseEnds
    BY <1>4 DEF CloseEnds, Created
  <1>5. CASE PortLost
    BY <1>5 DEF PortLost, Created
  <1>6. ASSUME NEW c \in Callers, Pick(c) PROVE DevicesInTurn'
    BY <1>0, <1>6 DEF Pick, Created
  <1>7. ASSUME NEW c \in Callers, Acquire(c) PROVE DevicesInTurn'
    <2>1. /\ pc[c] = "picked" /\ pc' = [pc EXCEPT ![c] = "install"]
          /\ UNCHANGED <<ser, running, reader, current, on, dev, phase, leaked>>
      BY <1>7 DEF Acquire
    <2>2. PICK n \in Cmds, k \in {"plain", "cmgs"} :
                 kind' = [kind EXCEPT ![n] = k] /\ cmd' = [cmd EXCEPT ![c] = n]
      BY <1>7 DEF Acquire, NewCommand
    <2>3. Created \subseteq Created' /\ n \in Created'
      BY <2>2 DEF Created
    <2>4. \A e \in Callers : pc'[e] \in Inside => cmd'[e] \in Created'
      BY <2>1, <2>2, <2>3
    <2>. QED
      BY <2>1, <2>4
  <1>8. ASSUME NEW c \in Callers, Refused(c) PROVE DevicesInTurn'
    <2>1. /\ pc[c] = "picked" /\ pc' = [pc EXCEPT ![c] = "idle"] /\ on' = [on EXCEPT ![c] = None]
          /\ UNCHANGED <<ser, running, reader, current, cmd, kind, dev>>
      BY <1>8 DEF Refused
    <2>2. /\ phase' # "down" => dev' # None
          /\ ~leaked' => \A d \in Devs : reader'[d] => d = dev' /\ (phase' = "down" => ~running'[d])
      BY <1>8, <2>1, WorkersChoice DEF Refused
    <2>3. /\ \A e \in Callers : pc'[e] # "idle" => on'[e] \in Devs /\ on'[e] <= dev'
          /\ \A e \in Callers : pc'[e] \in Inside => cmd'[e] \in Created'
      BY <1>0, <2>1 DEF Created
    <2>4. (\A d \in Devs : d > dev' => current'[d] = None /\ ~reader'[d])
          /\ (\A d \in Devs : reader'[d] => ser'[d])
      BY <2>1
    <2>. QED
      BY ONLY <2>2, <2>3, <2>4 DEF DevicesInTurn
  <1>9. ASSUME NEW c \in Callers, Install(c) PROVE DevicesInTurn'
    <2>1. /\ pc[c] \in Inside /\ pc' = [pc EXCEPT ![c] = "write"] /\ "write" \in Inside
          /\ current' = [current EXCEPT ![on[c]] = cmd[c]]
          /\ UNCHANGED <<ser, running, reader, cmd, on, kind, dev, phase, leaked>>
      BY <1>9 DEF Install, Inside
    <2>2. on[c] \in Devs /\ on[c] <= dev
      BY <1>0, <2>1
    <2>3. \A d \in Devs : d > dev => d # on[c]
      BY <1>0, <2>2
    <2>4. \A d \in Devs : d > dev' => current'[d] = None /\ ~reader'[d]
      BY <2>1, <2>3
    <2>5. \A e \in Callers : pc'[e] \in Inside => cmd'[e] \in Created'
      BY <2>1 DEF Created
    <2>6. \A e \in Callers : pc'[e] # "idle" => on'[e] \in Devs /\ on'[e] <= dev'
      BY <1>0, <2>1, <2>2
    <2>. QED
      BY <2>1, <2>4, <2>5, <2>6
  <1>10. ASSUME NEW c \in Callers,
                \/ WriteCommand(c) \/ WritePayload(c) \/ PromptRefused(c) \/ PromptTimeout(c)
                \/ DialogueWriteFails(c) \/ WaitEnds(c)
         PROVE  DevicesInTurn'
    <2>. USE DEF WriteCommand, WritePayload, PromptRefused, PromptTimeout, DialogueWriteFails, WaitEnds
    <2>1. pc[c] \in Inside
      BY <1>10 DEF Inside
    <2>2. PICK q \in Inside : pc' = [pc EXCEPT ![c] = q]
      BY <1>10 DEF Inside
    <2>3. UNCHANGED <<ser, running, reader, current, cmd, on, kind, dev, phase, leaked>>
      BY <1>10
    <2>. QED
      BY ONLY <1>0, <2>1, <2>2, <2>3, ATInv DEF ATInv, ATTypeOK, ATTypes, DevicesInTurn, Created
  <1>11. ASSUME NEW c \in Callers, CommandWriteFails(c) PROVE DevicesInTurn'
    <2>1. /\ pc[c] \in Inside /\ "clear" \in Inside
          /\ UNCHANGED <<ser, running, reader, current, kind, dev>>
      BY <1>11 DEF CommandWriteFails, Inside
    <2>2. CASE pc' = [pc EXCEPT ![c] = "clear"] /\ UNCHANGED <<cmd, on, phase, leaked>>
      BY <1>0, <2>1, <2>2 DEF Created
    <2>3. CASE Leave(c) /\ WorkerGoesOn(c, FALSE)
      <3>1. /\ phase' # "down" => dev' # None
            /\ ~leaked' => \A d \in Devs : reader'[d] => d = dev' /\ (phase' = "down" => ~running'[d])
        BY <2>1, <2>3, WorkersChoice
      <3>2. /\ \A e \in Callers : pc'[e] # "idle" => on'[e] \in Devs /\ on'[e] <= dev'
            /\ \A e \in Callers : pc'[e] \in Inside => cmd'[e] \in Created'
        BY <1>0, <2>1, <2>3 DEF Leave, Created
      <3>. QED
        BY <2>1, <3>1, <3>2
    <2>. QED
      BY <1>11, <2>2, <2>3 DEF CommandWriteFails
  <1>12. ASSUME NEW c \in Callers, Clear(c) PROVE DevicesInTurn'
    <2>1. /\ pc[c] \in Inside /\ on[c] \in Devs /\ current' = [current EXCEPT ![on[c]] = None]
          /\ Leave(c) /\ WorkerGoesOn(c, Ok(cmd[c])) /\ UNCHANGED <<ser, running, reader, kind, dev>>
      BY <1>12, Holder DEF Clear, Inside
    <2>2. /\ phase' # "down" => dev' # None
          /\ ~leaked' => \A d \in Devs : reader'[d] => d = dev' /\ (phase' = "down" => ~running'[d])
      <3>1. WorkerGoesOn(c, TRUE) \/ WorkerGoesOn(c, FALSE)
        BY ONLY <2>1 DEF WorkerGoesOn
      <3>. QED
        BY <2>1, <3>1, WorkersChoice
    <2>. QED
      BY <1>0, <2>1, <2>2 DEF Leave, Created
  <1>13. ASSUME NEW d \in Devs, ReadLine(d) \/ Handle(d) PROVE DevicesInTurn'
    BY <1>13 DEF ReadLine, Handle, Created
  <1>14. ASSUME NEW d \in Devs, ReaderEnds(d) PROVE DevicesInTurn'
    BY <1>14 DEF ReaderEnds, Created
  <1>15. CASE Modem \/ Unsolicited
    BY <1>15 DEF Modem, ModemTakes, ModemPrompts, ModemAnswersOk, ModemAnswersError, Unsolicited, Created
  <1>16. CASE UNCHANGED vars
    BY <1>16 DEF vars, Created
  <1>. QED
    BY <1>1, <1>2, <1>3, <1>4, <1>5, <1>6, <1>7, <1>8, <1>9, <1>10, <1>11, <1>12, <1>13, <1>14,
       <1>15, <1>16 DEF Next, CallerStep, Reader, Connection

-----------------------------------------------------------------------------
(***************************************************************************)
(* Answers reach their command.                                            *)
(***************************************************************************)
\* An exchange is attended while a thread reads the device it is on.
Attended(n) ==
  \E d \in Devs : reader[d] /\ (current[d] = n \/ \E c \in Callers : cmd[c] = n /\ on[c] = d)

\* Weaker than NothingGivenUp, and once false false for good: no device was left open,
\* and each exchange without a final line is attended.
NoneStray == ~leaked /\ \A n \in Created : Done(n) \/ Attended(n)

\* Each exchange has one caller, one device, and lines only after its creation; a line
\* in hand has a reader, and what a reader reads goes to the holder of the lock.
OwnExchange ==
  /\ \A c \in Callers : pc[c] \in Inside <=> cmd[c] # None
  /\ \A c, e \in Callers : cmd[c] = cmd[e] /\ cmd[c] # None => c = e
  /\ \A c \in Callers, d \in Devs : cmd[c] # None /\ current[d] = cmd[c] => on[c] = d
  /\ \A d \in Devs : current[d] # None => current[d] \in Created
  /\ \A n \in Cmds \ Created : lines[n] = <<>>
  /\ \A d \in Devs : running[d] \/ inHand[d] # <<>> => reader[d]
  /\ \A c \in Callers :
       pc[c] \in Inside \ {"install"} /\ reader[on[c]] => current[on[c]] = cmd[c]

\* The lines that are true: an OK to a message comes after it was put on the air.
Honest ==
  {line \in Line :
     line.text = "OK" => line.from \in Created /\ (kind[line.from] = "cmgs" => line.from \in aired)}

\* What was written for an exchange that exists, a command as what it is.
Command(item) == item.what \in {"plain", "cmgs"}
Genuine ==
  {item \in Item : item.cmd \in Created /\ (Command(item) => item.what = kind[item.cmd])}

\* Everything on the line is true.
Truthful ==
  /\ toModem \in Seq(Genuine)
  /\ modem.state # "ready" => modem.cmd \in Created
  /\ modem.state = "plain" => kind[modem.cmd] = "plain"
  /\ wire \in Seq(Honest)
  /\ inHand \in [Devs -> Seq(Honest)]
  /\ lines \in [Cmds -> Seq(Honest)]

\* The commands whose final line a caller still waits for, and a thread reads for it.
Waits == {"prompt", "final", "clear"}
Awaited ==
  {n \in Cmds : ~Done(n) /\ \E c \in Callers : cmd[c] = n /\ pc[c] \in Waits /\ reader[on[c]]}

\* Everything between the callers and the module belongs to an awaited command.
Answering(line) == line.text # "+CMTI"
Closing(line) == line.text \in Final
AllAwaited ==
  /\ \A i \in DOMAIN wire : Answering(wire[i]) => wire[i].from \in Awaited
  /\ \A d \in Devs : inHand[d] # <<>> /\ Answering(inHand[d][1]) => inHand[d][1].from \in Awaited
  /\ modem.state # "ready" => modem.cmd \in Awaited
  /\ \A i \in DOMAIN toModem : Command(toModem[i]) => toModem[i].cmd \in Awaited

\* A command is in one place: written, with the module, or answered; and its final line
\* is the last.
FinalComes ==
  \/ \E i \in DOMAIN wire : Closing(wire[i])
  \/ \E d \in Devs : inHand[d] # <<>> /\ Closing(inHand[d][1])
OnePlace ==
  /\ \A i, j \in DOMAIN toModem : Command(toModem[i]) /\ Command(toModem[j]) => i = j
  /\ \A i \in DOMAIN toModem : Command(toModem[i]) => modem.state = "ready" /\ ~FinalComes
  /\ FinalComes => modem.state = "ready"
  /\ \A i, j \in DOMAIN wire : i < j /\ Closing(wire[i]) => ~Answering(wire[j])
  /\ \A d \in Devs : inHand[d] # <<>> /\ Closing(inHand[d][1]) =>
       \A i \in DOMAIN wire : ~Answering(wire[i])

\* Nothing has ended before it was written.
Unwritten ==
  \A c \in Callers, n \in Cmds : pc[c] \in {"install", "write"} /\ cmd[c] = n => ~Done(n)

\* On a line without stray exchanges, answers are where they belong.
InOrder == AnswersMatch /\ AllAwaited /\ OnePlace /\ Unwritten
Orderly == NoneStray => InOrder

\* The inductive invariant.
LineInv == ATInv /\ OwnExchange /\ Truthful /\ Orderly

-----------------------------------------------------------------------------
LEMMA InitEstablishesLine == Init => OwnExchange /\ Truthful /\ Orderly
  <1>. SUFFICES ASSUME Init PROVE OwnExchange /\ Truthful /\ Orderly
    OBVIOUS
  <1>. USE DEF Init, None, Devs, Cmds
  <1>1. Created = {} /\ \A c \in Callers : pc[c] = "idle" /\ pc[c] \notin Inside /\ cmd[c] = None
    BY DEF Created, Inside
  <1>2. OwnExchange
    BY <1>1 DEF OwnExchange
  <1>3. Truthful
    <2>1. \A S : <<>> \in Seq(S)
      BY EmptySeq
    <2>2. modem.state = "ready"
      BY DEF Ready
    <2>. QED
      BY <2>1, <2>2 DEF Truthful
  <1>4. AnswersMatch /\ AllAwaited /\ Unwritten
    BY <1>1 DEF AnswersMatch, AllAwaited, Unwritten, Ready
  <1>5. ~FinalComes /\ OnePlace
    BY DEF FinalComes, OnePlace, Ready
  <1>. QED
    BY <1>2, <1>3, <1>4, <1>5 DEF Orderly, InOrder

\* What a caller takes with a step, for those that stand inside an exchange.
LEMMA OwnExchangePreserved == ATInv /\ OwnExchange /\ [Next]_vars => OwnExchange'
  <1>. SUFFICES ASSUME ATInv, OwnExchange, [Next]_vars PROVE OwnExchange'
    OBVIOUS
  <1>. USE DEF ATInv, ATTypeOK, ATTypes, OwnExchange, device, calls, worker, module
  <1>0. /\ "idle" \notin Inside /\ "picked" \notin Inside /\ "install" \in Inside
        /\ None = 0 /\ 0 \notin Cmds
    BY DEF Inside, None, Cmds
  <1>1. CASE OpenDevice
    <2>. PICK d \in Devs : d = dev + 1 /\ running' = [running EXCEPT ![d] = TRUE]
                          /\ reader' = [reader EXCEPT ![d] = TRUE]
      BY <1>1 DEF OpenDevice
    <2>1. \A c \in Callers : pc[c] \in Inside => on[c] # d
      BY <1>0 DEF DevicesInTurn, Devs, None
    <2>. QED
      BY <1>1, <2>1 DEF OpenDevice, Created
  <1>2. CASE PollLoopEnds
    BY <1>2 DEF PollLoopEnds, Created
  <1>3. CASE CloseBegins
    BY <1>3 DEF CloseBegins, Created
  <1>4. CASE CloseEnds
    BY <1>4 DEF CloseEnds, Created
  <1>5. CASE PortLost
    BY <1>5 DEF PortLost, Created
  <1>6. ASSUME NEW c \in Callers, Pick(c) PROVE OwnExchange'
    BY <1>0, <1>6 DEF Pick, Created
  <1>7. ASSUME NEW c \in Callers, Acquire(c) PROVE OwnExchange'
    <2>1. /\ pc[c] = "picked" /\ pc' = [pc EXCEPT ![c] = "install"]
          /\ UNCHANGED <<running, reader, inHand, current, on, lines>>
      BY <1>7 DEF Acquire
    <2>2. PICK n \in Cmds \ Created, k \in {"plain", "cmgs"} :
                 kind' = [kind EXCEPT ![n] = k] /\ cmd' = [cmd EXCEPT ![c] = n]
      BY <1>7 DEF Acquire, NewCommand
    <2>3. Created' = Created \cup {n}
      BY <2>2 DEF Created
    <2>4. \A e \in Callers : cmd[e] # None => cmd[e] \in Created
      BY DEF DevicesInTurn
    <2>5. (\A e \in Callers : cmd[e] # n) /\ (\A d \in Devs : current[d] # n)
      BY <1>0, <2>2, <2>4
    <2>6. /\ \A e \in Callers \ {c} : cmd'[e] = cmd[e] /\ pc'[e] = pc[e]
          /\ cmd'[c] = n /\ pc'[c] = "install" /\ n # None
      BY <1>0, <2>1, <2>2
    <2>7. /\ \A e \in Callers : pc'[e] \in Inside <=> cmd'[e] # None
          /\ \A e, f \in Callers : cmd'[e] = cmd'[f] /\ cmd'[e] # None => e = f
      BY ONLY <1>0, <2>5, <2>6, OwnExchange DEF OwnExchange
    <2>8. \A e \in Callers, d \in Devs : cmd'[e] # None /\ current'[d] = cmd'[e] => on'[e] = d
      BY ONLY <2>1, <2>5, <2>6, OwnExchange DEF OwnExchange
    <2>9. \A d \in Devs : current'[d] # None => current'[d] \in Created'
      BY <2>1, <2>3
    <2>10. \A x \in Cmds \ Created' : lines'[x] = <<>>
      BY <2>1, <2>3
    <2>11. \A d \in Devs : running'[d] \/ inHand'[d] # <<>> => reader'[d]
      BY <2>1
    <2>12. \A e \in Callers :
             pc'[e] \in Inside \ {"install"} /\ reader'[on'[e]] => current'[on'[e]] = cmd'[e]
      BY <2>1, <2>2
    <2>. QED
      BY <2>7, <2>8, <2>9, <2>10, <2>11, <2>12
  <1>8. ASSUME NEW c \in Callers, Refused(c) PROVE OwnExchange'
    BY <1>0, <1>8 DEF Refused, Created
  <1>9. ASSUME NEW c \in Callers, Install(c) PROVE OwnExchange'
    <2>1. /\ pc[c] \in Inside /\ pc' = [pc EXCEPT ![c] = "write"] /\ "write" \in Inside
          /\ current' = [current EXCEPT ![on[c]] = cmd[c]]
          /\ UNCHANGED <<running, reader, inHand, cmd, on, kind, lines>>
      BY <1>9 DEF Install, Inside
    <2>2. on[c] \in Devs /\ cmd[c] \in Created
      BY <1>0, <2>1 DEF DevicesInTurn
    <2>3. \A e \in Callers : pc[e] \in Inside /\ on[e] = on[c] => e = c
      BY <2>1, Exclusive
    <2>. QED
      BY <2>1, <2>2, <2>3 DEF Created
  <1>10. ASSUME NEW c \in Callers,
                \/ WriteCommand(c) \/ WritePayload(c) \/ PromptRefused(c) \/ PromptTimeout(c)
                \/ DialogueWriteFails(c) \/ WaitEnds(c)
         PROVE  OwnExchange'
    <2>. USE DEF WriteCommand, WritePayload, PromptRefused, PromptTimeout, DialogueWriteFails, WaitEnds
    <2>1. pc[c] \in Inside \ {"install"}
      BY <1>10 DEF Inside
    <2>2. PICK q \in Inside \ {"install"} : pc' = [pc EXCEPT ![c] = q]
      BY <1>10 DEF Inside
    <2>3. UNCHANGED <<running, reader, inHand, current, cmd, on, kind, lines>>
      BY <1>10
    <2>. QED
      BY ONLY <2>1, <2>2, <2>3, ATInv, OwnExchange DEF ATInv, ATTypeOK, ATTypes, OwnExchange, Created
  <1>11. ASSUME NEW c \in Callers, pc[c] \in Inside, Leave(c),
                \A d \in Devs : current'[d] # None => current'[d] = current[d],
                \A d \in Devs : d # on[c] => current'[d] = current[d],
                UNCHANGED <<running, reader, inHand, kind, lines>>
         PROVE  OwnExchange'
    <2>1. /\ pc' = [pc EXCEPT ![c] = "idle"] /\ cmd' = [cmd EXCEPT ![c] = None]
          /\ on' = [on EXCEPT ![c] = None]
      BY <1>11 DEF Leave
    <2>2. \A e \in Callers : pc[e] \in Inside /\ on[e] = on[c] => e = c
      BY <1>11, Exclusive
    <2>3. \A e \in Callers : pc'[e] \in Inside => e # c /\ on[e] # on[c] /\ on[e] \in Devs
      BY <1>0, <2>1, <2>2 DEF DevicesInTurn
    <2>4. \A e \in Callers : pc'[e] \in Inside \ {"install"} /\ reader'[on'[e]] => current'[on'[e]] = cmd'[e]
      BY <1>11, <2>1, <2>3
    <2>5. \A e \in Callers, d \in Devs : cmd'[e] # None /\ current'[d] = cmd'[e] => on'[e] = d
      BY <1>11, <2>1
    <2>. QED
      BY <1>0, <1>11, <2>1, <2>4, <2>5 DEF Created
  <1>12. ASSUME NEW c \in Callers, CommandWriteFails(c) PROVE OwnExchange'
    <2>1. pc[c] \in Inside \ {"install"} /\ "clear" \in Inside \ {"install"}
          /\ UNCHANGED <<running, reader, inHand, current, kind, lines>>
      BY <1>12 DEF CommandWriteFails, Inside
    <2>2. CASE pc' = [pc EXCEPT ![c] = "clear"] /\ UNCHANGED <<cmd, on>>
      BY <2>1, <2>2 DEF Created
    <2>3. CASE Leave(c)
      BY <1>11, <2>1, <2>3
    <2>. QED
      BY <1>12, <2>2, <2>3 DEF CommandWriteFails
  <1>13. ASSUME NEW c \in Callers, Clear(c) PROVE OwnExchange'
    BY <1>11, <1>13 DEF Clear, Inside
  <1>14. ASSUME NEW d \in Devs, ReadLine(d) PROVE OwnExchange'
    BY <1>14 DEF ReadLine, Created
  <1>15. ASSUME NEW d \in Devs, Handle(d) PROVE OwnExchange'
    <2>1. \A n \in Cmds \ Created : lines'[n] = lines[n]
      BY <1>15 DEF Handle
    <2>2. UNCHANGED <<running, reader, current, cmd, on, kind, pc>> /\ inHand' = [inHand EXCEPT ![d] = <<>>]
      BY <1>15 DEF Handle
    <2>. QED
      BY <2>1, <2>2 DEF Created
  <1>16. ASSUME NEW d \in Devs, ReaderEnds(d) PROVE OwnExchange'
    BY <1>16 DEF ReaderEnds, Created
  <1>17. CASE Modem \/ Unsolicited
    BY <1>17 DEF Modem, ModemTakes, ModemPrompts, ModemAnswersOk, ModemAnswersError, Unsolicited, Created
  <1>18. CASE UNCHANGED vars
    BY <1>18 DEF vars, Created
  <1>. QED
    BY <1>1, <1>2, <1>3, <1>4, <1>5, <1>6, <1>7, <1>8, <1>9, <1>10, <1>12, <1>13, <1>14,
       <1>15, <1>16, <1>17, <1>18 DEF Next, CallerStep, Reader, Connection

\* What is true stays true: an exchange keeps its kind, and what was aired was aired.
LEMMA TruthStays ==
  ASSUME ATInv, [Next]_vars
  PROVE  /\ Created \subseteq Created' /\ \A n \in Created : kind'[n] = kind[n]
         /\ Honest \subseteq Honest' /\ Genuine \subseteq Genuine'
         /\ Seq(Honest) \subseteq Seq(Honest') /\ Seq(Genuine) \subseteq Seq(Genuine')
  <1>. USE DEF ATInv, ATTypeOK, ATTypes, device, calls, worker, module
  <1>1. Created \subseteq Created' /\ \A n \in Created : kind'[n] = kind[n]
    <2>1. CASE UNCHANGED kind
      BY <2>1 DEF Created
    <2>2. ASSUME NEW c \in Callers, Acquire(c)
          PROVE  Created \subseteq Created' /\ \A n \in Created : kind'[n] = kind[n]
      BY <2>2 DEF Acquire, NewCommand, Created
    <2>. QED
      BY <2>1, <2>2
         DEF Next, vars, CallerStep, Reader, Connection, Modem, OpenDevice, PollLoopEnds, CloseBegins, CloseEnds,
             PortLost, Pick, Refused, Install, WriteCommand, CommandWriteFails, WritePayload, PromptRefused,
             PromptTimeout, DialogueWriteFails, WaitEnds, Clear, ReadLine, Handle, ReaderEnds, ModemTakes,
             ModemPrompts, ModemAnswersOk, ModemAnswersError, Unsolicited
  <1>2. aired \subseteq aired'
    <2>1. CASE ModemAnswersOk
      BY <2>1 DEF ModemAnswersOk
    <2>2. CASE UNCHANGED aired
      BY <2>2
    <2>. QED
      BY <2>1, <2>2
         DEF Next, vars, CallerStep, Reader, Connection, Modem, OpenDevice, PollLoopEnds, CloseBegins, CloseEnds,
             PortLost, Pick, Acquire, Refused, Install, WriteCommand, CommandWriteFails, WritePayload,
             PromptRefused, PromptTimeout, DialogueWriteFails, WaitEnds, Clear, ReadLine, Handle, ReaderEnds,
             ModemTakes, ModemPrompts, ModemAnswersError, Unsolicited
  <1>3. Honest \subseteq Honest'
    BY <1>1, <1>2 DEF Honest
  <1>4. Genuine \subseteq Genuine'
    BY <1>1 DEF Genuine
  <1>. QED
    BY <1>1, <1>3, <1>4, SeqMonotonic

\* What the module does keeps the line true.
LEMMA ModemIsTruthful ==
  ASSUME ATInv, Truthful, Modem \/ Unsolicited, [Next]_vars
  PROVE  Truthful'
  <1>. USE DEF ATInv, ATTypeOK, ATTypes, Truthful, device, calls, worker, module
  <1>0. Created' = Created
    BY DEF Modem, ModemTakes, ModemPrompts, ModemAnswersOk, ModemAnswersError, Unsolicited, Created
  <1>1. Seq(Honest) \subseteq Seq(Honest') /\ Seq(Genuine) \subseteq Seq(Genuine')
    BY TruthStays
  <1>2. CASE ModemTakes
    <2>1. Head(toModem) \in Genuine /\ Tail(toModem) \in Seq(Genuine)
      BY <1>2, HeadTailProperties DEF ModemTakes
    <2>2. modem'.state # "ready" => modem'.cmd \in Created
      <3>1. CASE modem.state = "ready"
        BY <1>2, <2>1, <3>1 DEF ModemTakes, Genuine
      <3>2. CASE modem.state = "prompted"
        BY <1>2, <2>1, <3>2 DEF ModemTakes, Ready
      <3>. QED
        BY <1>2, <3>1, <3>2 DEF ModemTakes
    <2>3. modem'.state = "plain" => kind[modem'.cmd] = "plain"
      <3>1. CASE modem.state = "ready"
        BY <1>2, <2>1, <3>1 DEF ModemTakes, Genuine, Command
      <3>2. CASE modem.state = "prompted"
        BY <1>2, <2>1, <3>2 DEF ModemTakes, Ready
      <3>. QED
        BY <1>2, <3>1, <3>2 DEF ModemTakes
    <2>. QED
      BY <1>0, <1>1, <1>2, <2>1, <2>2, <2>3 DEF ModemTakes
  <1>3. ASSUME NEW line \in Honest', wire' = Append(wire, line) PROVE wire' \in Seq(Honest')
    BY <1>1, <1>3, AppendProperties
  <1>4. ASSUME NEW n \in Cmds \cup {None}, NEW text \in {">", "+CMTI", "ERROR"}, Answer(n, text)
        PROVE  wire' \in Seq(Honest')
    <2>1. [from |-> n, text |-> text] \in Honest'
      BY DEF Honest, Line, Final
    <2>. QED
      BY <1>3, <1>4, <2>1 DEF Answer
  <1>5. CASE ModemPrompts
    <2>1. wire' \in Seq(Honest')
      BY <1>4, <1>5 DEF ModemPrompts
    <2>. QED
      BY <1>0, <1>1, <1>5, <2>1 DEF ModemPrompts
  <1>6. CASE ModemAnswersOk
    <2>1. modem.cmd \in Created /\ modem.cmd \in Cmds
      BY <1>6 DEF ModemAnswersOk
    <2>2. kind[modem.cmd] = "cmgs" => modem.cmd \in aired'
      BY <1>6, <2>1 DEF ModemAnswersOk
    <2>3. [from |-> modem.cmd, text |-> "OK"] \in Honest'
      BY <1>0, <1>6, <2>1, <2>2 DEF Honest, Line, Final, ModemAnswersOk
    <2>4. wire' \in Seq(Honest')
      BY <1>3, <1>6, <2>3 DEF ModemAnswersOk, Answer
    <2>. QED
      BY <1>0, <1>1, <1>6, <2>4 DEF ModemAnswersOk, Ready
  <1>7. CASE ModemAnswersError
    <2>1. wire' \in Seq(Honest')
      BY <1>4, <1>7 DEF ModemAnswersError
    <2>. QED
      BY <1>0, <1>1, <1>7, <2>1 DEF ModemAnswersError, Ready
  <1>8. CASE Unsolicited
    <2>1. wire' \in Seq(Honest')
      BY <1>4, <1>8 DEF Unsolicited
    <2>. QED
      BY <1>0, <1>1, <1>8, <2>1 DEF Unsolicited
  <1>. QED
    BY <1>2, <1>5, <1>6, <1>7, <1>8 DEF Modem

\* The line stays true.
LEMMA TruthfulPreserved == ATInv /\ Truthful /\ [Next]_vars => Truthful'
  <1>. SUFFICES ASSUME ATInv, Truthful, [Next]_vars PROVE Truthful'
    OBVIOUS
  <1>. USE DEF ATInv, ATTypeOK, ATTypes, Truthful, device, calls, worker, module
  <1>1. /\ Created \subseteq Created' /\ \A n \in Created : kind'[n] = kind[n]
        /\ Seq(Honest) \subseteq Seq(Honest') /\ Seq(Genuine) \subseteq Seq(Genuine')
        /\ Honest \subseteq Honest'
    BY TruthStays
  <1>2. CASE UNCHANGED <<toModem, modem, wire, inHand, lines>>
    BY <1>1, <1>2
  <1>3. CASE PortLost
    BY <1>1, <1>3, EmptySeq DEF PortLost, Ready
  <1>4. ASSUME NEW c \in Callers, NEW item \in Genuine, Send(c, item),
               UNCHANGED <<modem, inHand, lines>>
        PROVE  Truthful'
    <2>1. wire' \in Seq(Honest')
      BY <1>4 DEF Send
    <2>2. toModem' \in Seq(Genuine')
      <3>1. Append(toModem, item) \in Seq(Genuine)
        BY ONLY toModem \in Seq(Genuine), item \in Genuine
      <3>. QED
        BY <1>1, <1>4, <3>1 DEF Send
    <2>. QED
      BY <1>1, <1>4, <2>1, <2>2
  <1>5. ASSUME NEW c \in Callers, pc[c] \in Inside
        PROVE  cmd[c] \in Created /\ cmd[c] \in Cmds /\ kind[cmd[c]] \in {"plain", "cmgs"}
    BY <1>5 DEF DevicesInTurn, Created
  <1>6. ASSUME NEW c \in Callers, WriteCommand(c) PROVE Truthful'
    <2>1. [cmd |-> cmd[c], what |-> kind[cmd[c]]] \in Genuine
      BY <1>5, <1>6 DEF WriteCommand, Genuine, Item, Inside
    <2>. QED
      BY <1>4, <1>6, <2>1 DEF WriteCommand
  <1>7. ASSUME NEW c \in Callers, WritePayload(c) PROVE Truthful'
    <2>1. [cmd |-> cmd[c], what |-> "payload"] \in Genuine
      BY <1>5, <1>7 DEF WritePayload, Genuine, Item, Inside, Command
    <2>. QED
      BY <1>4, <1>7, <2>1 DEF WritePayload
  <1>8. ASSUME NEW c \in Callers, PromptTimeout(c) PROVE Truthful'
    <2>1. [cmd |-> cmd[c], what |-> "esc"] \in Genuine
      BY <1>5, <1>8 DEF PromptTimeout, Genuine, Item, Inside, Command
    <2>. QED
      BY <1>4, <1>8, <2>1 DEF PromptTimeout
  <1>9. ASSUME NEW d \in Devs, ReadLine(d) PROVE Truthful'
    <2>1. Head(wire) \in Honest' /\ Tail(wire) \in Seq(Honest')
      BY <1>1, <1>9, HeadTailProperties DEF ReadLine
    <2>2. <<Head(wire)>> \in Seq(Honest')
      BY <2>1
    <2>. QED
      BY <1>1, <1>9, <2>1, <2>2 DEF ReadLine
  <1>10. ASSUME NEW d \in Devs, Handle(d) PROVE Truthful'
    <2>1. inHand[d][1] \in Honest' /\ <<>> \in Seq(Honest')
      BY <1>1, <1>10, HeadAndTail, EmptySeq DEF Handle
    <2>2. \A n \in Cmds : Append(lines[n], inHand[d][1]) \in Seq(Honest')
      BY <1>1, <2>1, AppendProperties
    <2>. QED
      BY <1>1, <1>10, <2>1, <2>2 DEF Handle
  <1>11. CASE Modem \/ Unsolicited
    BY <1>11, ModemIsTruthful
  <1>. QED
    BY <1>2, <1>3, <1>6, <1>7, <1>8, <1>9, <1>10, <1>11
       DEF Next, vars, CallerStep, Reader, Connection, OpenDevice, PollLoopEnds, CloseBegins, CloseEnds, Pick,
           Acquire, Refused, Install, CommandWriteFails, PromptRefused, DialogueWriteFails, WaitEnds, Clear,
           ReaderEnds

-----------------------------------------------------------------------------
\* A command gets its final line by a reader that handles one.
LEMMA DoneByHandling ==
  ASSUME ATInv, [Next]_vars, NEW n \in Cmds, Done(n)'
  PROVE  \/ Done(n)
         \/ \E d \in Devs : Handle(d) /\ inHand[d] # <<>> /\ current[d] = n /\ Closing(inHand[d][1])
  <1>. USE DEF ATInv, ATTypeOK, ATTypes, device, calls, worker, module
  <1>1. CASE UNCHANGED lines
    BY <1>1 DEF Done, Collected
  <1>2. ASSUME NEW d \in Devs, Handle(d)
        PROVE  Done(n) \/ (inHand[d] # <<>> /\ current[d] = n /\ Closing(inHand[d][1]))
    <2>1. CASE current[d] # n
      BY <1>2, <2>1 DEF Handle, Done, Collected
    <2>2. CASE current[d] = n
      <3>. DEFINE line == inHand[d][1]
      <3>1. line \in Line /\ lines[n] \in Seq(Line) /\ inHand[d] # <<>>
        BY <1>2, HeadAndTail DEF Handle
      <3>2. lines'[n] = Append(lines[n], line)
        BY <1>2, <2>2 DEF Handle, None, Cmds
      <3>3. PICK i \in DOMAIN lines'[n] : lines'[n][i].text \in Final
        BY DEF Done, Collected
      <3>4. (i \in DOMAIN lines[n] /\ lines'[n][i] = lines[n][i]) \/ lines'[n][i] = line
        BY <3>1, <3>2, <3>3, AppendProperties
      <3>. QED
        BY <2>2, <3>1, <3>3, <3>4 DEF Done, Collected, Closing
    <2>. QED
      BY <2>1, <2>2
  <1>. QED
    BY <1>1, <1>2
       DEF Next, vars, CallerStep, Reader, Connection, Modem, OpenDevice, PollLoopEnds, CloseBegins, CloseEnds,
           PortLost, Pick, Acquire, Refused, Install, WriteCommand, CommandWriteFails, WritePayload,
           PromptRefused, PromptTimeout, DialogueWriteFails, WaitEnds, Clear, ReadLine, ReaderEnds,
           ModemTakes, ModemPrompts, ModemAnswersOk, ModemAnswersError, Unsolicited

\* A caller gets nothing but a new exchange, a device nothing but a holder's.
LEMMA CallsMove ==
  ASSUME ATInv, OwnExchange, [Next]_vars
  PROVE  /\ leaked => leaked'
         /\ \A c \in Callers : \/ cmd'[c] = None
                               \/ cmd'[c] \in Cmds \ Created
                               \/ cmd'[c] = cmd[c] /\ on'[c] = on[c]
         /\ \A d \in Devs : \/ current'[d] \in {current[d], None}
                            \/ \E c \in Callers : on[c] = d /\ current'[d] = cmd[c]
         /\ \A d \in Devs : reader'[d] => reader[d] \/ (d > dev /\ UNCHANGED <<current, cmd, on>>)
  <1>. USE DEF ATInv, ATTypeOK, ATTypes, OwnExchange, device, calls, worker, module
  <1>1. leaked => leaked'
    BY DEF WorkerGoesOn, Next, vars, CallerStep, Reader, Connection, Modem, OpenDevice,
                 PollLoopEnds, CloseBegins, CloseEnds, PortLost, Pick, Acquire, Refused,
                 Install, WriteCommand, CommandWriteFails, WritePayload, PromptRefused,
                 PromptTimeout, DialogueWriteFails, WaitEnds, Clear, ReadLine, Handle,
                 ReaderEnds, ModemTakes, ModemPrompts, ModemAnswersOk, ModemAnswersError,
                 Unsolicited
  <1>. DEFINE NewCalls ==
                \A c \in Callers : \/ cmd'[c] = None
                                   \/ cmd'[c] \in Cmds \ Created
                                   \/ cmd'[c] = cmd[c] /\ on'[c] = on[c]
              NewCurrent ==
                \A d \in Devs : \/ current'[d] \in {current[d], None}
                                \/ \E c \in Callers : on[c] = d /\ current'[d] = cmd[c]
              NewReaders ==
                \A d \in Devs : reader'[d] => reader[d] \/ (d > dev /\ UNCHANGED <<current, cmd, on>>)
  <1>2. NewCalls
    <2>1. CASE UNCHANGED <<cmd, on>>
      BY <2>1
    <2>2. ASSUME NEW c \in Callers, Pick(c) \/ Refused(c) PROVE NewCalls
      <3>1. cmd[c] = None
        BY <2>2 DEF Pick, Refused, Inside
      <3>2. UNCHANGED cmd /\ \A e \in Callers \ {c} : on'[e] = on[e]
        BY <2>2 DEF Pick, Refused
      <3>. QED
        BY ONLY <3>1, <3>2 DEF NewCalls
    <2>3. ASSUME NEW c \in Callers, Acquire(c) PROVE NewCalls
      BY <2>3 DEF Acquire, NewCommand
    <2>4. ASSUME NEW c \in Callers, CommandWriteFails(c) \/ Clear(c) PROVE NewCalls
      <3>1. CASE UNCHANGED <<cmd, on>>
        BY <3>1
      <3>2. CASE Leave(c)
        <4>1. /\ cmd'[c] = None /\ \A e \in Callers \ {c} : cmd'[e] = cmd[e] /\ on'[e] = on[e]
          BY <3>2 DEF Leave
        <4>. QED
          BY ONLY <4>1 DEF NewCalls
      <3>. QED
        BY <2>4, <3>1, <3>2 DEF CommandWriteFails, Clear
    <2>. QED
      BY <2>1, <2>2, <2>3, <2>4
         DEF Next, vars, CallerStep, Reader, Connection, Modem, OpenDevice, PollLoopEnds,
             CloseBegins, CloseEnds, PortLost, Install, WriteCommand, WritePayload,
             PromptRefused, PromptTimeout, DialogueWriteFails, WaitEnds, ReadLine, Handle,
             ReaderEnds, ModemTakes, ModemPrompts, ModemAnswersOk, ModemAnswersError,
             Unsolicited
  <1>3. NewCurrent
    <2>1. CASE UNCHANGED current
      BY <2>1
    <2>2. CASE CloseEnds
      BY <2>2 DEF CloseEnds
    <2>3. ASSUME NEW c \in Callers, Install(c) \/ Clear(c) PROVE NewCurrent
      BY <2>3 DEF Install, Clear
    <2>. QED
      BY <2>1, <2>2, <2>3
         DEF Next, vars, CallerStep, Reader, Connection, Modem, OpenDevice, PollLoopEnds,
             CloseBegins, PortLost, Pick, Acquire, Refused, WriteCommand,
             CommandWriteFails, WritePayload, PromptRefused, PromptTimeout,
             DialogueWriteFails, WaitEnds, ReadLine, Handle, ReaderEnds, ModemTakes,
             ModemPrompts, ModemAnswersOk, ModemAnswersError, Unsolicited
  <1>4. NewReaders
    <2>1. CASE UNCHANGED reader
      BY <2>1
    <2>2. CASE OpenDevice
      BY <2>2 DEF OpenDevice, Devs, None
    <2>3. ASSUME NEW d \in Devs, ReaderEnds(d) PROVE NewReaders
      BY <2>3 DEF ReaderEnds
    <2>. QED
      BY <2>1, <2>2, <2>3
         DEF Next, vars, CallerStep, Reader, Connection, Modem, PollLoopEnds, CloseBegins,
             CloseEnds, PortLost, Pick, Acquire, Refused, Install, WriteCommand,
             CommandWriteFails, WritePayload, PromptRefused, PromptTimeout,
             DialogueWriteFails, WaitEnds, Clear, ReadLine, Handle, ModemTakes,
             ModemPrompts, ModemAnswersOk, ModemAnswersError, Unsolicited
  <1>. QED
    BY <1>1, <1>2, <1>3, <1>4

\* A stray exchange stays one: no line will come for it.
LEMMA StrayStays ==
  ASSUME ATInv, OwnExchange, [Next]_vars, NoneStray'
  PROVE  NoneStray
  <1>. USE DEF ATInv, ATTypeOK, ATTypes, OwnExchange
  <1>1. ~leaked
    BY CallsMove DEF NoneStray
  <1>2. ASSUME NEW n \in Created PROVE Done(n) \/ Attended(n)
    <2>1. n \in Created' /\ n \in Cmds /\ n # None
      BY TruthStays DEF Created, Cmds, None
    <2>2. CASE Done(n)'
      <3>1. ASSUME NEW d \in Devs, inHand[d] # <<>>, current[d] = n PROVE Attended(n)
        BY <3>1 DEF Attended
      <3>. QED
        BY <2>1, <2>2, <3>1, DoneByHandling
    <2>3. CASE ~Done(n)'
      <3>1. PICK d \in Devs :
              reader'[d] /\ (current'[d] = n \/ \E c \in Callers : cmd'[c] = n /\ on'[c] = d)
        BY <2>1, <2>3 DEF NoneStray, Attended
      <3>2. current[d] = n \/ \E c \in Callers : cmd[c] = n /\ on[c] = d
        <4>1. CASE current'[d] = n
          BY <2>1, <4>1, CallsMove
        <4>2. ASSUME NEW c \in Callers, cmd'[c] = n, on'[c] = d PROVE cmd[c] = n /\ on[c] = d
          BY <2>1, <4>2, CallsMove
        <4>. QED
          BY <3>1, <4>1, <4>2
      <3>3. d <= dev
        <4>1. CASE current[d] = n
          BY <2>1, <4>1 DEF DevicesInTurn, Devs, None
        <4>2. ASSUME NEW c \in Callers, cmd[c] = n, on[c] = d PROVE d <= dev
          BY <2>1, <4>2 DEF DevicesInTurn, Inside
        <4>. QED
          BY <3>2, <4>1, <4>2
      <3>4. reader[d]
        BY <3>1, <3>3, CallsMove DEF Devs, None
      <3>. QED
        BY <3>2, <3>4 DEF Attended
    <2>. QED
      BY <2>2, <2>3
  <1>. QED
    BY <1>1, <1>2 DEF NoneStray

\* Who waits for an awaited command has it installed on the device that is read.
LEMMA AwaitedFacts ==
  ASSUME ATInv, OwnExchange, NEW n \in Awaited
  PROVE  \E c \in Callers :
           /\ cmd[c] = n /\ pc[c] \in Waits /\ pc[c] \in Inside \ {"install"}
           /\ on[c] \in Devs /\ reader[on[c]] /\ current[on[c]] = n
           /\ n \in Created /\ n \in Cmds /\ n # None /\ ~Done(n)
  <1>1. PICK c \in Callers : cmd[c] = n /\ pc[c] \in Waits /\ reader[on[c]]
    BY DEF Awaited
  <1>2. pc[c] \in Inside \ {"install"}
    BY <1>1 DEF Waits, Inside
  <1>3. n \in Created /\ n \in Cmds /\ n # None /\ ~Done(n)
    BY <1>1, <1>2 DEF Awaited, ATInv, DevicesInTurn, Cmds, None
  <1>4. on[c] \in Devs
    BY <1>2, Holder
  <1>. QED
    BY <1>1, <1>2, <1>3, <1>4 DEF OwnExchange

\* As long as no exchange goes astray, an awaited command is so until its final line.
LEMMA AwaitedStays ==
  ASSUME ATInv, OwnExchange, OwnExchange', [Next]_vars, NoneStray', NEW n \in Awaited, ~Done(n)'
  PROVE  n \in Awaited'
  <1>. USE DEF ATInv, ATTypeOK, ATTypes, OwnExchange, device, calls, worker, module
  <1>1. PICK c \in Callers : /\ cmd[c] = n /\ pc[c] \in Waits /\ pc[c] \in Inside \ {"install"}
                             /\ on[c] \in Devs /\ reader[on[c]] /\ current[on[c]] = n
                             /\ n \in Created /\ n \in Cmds /\ n # None /\ ~Done(n)
    BY AwaitedFacts
  <1>2. PICK d \in Devs : reader'[d] /\ (current'[d] = n \/ \E e \in Callers : cmd'[e] = n /\ on'[e] = d)
    BY <1>1, TruthStays DEF NoneStray, Attended
  <1>3. CASE cmd'[c] = n /\ on'[c] = on[c] /\ pc'[c] \in Waits
    <2>1. on'[c] = d
      BY <1>1, <1>2, <1>3
    <2>. QED
      BY <1>1, <1>2, <1>3, <2>1 DEF Awaited
  <1>4. CASE Clear(c)
    <2>1. /\ current' = [current EXCEPT ![on[c]] = None] /\ cmd' = [cmd EXCEPT ![c] = None]
          /\ on' = [on EXCEPT ![c] = None]
      BY <1>4 DEF Clear, Leave
    <2>2. current'[d] # n
      BY <1>1, <2>1
    <2>3. \A e \in Callers : cmd'[e] # n
      BY <1>1, <2>1
    <2>. QED
      BY <1>2, <2>2, <2>3
  <1>5. CASE UNCHANGED <<cmd, on, pc>>
    BY <1>1, <1>3, <1>5
  <1>6. ASSUME NEW e \in Callers, e # c,
               \/ Pick(e) \/ Acquire(e) \/ Refused(e) \/ Install(e) \/ WriteCommand(e)
               \/ CommandWriteFails(e) \/ Clear(e)
        PROVE  cmd'[c] = n /\ on'[c] = on[c] /\ pc'[c] \in Waits
    <2>1. CASE Pick(e) \/ Refused(e) \/ Install(e) \/ WriteCommand(e)
      <3>1. UNCHANGED cmd /\ (UNCHANGED on \/ \E x : on' = [on EXCEPT ![e] = x])
        BY ONLY <2>1 DEF Pick, Refused, Install, WriteCommand
      <3>2. PICK q : pc' = [pc EXCEPT ![e] = q]
        BY ONLY <2>1 DEF Pick, Refused, Install, WriteCommand
      <3>3. on'[c] = on[c]
        BY <1>6, <3>1
      <3>. QED
        BY <1>1, <1>6, <3>1, <3>2, <3>3
    <2>2. CASE Acquire(e)
      BY <1>1, <1>6, <2>2 DEF Acquire, NewCommand
    <2>3. CASE Leave(e)
      BY <1>1, <1>6, <2>3 DEF Leave
    <2>4. CASE pc' = [pc EXCEPT ![e] = "clear"] /\ UNCHANGED <<cmd, on>>
      BY <1>1, <1>6, <2>4
    <2>. QED
      BY <1>6, <2>1, <2>2, <2>3, <2>4 DEF CommandWriteFails, Clear
  <1>7. ~(Pick(c) \/ Acquire(c) \/ Refused(c) \/ Install(c) \/ WriteCommand(c) \/ CommandWriteFails(c))
    BY <1>1 DEF Pick, Acquire, Refused, Install, WriteCommand, CommandWriteFails, Waits
  <1>8. ASSUME NEW e \in Callers,
               WritePayload(e) \/ PromptRefused(e) \/ PromptTimeout(e) \/ DialogueWriteFails(e) \/ WaitEnds(e)
        PROVE  cmd'[c] = n /\ on'[c] = on[c] /\ pc'[c] \in Waits
    BY <1>1, <1>8 DEF WritePayload, PromptRefused, PromptTimeout, DialogueWriteFails, WaitEnds, Waits
  <1>. QED
    BY <1>3, <1>4, <1>5, <1>6, <1>7, <1>8
       DEF Next, vars, CallerStep, Reader, Connection, Modem, OpenDevice, PollLoopEnds, CloseBegins, CloseEnds,
           PortLost, ReadLine, Handle, ReaderEnds, ModemTakes, ModemPrompts, ModemAnswersOk,
           ModemAnswersError, Unsolicited

\* Steps with which no final line is handled.
LEMMA AwaitedGrows ==
  ASSUME ATInv, OwnExchange, OwnExchange', [Next]_vars, NoneStray',
         \A d \in Devs : Handle(d) => current[d] = None \/ ~Closing(inHand[d][1])
  PROVE  /\ Awaited \subseteq Awaited'
         /\ \A n \in Cmds : Done(n)' => Done(n)
  <1>1. ASSUME NEW n \in Cmds, Done(n)' PROVE Done(n)
    <2>1. n # None
      BY DEF Cmds, None
    <2>. QED
      BY <1>1, <2>1, DoneByHandling
  <1>2. ASSUME NEW n \in Awaited PROVE n \in Awaited'
    BY <1>1, AwaitedStays DEF Awaited
  <1>. QED
    BY <1>1, <1>2

-----------------------------------------------------------------------------
\* The line in a reader's hands is for the command its device has installed, and no
\* other device has one.
LEMMA InHandFacts ==
  ASSUME ATInv, OwnExchange, NoneStray, AllAwaited,
         NEW d \in Devs, inHand[d] # <<>>, Answering(inHand[d][1])
  PROVE  /\ inHand[d][1].from \in Awaited /\ current[d] = inHand[d][1].from
         /\ \A e \in Devs : inHand[e] # <<>> => e = d
  <1>1. \A e \in Devs : reader[e] => e = dev
    BY DEF ATInv, DevicesInTurn, NoneStray
  <1>2. \A e \in Devs : inHand[e] # <<>> => reader[e]
    BY DEF OwnExchange
  <1>3. inHand[d][1].from \in Awaited
    BY DEF AllAwaited
  <1>. QED
    BY <1>1, <1>2, <1>3, AwaitedFacts

\* Who is about to write has the line for itself.
LEMMA NothingAhead ==
  ASSUME ATInv, OwnExchange, NoneStray, Unwritten, NEW c \in Callers, pc[c] = "write"
  PROVE  reader[on[c]] /\ Awaited = {}
  <1>1. pc[c] \in Inside /\ cmd[c] \in Created /\ cmd[c] # None
    BY DEF Inside, ATInv, DevicesInTurn, OwnExchange
  <1>2. on[c] \in Devs
    BY <1>1, Holder
  <1>3. reader[on[c]]
    <2>1. cmd[c] \in Cmds /\ ~Done(cmd[c])
      BY <1>1 DEF Unwritten, Created
    <2>2. PICK d \in Devs :
            reader[d] /\ (current[d] = cmd[c] \/ \E e \in Callers : cmd[e] = cmd[c] /\ on[e] = d)
      BY <1>1, <2>1 DEF NoneStray, Attended
    <2>3. on[c] = d
      BY <1>1, <2>2 DEF OwnExchange
    <2>. QED
      BY <2>2, <2>3
  <1>4. ASSUME NEW n \in Awaited PROVE FALSE
    <2>1. PICK e \in Callers : pc[e] \in Waits /\ pc[e] \in Inside /\ on[e] \in Devs /\ reader[on[e]]
      BY AwaitedFacts
    <2>2. on[e] = on[c]
      BY <1>2, <1>3, <2>1 DEF ATInv, DevicesInTurn, NoneStray
    <2>3. e = c
      BY <1>1, <2>1, <2>2, Exclusive
    <2>. QED
      BY <2>1, <2>3 DEF Waits
  <1>. QED
    BY <1>3, <1>4

\* Nothing is answered before it was written.
LEMMA UnwrittenPreserved ==
  ASSUME ATInv, OwnExchange, [Next]_vars, NoneStray, InOrder
  PROVE  Unwritten'
  <1>0. ASSUME NEW d \in Devs, inHand[d] # <<>>, Closing(inHand[d][1])
        PROVE  current[d] \in Awaited
    <2>1. AllAwaited /\ Answering(inHand[d][1])
      BY <1>0 DEF InOrder, Answering, Closing, Final
    <2>. QED
      BY <1>0, <2>1, InHandFacts
  <1>. USE DEF ATInv, ATTypeOK, ATTypes, device, calls, worker, module
  <1>. SUFFICES ASSUME NEW c \in Callers, NEW n \in Cmds, pc'[c] \in {"install", "write"}, cmd'[c] = n, Done(n)'
               PROVE  FALSE
    BY DEF Unwritten
  <1>1. CASE pc[c] \in {"install", "write"} /\ cmd[c] = n
    <2>1. ~Done(n)
      BY <1>1 DEF InOrder, Unwritten
    <2>2. PICK d \in Devs : inHand[d] # <<>> /\ current[d] = n /\ Closing(inHand[d][1])
      BY <2>1, DoneByHandling
    <2>3. n \in Awaited
      BY <1>0, <2>2
    <2>4. PICK e \in Callers : cmd[e] = n /\ pc[e] \in Waits /\ n # None
      BY <2>3, AwaitedFacts
    <2>. QED
      BY <1>1, <2>4 DEF OwnExchange, Waits
  <1>2. CASE Acquire(c)
    <2>1. n \in Cmds \ Created
      BY <1>2 DEF Acquire, NewCommand
    <2>2. UNCHANGED lines /\ lines[n] = <<>>
      BY <1>2, <2>1 DEF Acquire, OwnExchange
    <2>. QED
      BY <2>2 DEF Done, Collected
  <1>3. CASE UNCHANGED <<pc, cmd>>
    BY <1>1, <1>3
  <1>4. CASE Install(c)
    BY <1>1, <1>4 DEF Install
  <1>5. ASSUME NEW e \in Callers, e # c, Install(e) \/ Acquire(e)
        PROVE  pc[c] \in {"install", "write"} /\ cmd[c] = n
    BY <1>5 DEF Install, Acquire, NewCommand
  <1>6. ASSUME NEW e \in Callers, NEW q \in {"idle", "picked", "prompt", "final", "clear"},
               pc' = [pc EXCEPT ![e] = q], \A x \in Callers : x # e => cmd'[x] = cmd[x]
        PROVE  pc[c] \in {"install", "write"} /\ cmd[c] = n
    BY <1>6
  <1>7. ASSUME NEW e \in Callers,
               \/ Pick(e) \/ Refused(e) \/ WriteCommand(e) \/ CommandWriteFails(e) \/ WritePayload(e)
               \/ PromptRefused(e) \/ PromptTimeout(e) \/ DialogueWriteFails(e) \/ WaitEnds(e) \/ Clear(e)
        PROVE  \E q \in {"idle", "picked", "prompt", "final", "clear"} :
                 pc' = [pc EXCEPT ![e] = q] /\ \A x \in Callers : x # e => cmd'[x] = cmd[x]
    BY <1>7 DEF Pick, Refused, WriteCommand, CommandWriteFails, WritePayload, PromptRefused, PromptTimeout,
                DialogueWriteFails, WaitEnds, Clear, Leave
  <1>8. ASSUME NEW e \in Callers, Pick(e) \/ Acquire(e) \/ CallerStep(e) PROVE FALSE
    <2>1. CASE Install(e) \/ Acquire(e)
      BY <1>1, <1>2, <1>4, <1>5, <2>1
    <2>2. CASE ~(Install(e) \/ Acquire(e))
      BY <1>1, <1>6, <1>7, <1>8, <2>2 DEF CallerStep
    <2>. QED
      BY <2>1, <2>2
  <1>9. UNCHANGED <<pc, cmd>> \/ \E e \in Callers : Pick(e) \/ Acquire(e) \/ CallerStep(e)
    BY DEF Next, vars, Reader, Connection, Modem, OpenDevice, PollLoopEnds, CloseBegins, CloseEnds,
           PortLost, ReadLine, Handle, ReaderEnds, ModemTakes, ModemPrompts, ModemAnswersOk,
           ModemAnswersError, Unsolicited
  <1>. QED
    BY <1>3, <1>8, <1>9


-----------------------------------------------------------------------------
\* The elements of a longer and of a shorter sequence.
LEMMA AppendedAt ==
  ASSUME NEW E, NEW s \in Seq(E), NEW x \in E, NEW i \in DOMAIN Append(s, x)
  PROVE  \/ i \in DOMAIN s /\ i <= Len(s) /\ Append(s, x)[i] = s[i]
         \/ i = Len(s) + 1 /\ Append(s, x)[i] = x
  OBVIOUS

LEMMA TailAt ==
  ASSUME NEW E, NEW s \in Seq(E), s # <<>>, NEW i \in DOMAIN Tail(s)
  PROVE  i + 1 \in DOMAIN s /\ 1 \in DOMAIN s /\ 1 < i + 1 /\ Tail(s)[i] = s[i + 1] /\ Head(s) = s[1]
  OBVIOUS

\* Writing a payload or an ESC loses what was not read, and is no command.
LEMMA WrittenInOrder ==
  ASSUME ATInv, AllAwaited, OnePlace, Awaited \subseteq Awaited',
         NEW c \in Callers, NEW item \in Item, ~Command(item), Send(c, item), UNCHANGED <<modem, inHand>>
  PROVE  AllAwaited' /\ OnePlace'
  <1>. USE DEF ATInv, ATTypeOK, ATTypes, Send
  <1>1. wire' = <<>> /\ DOMAIN wire' = {}
    OBVIOUS
  <1>2. \A i \in DOMAIN toModem' : Command(toModem'[i]) => i \in DOMAIN toModem /\ toModem'[i] = toModem[i]
    BY AppendedAt
  <1>3. FinalComes' => FinalComes
    BY <1>1 DEF FinalComes, Closing
  <1>4. AllAwaited'
    BY <1>1, <1>2 DEF AllAwaited, Command, Answering
  <1>5. OnePlace'
    BY <1>1, <1>2, <1>3 DEF OnePlace, Command, Answering, Closing
  <1>. QED
    BY <1>4, <1>5

\* Writing a command: it is all there is on the line.
LEMMA CommandInOrder ==
  ASSUME ATInv, OwnExchange, OwnExchange', NoneStray, AllAwaited, OnePlace, Unwritten,
         NEW c \in Callers, WriteCommand(c)
  PROVE  AllAwaited' /\ OnePlace'
  <1>1. reader[on[c]] /\ Awaited = {} /\ pc[c] = "write"
    BY NothingAhead DEF WriteCommand
  <1>2. pc[c] \in Inside /\ cmd[c] \in Created /\ cmd[c] \in Cmds /\ on[c] \in Devs
    BY <1>1, Holder DEF Inside, ATInv, DevicesInTurn, Created
  <1>. USE DEF ATInv, ATTypeOK, ATTypes, device, calls
  <1>. DEFINE item == [cmd |-> cmd[c], what |-> kind[cmd[c]]]
  <1>3. /\ wire' = <<>> /\ toModem' = Append(toModem, item) /\ item \in Item
        /\ UNCHANGED <<modem, inHand, lines, cmd, on, reader>> /\ pc'[c] \in Waits
    BY <1>2 DEF WriteCommand, Send, Item, Created, Waits
  <1>4. cmd[c] \in Awaited'
    <2>1. ~Done(cmd[c])' 
      BY <1>1, <1>2, <1>3 DEF Unwritten, Done, Collected
    <2>. QED
      BY <1>1, <1>2, <1>3, <2>1 DEF Awaited
  <1>5. /\ modem.state = "ready"
        /\ \A d \in Devs : inHand[d] # <<>> => ~Answering(inHand[d][1])
        /\ \A i \in DOMAIN toModem : ~Command(toModem[i])
    BY <1>1 DEF AllAwaited
  <1>6. \A i \in DOMAIN toModem' : Command(toModem'[i]) => i = Len(toModem) + 1 /\ toModem'[i].cmd = cmd[c]
    BY <1>3, <1>5, AppendedAt
  <1>7. ~FinalComes'
    BY <1>3, <1>5 DEF FinalComes, Answering, Closing, Final
  <1>8. AllAwaited'
    BY <1>3, <1>4, <1>5, <1>6 DEF AllAwaited, Command, Answering
  <1>9. OnePlace'
    BY <1>3, <1>5, <1>6, <1>7 DEF OnePlace, Command, Answering, Closing, FinalComes
  <1>. QED
    BY <1>8, <1>9

\* Reading moves the next line into the reader's hands.
LEMMA ReadInOrder ==
  ASSUME ATInv, OwnExchange, NoneStray, AllAwaited, OnePlace, Awaited \subseteq Awaited',
         NEW d \in Devs, ReadLine(d)
  PROVE  AllAwaited' /\ OnePlace'
  <1>1. \A e \in Devs : inHand[e] = <<>>
    BY DEF ATInv, DevicesInTurn, NoneStray, OwnExchange, ReadLine
  <1>. USE DEF ATInv, ATTypeOK, ATTypes, module
  <1>2. /\ wire # <<>> /\ wire' = Tail(wire) /\ 1 \in DOMAIN wire /\ inHand'[d] = <<wire[1]>>
        /\ \A e \in Devs : inHand'[e] # <<>> => e = d
        /\ UNCHANGED <<toModem, modem>>
    BY <1>1 DEF ReadLine
  <1>3. inHand'[d][1] = wire[1]
    BY <1>2
  <1>4. \A i \in DOMAIN wire' : i + 1 \in DOMAIN wire /\ 1 < i + 1 /\ wire'[i] = wire[i + 1] /\ i \in Nat
    BY <1>2, TailAt
  <1>5. FinalComes' => FinalComes
    BY <1>2, <1>3, <1>4 DEF FinalComes, Closing
  <1>6. AllAwaited'
    BY <1>2, <1>3, <1>4 DEF AllAwaited, Command, Answering
  <1>7. OnePlace'
    BY <1>2, <1>3, <1>4, <1>5 DEF OnePlace, Command, Answering, Closing
  <1>. QED
    BY <1>6, <1>7

\* Handling gives the line to its command; with the final line the command is through.
LEMMA HandledInOrder ==
  ASSUME ATInv, OwnExchange, OwnExchange', [Next]_vars, NoneStray, NoneStray', InOrder,
         NEW d \in Devs, Handle(d)
  PROVE  AnswersMatch' /\ AllAwaited' /\ OnePlace'
  <1>. DEFINE line == inHand[d][1]
  <1>1. AnswersMatch /\ AllAwaited /\ OnePlace /\ inHand[d] # <<>>
    BY DEF InOrder, Handle
  <1>2. ASSUME Answering(line)
        PROVE  /\ line.from \in Awaited /\ current[d] = line.from
               /\ \A e \in Devs : inHand[e] # <<>> => e = d
    BY <1>1, <1>2, InHandFacts
  <1>3. ASSUME ~Closing(line) PROVE Awaited \subseteq Awaited'
    <2>1. ASSUME NEW e \in Devs, Handle(e) PROVE current[e] = None \/ ~Closing(inHand[e][1])
      <3>1. inHand[e] # <<>> /\ reader[e] /\ reader[d]
        BY <1>1, <2>1 DEF Handle, OwnExchange
      <3>. QED
        BY <1>3, <3>1 DEF ATInv, DevicesInTurn, NoneStray
    <2>. QED
      BY <2>1, AwaitedGrows
  <1>. USE DEF ATInv, ATTypeOK, ATTypes, module
  <1>4. /\ inHand' = [inHand EXCEPT ![d] = <<>>] /\ UNCHANGED <<wire, toModem, modem>>
        /\ \A e \in Devs : inHand'[e] # <<>> => e # d /\ inHand'[e] = inHand[e]
        /\ line \in Line
    BY <1>1, HeadAndTail DEF Handle
  <1>5. AnswersMatch'
    <2>1. CASE current[d] = None
      BY <1>1, <2>1 DEF AnswersMatch, Handle
    <2>2. CASE current[d] # None
      <3>. SUFFICES ASSUME NEW n \in Cmds, NEW i \in DOMAIN lines'[n], lines'[n][i].text # "+CMTI"
                    PROVE  lines'[n][i].from = n
        BY DEF AnswersMatch
      <3>1. CASE n = current[d]
        <4>1. lines'[n] = Append(lines[n], line) /\ lines[n] \in Seq(Line)
          BY <2>2, <3>1 DEF Handle
        <4>2. \/ i \in DOMAIN lines[n] /\ lines'[n][i] = lines[n][i]
              \/ lines'[n][i] = line
          BY <1>4, <4>1, AppendedAt
        <4>. QED
          BY <1>1, <1>2, <3>1, <4>2 DEF AnswersMatch, Answering
      <3>2. CASE n # current[d]
        BY <1>1, <2>2, <3>2 DEF AnswersMatch, Handle
      <3>. QED
        BY <3>1, <3>2
    <2>. QED
      BY <2>1, <2>2
  <1>6. CASE Closing(line)
    <2>1. FinalComes /\ Answering(line)
      BY <1>1, <1>6 DEF FinalComes, Closing, Answering, Final
    <2>2. /\ modem.state = "ready"
          /\ \A i \in DOMAIN toModem : ~Command(toModem[i])
          /\ \A i \in DOMAIN wire : ~Answering(wire[i]) /\ ~Closing(wire[i])
      BY <1>1, <1>6, <2>1 DEF OnePlace, Closing, Answering, Final
    <2>3. \A e \in Devs : inHand'[e] = <<>>
      BY <1>2, <1>4, <2>1
    <2>4. AllAwaited'
      BY <1>4, <2>2, <2>3 DEF AllAwaited, Command, Answering
    <2>5. OnePlace'
      BY <1>4, <2>2, <2>3 DEF OnePlace, FinalComes, Command, Answering, Closing
    <2>. QED
      BY <1>5, <2>4, <2>5
  <1>7. CASE ~Closing(line)
    <2>1. FinalComes' => FinalComes
      BY <1>4 DEF FinalComes, Closing
    <2>2. AllAwaited'
      BY <1>1, <1>3, <1>4, <1>7 DEF AllAwaited, Command, Answering
    <2>3. OnePlace'
      BY <1>1, <1>4, <2>1 DEF OnePlace, Command, Answering, Closing
    <2>. QED
      BY <1>5, <2>2, <2>3
  <1>. QED
    BY <1>6, <1>7

\* The module takes what was written: a command only when it is ready, and then it is
\* the only one.
LEMMA TakenInOrder ==
  ASSUME ATInv, AllAwaited, OnePlace, Awaited \subseteq Awaited', ModemTakes
  PROVE  AllAwaited' /\ OnePlace'
  <1>. USE DEF ATInv, ATTypeOK, ATTypes
  <1>. DEFINE item == Head(toModem)
  <1>1. /\ toModem # <<>> /\ toModem' = Tail(toModem) /\ UNCHANGED <<wire, inHand>>
        /\ 1 \in DOMAIN toModem /\ item = toModem[1] /\ item \in Item
    BY HeadAndTail DEF ModemTakes
  <1>2. \A i \in DOMAIN toModem' : i + 1 \in DOMAIN toModem /\ 1 < i + 1 /\ toModem'[i] = toModem[i + 1] /\ i \in Nat
    BY <1>1, TailAt
  <1>3. FinalComes' <=> FinalComes
    BY <1>1 DEF FinalComes, Closing
  <1>4. CASE modem.state = "ready" /\ Command(item)
    <2>1. modem' = [cmd |-> item.cmd, state |-> item.what]
      BY <1>4 DEF ModemTakes, Command
    <2>2. item.cmd \in Awaited /\ ~FinalComes
      BY <1>1, <1>4 DEF AllAwaited, OnePlace
    <2>3. \A i \in DOMAIN toModem' : ~Command(toModem'[i])
      BY <1>1, <1>2, <1>4 DEF OnePlace
    <2>4. AllAwaited'
      BY <1>1, <2>1, <2>2, <2>3 DEF AllAwaited, Command, Answering
    <2>5. OnePlace'
      BY <1>1, <1>3, <2>2, <2>3 DEF OnePlace, Command, Answering, Closing
    <2>. QED
      BY <2>4, <2>5
  <1>5. CASE modem.state = "ready" /\ ~Command(item)
    <2>1. modem' = modem
      BY <1>5 DEF ModemTakes, Command
    <2>2. AllAwaited'
      BY <1>1, <1>2, <2>1 DEF AllAwaited, Command, Answering
    <2>3. OnePlace'
      BY <1>1, <1>2, <1>3, <2>1 DEF OnePlace, Command, Answering, Closing
    <2>. QED
      BY <2>2, <2>3
  <1>6. CASE modem.state = "prompted"
    <2>1. modem'.state # "ready" => modem'.cmd = modem.cmd
      BY <1>6 DEF ModemTakes, Ready
    <2>2. ~FinalComes /\ \A i \in DOMAIN toModem : ~Command(toModem[i])
      BY <1>6 DEF OnePlace
    <2>3. \A i \in DOMAIN toModem' : ~Command(toModem'[i])
      BY <1>2, <2>2
    <2>4. AllAwaited'
      BY <1>1, <1>6, <2>1, <2>3 DEF AllAwaited, Command, Answering
    <2>5. OnePlace'
      BY <1>1, <1>3, <2>2, <2>3 DEF OnePlace, Command, Answering, Closing
    <2>. QED
      BY <2>4, <2>5
  <1>. QED
    BY <1>4, <1>5, <1>6 DEF ModemTakes

\* The module answers the command it has, which is the only one; an unsolicited line
\* is no answer.
LEMMA AnsweredInOrder ==
  ASSUME ATInv, AllAwaited, OnePlace, Awaited \subseteq Awaited',
         ModemPrompts \/ ModemAnswersOk \/ ModemAnswersError \/ Unsolicited
  PROVE  AllAwaited' /\ OnePlace'
  <1>. USE DEF ATInv, ATTypeOK, ATTypes
  <1>1. UNCHANGED <<inHand, toModem>>
    BY DEF ModemPrompts, ModemAnswersOk, ModemAnswersError, Unsolicited
  <1>2. CASE Unsolicited
    <2>. DEFINE line == [from |-> None, text |-> "+CMTI"]
    <2>1. line \in Line /\ ~Answering(line) /\ ~Closing(line) /\ wire' = Append(wire, line) /\ UNCHANGED modem
      BY <1>2 DEF Unsolicited, Answer, Line, Answering, Closing, Final
    <2>2. \A i \in DOMAIN wire' : Answering(wire'[i]) \/ Closing(wire'[i]) => i \in DOMAIN wire /\ wire'[i] = wire[i]
      BY <2>1, AppendedAt
    <2>3. FinalComes' => FinalComes
      BY <1>1, <2>2 DEF FinalComes, Closing
    <2>4. AllAwaited'
      BY <1>1, <2>1, <2>2 DEF AllAwaited, Command, Answering
    <2>5. OnePlace'
      BY <1>1, <2>1, <2>2, <2>3 DEF OnePlace, Command, Answering, Closing
    <2>. QED
      BY <2>4, <2>5
  <1>3. ASSUME NEW text \in {">", "OK", "ERROR"}, Answer(modem.cmd, text), modem.state # "ready",
               modem'.state # "ready" => modem'.cmd = modem.cmd /\ text = ">"
        PROVE  AllAwaited' /\ OnePlace'
    <2>. DEFINE line == [from |-> modem.cmd, text |-> text]
    <2>1. line \in Line /\ wire' = Append(wire, line)
      BY <1>3 DEF Answer, Line, Final
    <2>2. \A i \in DOMAIN wire' : \/ i \in DOMAIN wire /\ i <= Len(wire) /\ wire'[i] = wire[i]
                                  \/ i = Len(wire) + 1 /\ wire'[i] = line
      BY <2>1, AppendedAt
    <2>3. /\ modem.cmd \in Awaited /\ ~FinalComes /\ \A i \in DOMAIN toModem : ~Command(toModem[i])
      BY <1>3 DEF AllAwaited, OnePlace
    <2>4. \A i \in DOMAIN wire : ~Closing(wire[i])
      BY <2>3 DEF FinalComes
    <2>5. \A d \in Devs : inHand[d] # <<>> => ~Closing(inHand[d][1])
      BY <2>3 DEF FinalComes
    <2>6. FinalComes' => modem'.state = "ready"
      <3>1. SUFFICES ASSUME FinalComes', modem'.state # "ready" PROVE FALSE
        OBVIOUS
      <3>2. ~Closing(line)
        BY <1>3, <3>1 DEF Closing, Final
      <3>3. \A i \in DOMAIN wire' : ~Closing(wire'[i])
        BY <2>2, <2>4, <3>2
      <3>. QED
        BY <1>1, <2>5, <3>1, <3>3 DEF FinalComes, Closing
    <2>7. AllAwaited'
      <3>1. ASSUME NEW i \in DOMAIN wire', Answering(wire'[i]) PROVE wire'[i].from \in Awaited'
        <4>1. CASE wire'[i] = line
          BY <2>3, <4>1
        <4>2. CASE i \in DOMAIN wire /\ wire'[i] = wire[i]
          BY <3>1, <4>2 DEF AllAwaited
        <4>. QED
          BY <2>2, <4>1, <4>2
      <3>2. modem'.state # "ready" => modem'.cmd \in Awaited'
        BY <1>3, <2>3
      <3>3. \A d \in Devs : inHand[d] # <<>> /\ Answering(inHand[d][1]) => inHand[d][1].from \in Awaited'
        BY DEF AllAwaited
      <3>. QED
        BY <1>1, <2>3, <3>1, <3>2, <3>3 DEF AllAwaited, Command, Answering
    <2>8. \A i, j \in DOMAIN wire' : i < j => ~Closing(wire'[i])
      <3>1. ASSUME NEW i \in DOMAIN wire', NEW j \in DOMAIN wire', i < j PROVE ~Closing(wire'[i])
        <4>1. i # Len(wire) + 1
          <5>1. Len(wire) \in Nat /\ j \in Nat
            BY <2>1
          <5>. QED
            BY ONLY <2>2, <3>1, <5>1
        <4>. QED
          BY <2>2, <2>4, <4>1
      <3>. QED
        BY <3>1
    <2>9. OnePlace'
      BY <1>1, <2>3, <2>5, <2>6, <2>8 DEF OnePlace, Command, Answering, Closing
    <2>. QED
      BY <2>7, <2>9
  <1>4. CASE ModemPrompts
    BY <1>3, <1>4 DEF ModemPrompts
  <1>5. CASE ModemAnswersOk
    BY <1>3, <1>5 DEF ModemAnswersOk, Ready
  <1>6. CASE ModemAnswersError
    BY <1>3, <1>6 DEF ModemAnswersError, Ready
  <1>. QED
    BY <1>2, <1>4, <1>5, <1>6
-----------------------------------------------------------------------------
\* ATInv holds in every reachable state: threads that call, close and lose devices
\* in any order keep the lock's discipline and the order of the devices.
THEOREM ATInvariant == Spec => []ATInv
  <1>1. ATInv /\ [Next]_vars => ATInv'
    BY ATTypesPreserved, LockDisciplinePreserved, DevicesInTurnPreserved DEF ATInv, ATTypeOK
  <1>. QED
    BY InitEstablishesATInv, <1>1, PTL DEF Spec

\* Exactly the callers inside an exchange hold their device's lock, and the reader
\* gives what it reads to the command of the holder or to nobody.
THEOREM ATTypeCorrect == Spec => []ATTypeOK
  <1>1. ATInv => ATTypeOK
    BY DEF ATInv
  <1>. QED
    BY ATInvariant, <1>1, PTL

\* Closing, losing and reopening the port never leave two threads reading the line,
\* unless connect_and_init failed on a device it did not close.
THEOREM OneReaderUnlessLeaked == Spec => []SingleReaderWhileInitSucceeds
  <1>1. ATInv => SingleReaderWhileInitSucceeds
    BY DEF ATInv, DevicesInTurn, SingleReaderWhileInitSucceeds, SingleReader, Readers
  <1>. QED
    BY ATInvariant, <1>1, PTL

-----------------------------------------------------------------------------
\* Every step, as long as no exchange goes astray, keeps the line in order.
LEMMA InOrderPreserved ==
  ASSUME ATInv, OwnExchange, OwnExchange', [Next]_vars, NoneStray, NoneStray', InOrder
  PROVE  InOrder'
  <1>1. AnswersMatch /\ AllAwaited /\ OnePlace /\ Unwritten /\ Unwritten'
    BY UnwrittenPreserved DEF InOrder
  <1>2. ASSUME NEW d \in Devs, Handle(d) PROVE AnswersMatch' /\ AllAwaited' /\ OnePlace'
    BY <1>2, HandledInOrder
  <1>3. ASSUME \A d \in Devs : ~Handle(d)
        PROVE  AnswersMatch' /\ AllAwaited' /\ OnePlace'
    <2>1. Awaited \subseteq Awaited'
      BY <1>3, AwaitedGrows
    <2>2. UNCHANGED lines \/ (\E c \in Callers : Acquire(c))
      BY <1>3 DEF vars, device, calls, worker, module, CallerStep, Reader, Connection, Modem,
                  Next, OpenDevice, PollLoopEnds, CloseBegins, CloseEnds, PortLost, Pick, Acquire,
                  Refused, Install, WriteCommand, CommandWriteFails, WritePayload, PromptRefused,
                  PromptTimeout, DialogueWriteFails, WaitEnds, Clear, ReadLine, ReaderEnds,
                  ModemTakes, ModemPrompts, ModemAnswersOk, ModemAnswersError, Unsolicited
    <2>3. AnswersMatch'
      BY <1>1, <2>2 DEF AnswersMatch, Acquire
    <2>4. CASE UNCHANGED <<toModem, modem, wire, inHand>>
      <3>1. AllAwaited'
        BY <1>1, <2>1, <2>4 DEF AllAwaited, Command, Answering
      <3>2. OnePlace'
        BY <1>1, <2>4 DEF OnePlace, FinalComes, Command, Answering, Closing
      <3>. QED
        BY <2>3, <3>1, <3>2
    <2>5. ASSUME NEW c \in Callers, WriteCommand(c) PROVE AllAwaited' /\ OnePlace'
      BY <1>1, <2>5, CommandInOrder
    <2>6. ASSUME NEW c \in Callers, WritePayload(c) \/ PromptTimeout(c) PROVE AllAwaited' /\ OnePlace'
      <3>1. cmd[c] \in Cmds
        BY <2>6, Holder DEF WritePayload, PromptTimeout, Inside
      <3>. DEFINE payload == [cmd |-> cmd[c], what |-> "payload"]
                  esc == [cmd |-> cmd[c], what |-> "esc"]
      <3>2. payload \in Item /\ esc \in Item /\ ~Command(payload) /\ ~Command(esc)
        BY <3>1 DEF Item, Command
      <3>3. (Send(c, payload) \/ Send(c, esc)) /\ UNCHANGED <<modem, inHand>>
        BY <2>6 DEF WritePayload, PromptTimeout
      <3>. HIDE DEF payload, esc
      <3>. QED
        BY <1>1, <2>1, <3>2, <3>3, WrittenInOrder
    <2>7. ASSUME NEW d \in Devs, ReadLine(d) PROVE AllAwaited' /\ OnePlace'
      BY <1>1, <2>1, <2>7, ReadInOrder
    <2>8. CASE PortLost
      <3>1. toModem' = <<>> /\ wire' = <<>> /\ modem'.state = "ready" /\ UNCHANGED inHand
        BY <2>8 DEF PortLost, Ready
      <3>2. AllAwaited'
        BY <1>1, <2>1, <3>1 DEF AllAwaited, Command, Answering
      <3>3. OnePlace'
        BY <1>1, <3>1 DEF OnePlace, Command, Answering, Closing
      <3>. QED
        BY <2>3, <3>2, <3>3
    <2>9. CASE Modem \/ Unsolicited
      BY <1>1, <2>1, <2>3, <2>9, TakenInOrder, AnsweredInOrder DEF Modem
    <2>10. \/ UNCHANGED <<toModem, modem, wire, inHand>>
           \/ \E c \in Callers : WriteCommand(c) \/ WritePayload(c) \/ PromptTimeout(c)
           \/ \E d \in Devs : ReadLine(d)
           \/ PortLost \/ Modem \/ Unsolicited
      BY <1>3 DEF vars, device, calls, worker, module, CallerStep, Reader, Connection, Next,
                  OpenDevice, PollLoopEnds, CloseBegins, CloseEnds, Pick, Acquire, Refused, Install,
                  CommandWriteFails, PromptRefused, DialogueWriteFails, WaitEnds, Clear, ReaderEnds
    <2>. QED
      BY <2>3, <2>4, <2>5, <2>6, <2>7, <2>8, <2>9, <2>10
  <1>. QED
    BY <1>1, <1>2, <1>3 DEF InOrder

\* LineInv holds in every reachable state: until an exchange goes astray, whatever is
\* between the callers and the module belongs to the one command that is awaited.
THEOREM LineInvariant == Spec => []LineInv
  <1>1. Init => LineInv
    BY InitEstablishesATInv, InitEstablishesLine DEF LineInv
  <1>2. LineInv /\ [Next]_vars => LineInv'
    <2>. SUFFICES ASSUME LineInv, [Next]_vars PROVE LineInv'
      OBVIOUS
    <2>1. ATInv /\ OwnExchange /\ Truthful /\ Orderly
      BY DEF LineInv
    <2>2. ATInv' /\ OwnExchange' /\ Truthful'
      BY <2>1, ATTypesPreserved, LockDisciplinePreserved, DevicesInTurnPreserved,
         OwnExchangePreserved, TruthfulPreserved DEF ATInv, ATTypeOK
    <2>3. ASSUME NoneStray' PROVE InOrder'
      <3>1. NoneStray
        BY <2>1, <2>3, StrayStays
      <3>. QED
        BY <2>1, <2>2, <2>3, <3>1, InOrderPreserved DEF Orderly
    <2>4. Orderly'
      BY <2>3 DEF Orderly
    <2>. QED
      BY <2>2, <2>4 DEF LineInv
  <1>. QED
    BY <1>1, <1>2, PTL DEF Spec

\* An exchange that was not given up is attended.
LEMMA GivenUpWhenStray ==
  ASSUME ATInv, OwnExchange, NothingGivenUp, ~leaked
  PROVE  NoneStray
  <1>1. ASSUME NEW n \in Created, ~Done(n) PROVE Attended(n)
    <2>1. PICK c \in Callers : cmd[c] = n /\ Connected(on[c])
      BY <1>1 DEF NothingGivenUp
    <2>2. on[c] \in Devs
      BY <2>1, Holder DEF OwnExchange, Created, Cmds, None
    <2>. QED
      BY <2>1, <2>2 DEF Attended, Connected, OwnExchange
  <1>. QED
    BY <1>1 DEF NoneStray

\* atdevice.py's "responses never interleave": with any number of callers, devices and
\* losses of the port, the prompts and final lines a command collects are its own, for
\* as long as no exchange was given up and no device was left open.
THEOREM AnswersReachTheirCommand == Spec => []AnswersMatchUntilTimeout
  <1>1. LineInv => AnswersMatchUntilTimeout
    BY GivenUpWhenStray DEF LineInv, Orderly, InOrder, AnswersMatchUntilTimeout
  <1>. QED
    BY LineInvariant, <1>1, PTL

\* Under the same condition a CMGS exchange that reports success had its message put on
\* the air: no other command's OK is taken for it.
THEOREM AcceptedMeansAired == Spec => []OkMeansAired
  <1>1. LineInv => OkMeansAired
    <2>. SUFFICES ASSUME LineInv, NothingGivenUp, ~leaked,
                         NEW n \in Cmds, kind[n] = "cmgs", Ok(n)
                  PROVE  n \in aired
      BY DEF OkMeansAired
    <2>1. ATInv /\ OwnExchange /\ Truthful /\ AnswersMatch
      BY GivenUpWhenStray DEF LineInv, Orderly, InOrder
    <2>. DEFINE last == Len(lines[n])
    <2>2. lines[n] \in Seq(Honest) /\ lines[n] # <<>>
      BY <2>1 DEF Truthful, Ok
    <2>3. last \in DOMAIN lines[n] /\ lines[n][last] \in Honest /\ lines[n][last].text = "OK"
      BY <2>2 DEF Ok
    <2>4. lines[n][last].from = n
      BY <2>1, <2>3 DEF AnswersMatch
    <2>. QED
      BY <2>3, <2>4 DEF Honest
  <1>. QED
    BY LineInvariant, <1>1, PTL
=============================================================================
