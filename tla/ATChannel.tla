------------------------------ MODULE ATChannel ------------------------------
(***************************************************************************)
(* The serial line: ATDevice objects, the threads that use them, and the   *)
(* worker that opens one after the other.                                  *)
(*                                                                         *)
(* An ATDevice has a command lock, a reader thread, and _current, the      *)
(* CommandResult that gets what the reader reads; nothing in a line says   *)
(* which command it answers.  The worker opens a device and initialises    *)
(* it; HTTP threads issue commands on whatever worker.dev is, and close it *)
(* to force a reconnect; the port can vanish.  All devices that are open   *)
(* at one time share the module's one line.                                *)
(*                                                                         *)
(* The module is external: it takes what is written in order and answers   *)
(* each command with one final line, AT+CMGS with '>' first.  What the     *)
(* code sends as several exchanges (the CMGF switches around a PDU, the    *)
(* commands of connect_and_init) is several commands or one here.          *)
(***************************************************************************)
EXTENDS Naturals, Sequences

CONSTANTS Callers,   \* threads that call command() or send_sms()
          Worker,    \* the one that runs SerialWorker.run
          MaxDev,    \* bound on the ATDevice objects
          MaxCmd,    \* bound on the exchanges
          MaxUpset,  \* bound on unsolicited lines, closes and losses of the port together
          Events     \* subset of {"timeout", "error", "close"}

ASSUME BoundsAssumption == MaxDev \in Nat /\ MaxCmd \in Nat /\ MaxUpset \in Nat
ASSUME CallersAssumption == Worker \in Callers /\ 0 \notin Callers

Cmds == 1 .. MaxCmd
Devs == 1 .. MaxDev
None == 0

VARIABLES
  ser,       \* ser[d]: self.ser is not None
  running,   \* running[d]: self._running
  reader,    \* reader[d]: the reader thread is in its loop
  gone,      \* gone[d]: the port behind self.ser has vanished
  lock,      \* lock[d]: holder of self._lock, or None
  current,   \* current[d]: self._current, or None
  inHand,    \* inHand[d]: the line the reader has read and not yet handled, if any
  pc,        \* pc[c]: where the caller stands
  cmd,       \* cmd[c]: its CommandResult, numbered in the order of creation
  on,        \* on[c]: the device it calls
  dev,       \* worker.dev
  phase,     \* the worker: "down", "init" (connect_and_init) or "polling"
  closing,   \* the device an HTTP thread is closing, or None
  kind,      \* kind[n]: "plain" or "cmgs"
  lines,     \* lines[n]: what the CommandResult collected: [from, text]
  toModem,   \* written, not yet taken by the modem
  modem,     \* [cmd, state]: what the modem works on
  wire,      \* lines in the host's input buffer
  aired,     \* the CMGS exchanges whose message the modem sent
  upsets,    \* unsolicited lines, closes and losses so far
  leaked     \* an initialisation failed and its device stayed open

device == <<ser, running, reader, gone>>
calls == <<lock, current, pc, cmd, on, kind>>
worker == <<dev, phase, leaked>>
module == <<toModem, modem, aired, upsets>>
vars == <<ser, running, reader, gone, lock, current, inHand, pc, cmd, on, dev, phase,
          closing, kind, lines, toModem, modem, wire, aired, upsets, leaked>>

Ready == [cmd |-> None, state |-> "ready"]
Final == {"OK", "ERROR"}
Collected(n, texts) == \E i \in DOMAIN lines[n] : lines[n][i].text \in texts
Done(n) == Collected(n, Final)
Prompted(n) == Collected(n, {">"})
\* Variant: any final line counts.
OkOnAnyFinal(n) == Done(n)
\* CommandResult.ok.
Ok(n) == lines[n] # <<>> /\ lines[n][Len(lines[n])].text = "OK"
Created == {n \in Cmds : kind[n] # "none"}
Inside == {"install", "write", "prompt", "final", "clear"}

\* ATDevice.connected; the flag is cleared by close() and by a failing reader.
Connected(d) == ser[d] /\ running[d]
\* A write or read on it works.
Usable(d) == ser[d] /\ ~gone[d]

-----------------------------------------------------------------------------
\* At process start; or, so that the bounds are not spent on it, just after the first
\* connect_and_init has succeeded.
Init ==
  /\ dev \in {None} \cup {d \in Devs : d = 1}
  /\ phase = IF dev = None THEN "down" ELSE "polling"
  /\ ser = [d \in Devs |-> d = dev]
  /\ running = [d \in Devs |-> d = dev]
  /\ reader = [d \in Devs |-> d = dev]
  /\ gone = [d \in Devs |-> FALSE]
  /\ lock = [d \in Devs |-> None]
  /\ current = [d \in Devs |-> None]
  /\ inHand = [d \in Devs |-> <<>>]
  /\ pc = [c \in Callers |-> "idle"]
  /\ cmd = [c \in Callers |-> None]
  /\ on = [c \in Callers |-> None]
  /\ closing = None
  /\ kind = [n \in Cmds |-> "none"]
  /\ lines = [n \in Cmds |-> <<>>]
  /\ toModem = <<>>
  /\ modem = Ready
  /\ wire = <<>>
  /\ aired = {}
  /\ upsets = 0
  /\ leaked = FALSE

(***************************************************************************)
(* The worker's connection.                                                *)
(***************************************************************************)
\* connect_and_init: a new ATDevice, which becomes worker.dev as soon as it is
\* open.  retry_interval is longer than the reader's read timeout: a reader that
\* was told to stop has stopped by then.
OpenDevice ==
  /\ phase = "down"
  /\ \A d \in Devs : reader[d] => running[d]
  /\ \E d \in Devs :
       /\ d = dev + 1
       /\ ser' = [ser EXCEPT ![d] = TRUE]
       /\ running' = [running EXCEPT ![d] = TRUE]
       /\ reader' = [reader EXCEPT ![d] = TRUE]
       /\ dev' = d
  /\ phase' = "init"
  /\ UNCHANGED <<gone, calls, inHand, closing, lines, module, wire, leaked>>

\* Variant: the loop ends after a cycle although the device is connected.
LoopEndsAnyway ==
  /\ phase = "polling" /\ pc[Worker] = "idle"
  /\ phase' = "down"
  /\ UNCHANGED <<device, calls, inHand, dev, leaked, closing, lines, module, wire>>

\* The condition of _poll_forever; run() then retries, without closing dev.
PollLoopEnds ==
  /\ phase = "polling" /\ pc[Worker] = "idle"
  /\ ~Connected(dev)
  /\ phase' = "down"
  /\ UNCHANGED <<device, calls, inHand, dev, leaked, closing, lines, module, wire>>

\* close() from the reconnect endpoint: no lock, and it joins the reader.
CloseBegins ==
  /\ "close" \in Events
  /\ upsets < MaxUpset
  /\ upsets' = upsets + 1
  /\ closing = None /\ dev # None
  /\ ser[dev]
  /\ closing' = dev
  /\ running' = [running EXCEPT ![dev] = FALSE]
  /\ UNCHANGED <<ser, reader, gone, calls, inHand, worker, lines, toModem, modem, aired, wire>>

CloseEnds ==
  /\ closing # None
  /\ ~reader[closing]
  /\ ser' = [ser EXCEPT ![closing] = FALSE]
  /\ current' = [current EXCEPT ![closing] = None]
  /\ closing' = None
  /\ UNCHANGED <<running, reader, gone, lock, pc, cmd, on, kind, inHand, worker, lines, module, wire>>

\* The port goes and comes back: open files on it fail, the module starts anew.
PortLost ==
  /\ upsets < MaxUpset
  /\ upsets' = upsets + 1
  /\ gone' = [d \in Devs |-> gone[d] \/ ser[d]]
  /\ toModem' = <<>> /\ wire' = <<>> /\ modem' = Ready
  /\ UNCHANGED <<ser, running, reader, calls, inHand, worker, closing, lines, aired>>

(***************************************************************************)
(* _submit and _cmgs_exchange.                                             *)
(***************************************************************************)
\* The worker calls self.dev while it initialises or polls (further commands of a
\* cycle whose device is not connected are all refused and change nothing); an HTTP
\* handler calls worker.dev after it found it connected.
Pick(c) ==
  /\ pc[c] = "idle"
  /\ Created # Cmds
  /\ dev # None
  /\ IF c = Worker THEN phase = "init" \/ (phase = "polling" /\ Connected(dev))
                   ELSE Connected(dev)
  /\ on' = [on EXCEPT ![c] = dev]
  /\ pc' = [pc EXCEPT ![c] = "picked"]
  /\ UNCHANGED <<device, lock, current, cmd, kind, inHand, worker, closing, lines, module, wire>>

\* A new CommandResult for c; only the worker's poll cycle sends SMS.
NewCommand(c) ==
  \E n \in Cmds \ Created, k \in {"plain", "cmgs"} :
    /\ \A x \in Cmds : x < n => x \in Created
    /\ k = "cmgs" => c = Worker /\ phase = "polling"
    /\ kind' = [kind EXCEPT ![n] = k]
    /\ cmd' = [cmd EXCEPT ![c] = n]

\* Variant: no lock.
AcquireWithoutLock(c) ==
  /\ pc[c] = "picked"
  /\ Connected(on[c])
  /\ NewCommand(c)
  /\ lock' = [lock EXCEPT ![on[c]] = c]
  /\ pc' = [pc EXCEPT ![c] = "install"]
  /\ UNCHANGED <<device, current, on, inHand, worker, closing, lines, module, wire>>

\* "with self._lock", the test of connected, then a CommandResult.
Acquire(c) ==
  /\ pc[c] = "picked"
  /\ lock[on[c]] = None
  /\ Connected(on[c])
  /\ NewCommand(c)
  /\ lock' = [lock EXCEPT ![on[c]] = c]
  /\ pc' = [pc EXCEPT ![c] = "install"]
  /\ UNCHANGED <<device, current, on, inHand, worker, closing, lines, module, wire>>

\* How an exchange that gave ok leaves the worker: in connect_and_init a failure
\* raises, and the device stays as it is.
WorkerGoesOn(c, ok) ==
  IF c = Worker /\ phase = "init"
    THEN /\ phase' = IF ok THEN "polling" ELSE "down"
         /\ leaked' = (leaked \/ (~ok /\ reader[dev]))
    ELSE UNCHANGED <<phase, leaked>>

\* The caller leaves its device, and releases the lock.
Leave(c) ==
  /\ pc' = [pc EXCEPT ![c] = "idle"]
  /\ lock' = [lock EXCEPT ![on[c]] = None]
  /\ cmd' = [cmd EXCEPT ![c] = None]
  /\ on' = [on EXCEPT ![c] = None]

\* "Device not connected".
Refused(c) ==
  /\ pc[c] = "picked"
  /\ lock[on[c]] = None
  /\ ~Connected(on[c])
  /\ pc' = [pc EXCEPT ![c] = "idle"]
  /\ on' = [on EXCEPT ![c] = None]
  /\ WorkerGoesOn(c, FALSE)
  /\ UNCHANGED <<device, lock, current, cmd, kind, inHand, dev, closing, lines, module, wire>>

Install(c) ==
  /\ pc[c] = "install"
  /\ current' = [current EXCEPT ![on[c]] = cmd[c]]
  /\ pc' = [pc EXCEPT ![c] = "write"]
  /\ UNCHANGED <<device, lock, cmd, on, kind, inHand, worker, closing, lines, module, wire>>

\* _write: flushInput discards what no reader has read yet.
Send(c, item) ==
  /\ Usable(on[c])
  /\ wire' = <<>>
  /\ toModem' = Append(toModem, item)

WriteCommand(c) ==
  /\ pc[c] = "write"
  /\ Send(c, [cmd |-> cmd[c], what |-> kind[cmd[c]]])
  /\ pc' = [pc EXCEPT ![c] = IF kind[cmd[c]] = "cmgs" THEN "prompt" ELSE "final"]
  /\ UNCHANGED <<device, lock, current, cmd, on, kind, inHand, worker, closing, lines, modem, aired, upsets>>

\* The first write of _cmgs_exchange stands before its "try": in text mode its
\* exception leaves _current in place; _send_pdu clears it.
CommandWriteFails(c) ==
  /\ pc[c] = "write"
  /\ ~Usable(on[c])
  /\ \/ /\ pc' = [pc EXCEPT ![c] = "clear"]
        /\ UNCHANGED <<lock, cmd, on, phase, leaked>>
     \/ /\ kind[cmd[c]] = "cmgs"
        /\ Leave(c)
        /\ WorkerGoesOn(c, FALSE)
  /\ UNCHANGED <<device, current, kind, inHand, dev, closing, lines, module, wire>>

\* _wait_prompt saw '>': payload and ctrl-Z.
WritePayload(c) ==
  /\ pc[c] = "prompt"
  /\ Prompted(cmd[c])
  /\ Send(c, [cmd |-> cmd[c], what |-> "payload"])
  /\ pc' = [pc EXCEPT ![c] = "final"]
  /\ UNCHANGED <<device, lock, current, cmd, on, kind, inHand, worker, closing, lines, modem, aired, upsets>>

\* _wait_prompt saw a final line instead.
PromptRefused(c) ==
  /\ pc[c] = "prompt"
  /\ Done(cmd[c]) /\ ~Prompted(cmd[c])
  /\ pc' = [pc EXCEPT ![c] = "clear"]
  /\ UNCHANGED <<device, lock, current, cmd, on, kind, inHand, worker, closing, lines, module, wire>>

\* No prompt in time: ESC aborts the CMGS dialogue.
PromptTimeout(c) ==
  /\ "timeout" \in Events
  /\ pc[c] = "prompt"
  /\ ~Done(cmd[c]) /\ ~Prompted(cmd[c])
  /\ Send(c, [cmd |-> cmd[c], what |-> "esc"])
  /\ pc' = [pc EXCEPT ![c] = "clear"]
  /\ UNCHANGED <<device, lock, current, cmd, on, kind, inHand, worker, closing, lines, modem, aired, upsets>>

\* The payload or the ESC cannot be written: the exception passes the "finally".
DialogueWriteFails(c) ==
  /\ pc[c] = "prompt"
  /\ ~Usable(on[c])
  /\ Prompted(cmd[c]) \/ ("timeout" \in Events /\ ~Done(cmd[c]))
  /\ pc' = [pc EXCEPT ![c] = "clear"]
  /\ UNCHANGED <<device, lock, current, cmd, on, kind, inHand, worker, closing, lines, module, wire>>

\* Variant: cur.wait() has no time limit.
WaitEndsWithAnswer(c) ==
  /\ pc[c] = "final"
  /\ Done(cmd[c])
  /\ pc' = [pc EXCEPT ![c] = "clear"]
  /\ UNCHANGED <<device, lock, current, cmd, on, kind, inHand, worker, closing, lines, module, wire>>

\* cur.wait() ends: with a final line, or after the timeout.
WaitEnds(c) ==
  /\ pc[c] = "final"
  /\ Done(cmd[c]) \/ "timeout" \in Events
  /\ pc' = [pc EXCEPT ![c] = "clear"]
  /\ UNCHANGED <<device, lock, current, cmd, on, kind, inHand, worker, closing, lines, module, wire>>

\* Variant: _current is left in place.
ClearKeepsCurrent(c) ==
  /\ pc[c] = "clear"
  /\ Leave(c)
  /\ WorkerGoesOn(c, Ok(cmd[c]))
  /\ UNCHANGED <<device, current, kind, inHand, dev, closing, lines, module, wire>>

\* "finally: self._current = None", and the lock is released.
Clear(c) ==
  /\ pc[c] = "clear"
  /\ current' = [current EXCEPT ![on[c]] = None]
  /\ Leave(c)
  /\ WorkerGoesOn(c, Ok(cmd[c]))
  /\ UNCHANGED <<device, kind, inHand, dev, closing, lines, module, wire>>

(***************************************************************************)
(* A reader thread.                                                        *)
(***************************************************************************)
ReadLine(d) ==
  /\ reader[d] /\ Usable(d)
  /\ inHand[d] = <<>>
  /\ wire # <<>>
  /\ inHand' = [inHand EXCEPT ![d] = <<Head(wire)>>]
  /\ wire' = Tail(wire)
  /\ UNCHANGED <<device, calls, worker, closing, lines, module>>

\* _handle: _current is looked up now, after the line was read.  (The line is added
\* to that CommandResult in the same step: doing it later changes neither whose
\* line it becomes nor what the modem did.)  A second '>' is an ordinary line.
Handle(d) ==
  /\ inHand[d] # <<>>
  /\ lines' = IF current[d] = None THEN lines
              ELSE [lines EXCEPT ![current[d]] = Append(@, inHand[d][1])]
  /\ inHand' = [inHand EXCEPT ![d] = <<>>]
  /\ UNCHANGED <<device, calls, worker, closing, module, wire>>

\* Variant: the failing reader leaves _running alone.
ReaderEndsQuietly(d) ==
  /\ reader[d] /\ inHand[d] = <<>>
  /\ ~running[d] \/ gone[d]
  /\ reader' = [reader EXCEPT ![d] = FALSE]
  /\ UNCHANGED <<ser, running, gone, calls, inHand, worker, closing, lines, module, wire>>

\* The loop condition, or the except branch of readline.
ReaderEnds(d) ==
  /\ reader[d] /\ inHand[d] = <<>>
  /\ ~running[d] \/ gone[d]
  /\ reader' = [reader EXCEPT ![d] = FALSE]
  /\ running' = [running EXCEPT ![d] = FALSE]
  /\ UNCHANGED <<ser, gone, calls, inHand, worker, closing, lines, module, wire>>

(***************************************************************************)
(* The module.                                                             *)
(***************************************************************************)
Answer(n, text) == wire' = Append(wire, [from |-> n, text |-> text])

\* It takes the next thing written: a command when it is ready, a payload or an
\* ESC in a CMGS dialogue; a command line written into that dialogue is text of
\* the message, a payload or ESC outside of it is ignored.
ModemTakes ==
  LET item == Head(toModem) IN
  /\ toModem # <<>>
  /\ modem.state \in {"ready", "prompted"}
  /\ toModem' = Tail(toModem)
  /\ modem' = IF modem.state = "ready"
                THEN IF item.what \in {"plain", "cmgs"}
                       THEN [cmd |-> item.cmd, state |-> item.what] ELSE modem
                ELSE CASE item.what = "payload" -> [modem EXCEPT !.state = "sending"]
                       [] item.what = "esc" -> Ready
                       [] OTHER -> modem
  /\ UNCHANGED <<device, calls, inHand, worker, closing, lines, wire, aired, upsets>>

ModemPrompts ==
  /\ modem.state = "cmgs"
  /\ Answer(modem.cmd, ">")
  /\ modem' = [modem EXCEPT !.state = "prompted"]
  /\ UNCHANGED <<device, calls, inHand, worker, closing, lines, toModem, aired, upsets>>

ModemAnswersOk ==
  /\ modem.state \in {"plain", "sending"}
  /\ aired' = IF modem.state = "sending" THEN aired \cup {modem.cmd} ELSE aired
  /\ Answer(modem.cmd, "OK")
  /\ modem' = Ready
  /\ UNCHANGED <<device, calls, inHand, worker, closing, lines, toModem, upsets>>

ModemAnswersError ==
  /\ "error" \in Events
  /\ modem.state \in {"plain", "cmgs", "sending"}
  /\ Answer(modem.cmd, "ERROR")
  /\ modem' = Ready
  /\ UNCHANGED <<device, calls, inHand, worker, closing, lines, toModem, aired, upsets>>

\* +CMTI and the like (AT+CNMI=2,1 asks for them).
Unsolicited ==
  /\ upsets < MaxUpset
  /\ upsets' = upsets + 1
  /\ Answer(None, "+CMTI")
  /\ UNCHANGED <<device, calls, inHand, worker, closing, lines, toModem, modem, aired>>

-----------------------------------------------------------------------------
CallerStep(c) ==
  \/ Refused(c) \/ Install(c) \/ WriteCommand(c) \/ CommandWriteFails(c)
  \/ WritePayload(c) \/ PromptRefused(c) \/ PromptTimeout(c) \/ DialogueWriteFails(c)
  \/ WaitEnds(c) \/ Clear(c)

Reader(d) == ReadLine(d) \/ Handle(d) \/ ReaderEnds(d)
Connection == OpenDevice \/ PollLoopEnds
Modem == ModemTakes \/ ModemPrompts \/ ModemAnswersOk \/ ModemAnswersError

Next ==
  \/ \E c \in Callers : Pick(c) \/ Acquire(c) \/ CallerStep(c)
  \/ \E d \in Devs : Reader(d)
  \/ Connection \/ CloseBegins \/ CloseEnds \/ PortLost
  \/ Modem \/ Unsolicited

Spec == Init /\ [][Next]_vars

\* Threads run; the modem answers.
FairSpec ==
  /\ Spec
  /\ WF_vars(Connection) /\ WF_vars(CloseEnds) /\ WF_vars(Modem)
  /\ \A d \in Devs : WF_vars(Reader(d))
  /\ \A c \in Callers : WF_vars(CallerStep(c))

-----------------------------------------------------------------------------
Line == [from : Cmds \cup {None}, text : Final \cup {">", "+CMTI"}]
Item == [cmd : Cmds, what : {"plain", "cmgs", "payload", "esc"}]

ATTypes ==
  /\ ser \in [Devs -> BOOLEAN] /\ running \in [Devs -> BOOLEAN]
  /\ reader \in [Devs -> BOOLEAN] /\ gone \in [Devs -> BOOLEAN]
  /\ lock \in [Devs -> Callers \cup {None}]
  /\ current \in [Devs -> Cmds \cup {None}]
  /\ inHand \in [Devs -> Seq(Line)] /\ \A d \in Devs : Len(inHand[d]) <= 1
  /\ pc \in [Callers -> Inside \cup {"idle", "picked"}]
  /\ cmd \in [Callers -> Cmds \cup {None}]
  /\ on \in [Callers -> Devs \cup {None}]
  /\ dev \in Devs \cup {None} /\ closing \in Devs \cup {None}
  /\ phase \in {"down", "init", "polling"} /\ leaked \in BOOLEAN
  /\ kind \in [Cmds -> {"none", "plain", "cmgs"}]
  /\ lines \in [Cmds -> Seq(Line)]
  /\ toModem \in Seq(Item) /\ wire \in Seq(Line)
  /\ modem \in [cmd : Cmds \cup {None}, state : {"ready", "plain", "cmgs", "prompted", "sending"}]
  /\ modem.state # "ready" => modem.cmd \in Cmds
  /\ aired \subseteq Cmds /\ upsets \in 0 .. MaxUpset

LockDiscipline ==
  /\ \A c \in Callers, d \in Devs : lock[d] = c <=> pc[c] \in Inside /\ on[c] = d
  /\ \A c \in Callers :
       pc[c] \in Inside \ {"install"} => current[on[c]] \in {cmd[c], None}
  /\ \A d \in Devs : lock[d] = None /\ Usable(d) => current[d] = None

\* Types, and the discipline of the lock: exactly the callers inside an exchange hold
\* the lock of their device, and a caller whose command is out has its own
\* CommandResult installed, or none after a close().
ATTypeOK == ATTypes /\ LockDiscipline

\* The threads that read the module's line.
Readers == {d \in Devs : reader[d] /\ ~gone[d]}

\* atdevice.py, line 4, "a single reader thread parses lines".  connect_and_init
\* leaves its device open when the module does not answer it, and opens another one
\* at the next try.
SingleReader == \A d, e \in Readers : d = e

\* As long as no initialisation has failed on an open device, closing, losing and
\* reopening the port never leave two threads reading the line.
SingleReaderWhileInitSucceeds == ~leaked => SingleReader

\* Devices come one after the other, and unless one was left open, a thread reads the
\* latest one only, and none on which the worker has given up.
DevicesInTurn ==
  /\ \A c \in Callers : pc[c] # "idle" => on[c] \in Devs /\ on[c] <= dev
  /\ \A c \in Callers : pc[c] \in Inside => cmd[c] \in Created
  /\ \A d \in Devs : d > dev => current[d] = None /\ ~reader[d]
  /\ \A d \in Devs : reader[d] => ser[d]
  /\ phase # "down" => dev # None
  /\ ~leaked => \A d \in Devs : reader[d] => d = dev /\ (phase = "down" => ~running[d])

\* The inductive invariant: what the theorems of ATChannelProofs rest on.
ATInv == ATTypeOK /\ DevicesInTurn

\* atdevice.py, line 6, "responses never interleave": a '>' or final line a
\* command collected is the modem's answer to that command.
AnswersMatch ==
  \A n \in Cmds : \A i \in DOMAIN lines[n] :
    lines[n][i].text # "+CMTI" => lines[n][i].from = n

\* No exchange was given up so far: each one has a final line, or is running on a
\* device that was not closed under it.
NothingGivenUp ==
  \A n \in Created : Done(n) \/ \E c \in Callers : cmd[c] = n /\ Connected(on[c])

\* The claim above, for as long as no exchange was given up and no device was left
\* open; exchanges of two threads, unsolicited lines, closing and reopening come in
\* any order.
AnswersMatchUntilTimeout == NothingGivenUp /\ ~leaked => AnswersMatch

\* A message reported as accepted was put on the air by the modem, under the same
\* condition.
OkMeansAired ==
  NothingGivenUp /\ ~leaked => \A n \in Cmds : kind[n] = "cmgs" /\ Ok(n) => n \in aired

\* Every exchange ends, whatever lines come in between, when the device is closed
\* under it, and when the port vanishes: no caller keeps the lock.
ExchangesEnd == \A c \in Callers : pc[c] \in Inside ~> pc[c] \notin Inside

\* A worker that polls a port that has vanished notices and goes back to connecting,
\* whatever exchange it is in.
LossIsNoticed ==
  (phase = "polling" /\ \E d \in Devs : d = dev /\ gone[d]) ~> phase = "down"
=============================================================================
